-------------------------- MODULE ConfigureNetwork --------------------------
(* The commands wireless and wired of internal/commands/configure. *)
EXTENDS ConfigureProcess

\* A profile that cannot be deleted is skipped; wireless ignores any error.
ClearWirelessProfiles ==
    /\ pc = "wifi"
    /\ \/ /\ wifi' \in SUBSET wifi
          /\ faults' = IF wifi' = {} THEN faults ELSE faults \cup {"call"}
          /\ pc' = "prune" /\ UNCHANGED result
       \/ FailsTo(AfterPrune) /\ UNCHANGED wifi
    /\ UNCHANGED <<store, wired, ctx, ports, remote, process>>

AddWiFiSettings ==
    /\ pc = "addwifi"
    /\ Invoke(wifi' = wifi \cup {got}, UNCHANGED wifi, "idle", "idle")
    /\ UNCHANGED <<store, wired, ctx, ports, remote, process>>

-----------------------------------------------------------------------------
PutEthernetSettings ==
    /\ pc = "ethernet"
    /\ Goto("disable") \/ Fails
    /\ UNCHANGED store /\ Same

SetWired(on, used) == wired' = [on |-> on, certs |-> used]

\* An error of it does not stop the command.
Disable8021xProfile ==
    /\ pc = "disable"
    /\ \/ ~wired.on /\ Then(AfterPrune) /\ UNCHANGED wired
       \/ wired.on /\ SetWired(FALSE, {}) /\ Goto("prune")
       \/ /\ SetWired(FALSE, {}) \/ UNCHANGED wired
          /\ Reaches(AfterPrune, "ok") /\ faults' = faults \cup {"call"}
    /\ UNCHANGED <<store, wifi, ctx, ports, remote, process>>

\* With EAP-TLS, when there is a certificate to set.
AfterEnable == IF cmd.eaptls /\ got # {} THEN "setcerts" ELSE "idle"

\* Mutant: the certificates of EAP-TLS are not set.
PutIEEE8021xSettings_Ends ==
    /\ pc = "enable"
    /\ Call(SetWired(TRUE, wired.certs), UNCHANGED wired, "idle", "idle")
    /\ UNCHANGED <<store, wifi, ctx, ports, remote, process>>

PutIEEE8021xSettings ==
    /\ pc = "enable"
    /\ Call(SetWired(TRUE, wired.certs), UNCHANGED wired, AfterEnable, "idle")
    /\ UNCHANGED <<store, wifi, ctx, ports, remote, process>>

SetIEEE8021xCertificates ==
    /\ pc = "setcerts"
    /\ Invoke(SetWired(TRUE, got), UNCHANGED wired, "idle", "idle")
    /\ UNCHANGED <<store, wifi, ctx, ports, remote, process>>

Wireless == ClearWirelessProfiles \/ AddWiFiSettings
Wired ==
    \/ PutEthernetSettings \/ Disable8021xProfile
    \/ PutIEEE8021xSettings \/ SetIEEE8021xCertificates
=============================================================================
