----------------------------- MODULE Configure ------------------------------
(***************************************************************************)
(* The configure commands that change several objects of the device, one   *)
(* process after the other: wireless, wired, tls and cira.                 *)
(***************************************************************************)
EXTENDS ConfigureNetwork, ConfigureTls, ConfigureCira

vars == <<store, profiles, ports, remote, process, pc, result, faults>>

Finished == pc = "idle" /\ runs = MaxRuns /\ UNCHANGED vars

Step == PruneCerts \/ Configure8021x \/ Wireless \/ Wired \/ TlsCommand \/ CiraCommand

Next == Begin \/ Step \/ Kill \/ Finished

Spec == Init /\ [][Next]_vars

-----------------------------------------------------------------------------
(* Properties. *)

\* The certificates of the profiles and of the TLS context.
InUse == (UNION wifi) \cup wired.certs \cup ctx

(* Whatever fails and wherever a process is killed, no command takes away    *)
(* what another one's profile needs: the certificates of every profile and   *)
(* of the TLS context are on the device, with their keys but for the ones    *)
(* that never were, and TLS is on only with a context, but for the one whose *)
(* certificate the device refused unseen.                                    *)
CredentialsPresent ==
    /\ InUse \subseteq certs
    /\ InUse \cap Clients \subseteq keys \cup lacking
    /\ tls \ enforced # {} => ctx # {} \/ \E r \in 1..MaxRuns : Tls(r) \in lacking

(* The type assertion on a certificate's key (utils.go:151) panics only on a *)
(* profile in use whose key was not given with its certificate, or was       *)
(* refused without an error; the two positions of the policies (cira.go:136  *)
(* and :144) only in a process in which the device refused something so.     *)
NoPanic ==
    result = "panic" =>
        \/ InUse \cap lacking # {}
        \/ cmd.name = "cira" /\ "unseen" \in faults

\* The certificates the command was given.
Given ==
    (IF cmd.client # None THEN {Eap(cmd.client)} ELSE {}) \cup (IF cmd.ca THEN {Ca} ELSE {})

\* What a command that reports success has to leave on the device.
InEffect ==
    CASE cmd.name = "wireless" -> Given \in wifi /\ ("call" \notin faults => wifi = {Given})
      [] cmd.name = "purge" -> "call" \notin faults => wifi = {}
      [] cmd.name = "wired" /\ Uses8021x ->
            wired.on /\ (cmd.eaptls /\ Given # {} => wired.certs = Given)
      [] cmd.name = "wired" /\ ~Uses8021x -> "call" \notin faults => ~wired.on
      [] EnablesTls -> tls = Ports /\ ctx # {}
      [] cmd.name = "untls" -> tls = {}
      [] cmd.name = "cira" ->
            /\ MpsRoot \in certs /\ mps = {runs} /\ cira
            /\ rules = Triggers \X {runs} /\ applied = rules

(* A command reports success only when what it was asked for is in effect,   *)
(* whatever earlier commands left when they failed or were killed; and but   *)
(* for what the device refuses without an error, a ReturnValue the code does *)
(* not look at (cira.go:103 to :159, wireless.go:189, wired.go:312).         *)
SuccessMeansInEffect == result = "ok" /\ "unseen" \notin faults => InEffect

(* "Defer certificate cleanup on error" (tls.go:184): a failed tls leaves no *)
(* certificate and no key on the device that nothing uses, when the cleanup  *)
(* itself did not fail.                                                      *)
FailedTlsCleansUp ==
    result = "error" /\ EnablesTls /\ "prune" \notin faults
        => certs \cup keys \subseteq InUse

(* What earlier commands left never makes a later one fail: a command none   *)
(* of whose calls fails succeeds, on anything failed and killed commands can *)
(* leave.  The exceptions are a port that cannot be without TLS, and a       *)
(* private key that is on the device already: that one makes 802.1x fail     *)
(* until something prunes it.                                                *)
RetryRecovers ==
    result = "error" /\ faults = {} =>
        \/ cmd.name = "untls" /\ enforced # {}
        \/ Uses8021x /\ Eap(cmd.key) \in keys
=============================================================================
