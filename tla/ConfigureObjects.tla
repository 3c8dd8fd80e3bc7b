-------------------------- MODULE ConfigureObjects --------------------------
(***************************************************************************)
(* The configure commands that change one object of the device each:       *)
(* features, AMT and MEBx password, proxy, clock, host name and Wi-Fi      *)
(* synchronisation (internal/commands/configure), each a sequence of WSMAN *)
(* calls after HostProcess; and the deactivation, which goes through the   *)
(* driver in CCM.  They decide by the control mode AfterApply read.        *)
(* What the put of the redirection service makes of its EnabledState is    *)
(* the firmware's and left out; proxies with the same address and port are *)
(* one.                                                                    *)
(***************************************************************************)
EXTENDS HostProcess

CONSTANTS Addresses, Ports   \* of the proxies; 80 is the default port

ASSUME PortsAssumption == 80 \in Ports /\ Ports \subseteq 1..65535

Consents == {"none", "kvm", "all"}
Proxies == Addresses \X Ports
NewPasswords == Passwords \cup {Nothing}   \* an empty answer to the prompt is accepted

Devices ==
    [mode : 0..2, password : NewPasswords, mebx : NewPasswords,
     ider : BOOLEAN, sol : BOOLEAN, listener : BOOLEAN, kvm : BOOLEAN, consent : Consents,
     proxies : SUBSET Proxies, clock : BOOLEAN, name : BOOLEAN,
     sync : BOOLEAN, uefi : BOOLEAN, wifi : BOOLEAN]

NoProxy == <<>>
\* The arguments; those a command does not have are left as they are here.
Defaults == [ider |-> FALSE, sol |-> FALSE, kvm |-> FALSE, consent |-> "all",
             password |-> Nothing, proxy |-> NoProxy, sync |-> FALSE, uefi |-> FALSE]

Arguments ==
    [ider : BOOLEAN, sol : BOOLEAN, kvm : BOOLEAN, consent : Consents, password : NewPasswords,
     proxy : Proxies \cup {NoProxy}, sync : BOOLEAN, uefi : BOOLEAN]

ProxyChanges == {"proxyAdd", "proxyDelete"}

\* The arguments a command has.
Fields(name) ==
    CASE name = "features" -> {"ider", "sol", "kvm", "consent"}
      [] name \in {"password", "mebx"} -> {"password"}
      [] name \in ProxyChanges -> {"proxy"}
      [] name = "wifi" -> {"sync", "uefi"}
      [] OTHER -> {}

Wants(name) ==
    {w \in Arguments :
        /\ \A f \in DOMAIN Defaults \ Fields(name) : w[f] = Defaults[f]
        /\ name \in ProxyChanges => w.proxy # NoProxy}

\* kong calls Run, which begins with EnsureRuntime.
DispatchConfigure ==
    /\ Here("dispatch")
    /\ cmd' \in ConfigureCommands \cup {"deactivate"}
    /\ want' \in Wants(cmd')
    /\ Move("secret")
    /\ UNCHANGED <<frontVars, secret, client>> /\ Untouched

Running(name) == Here("run") /\ cmd = name
Inactive == seen = 0

-----------------------------------------------------------------------------
(* features *)

AnyRedirection == want.kvm \/ want.sol \/ want.ider

GetRedirection ==
    /\ Running("features")
    /\ IF Inactive THEN GiveUp ELSE Get("redirection")

\* 32768 + 1 for IDER + 2 for SOL.
SetRedirection ==
    /\ Here("redirection")
    /\ Invoke("system", [device EXCEPT !.ider = want.ider, !.sol = want.sol])

\* isISMSystem: two versions, with a time of five nanoseconds: one tick each.
AskSystem ==
    /\ Here("system")
    /\ QueryTicks("version", "amt", 1)
    /\ UNCHANGED <<device, mishaps>> /\ Same

AskSku ==
    /\ Answered("version")
    /\ IF res.ok THEN QueryTicks("sku", "sku", 1) ELSE Fail
    /\ UNCHANGED <<device, mishaps>> /\ Same

\* Bit 0x10 of the SKU, looked at from version 5 on.
IsIsm == machine.ism /\ machine.version >= 5

DecideKvm ==
    /\ Answered("sku")
    /\ IF ~res.ok THEN Fail ELSE IF IsIsm THEN Move("listener") ELSE Move("kvm")
    /\ UNCHANGED <<device, mishaps>> /\ Same

SetKvm ==
    /\ Here("kvm")
    /\ Invoke("listener", [device EXCEPT !.kvm = want.kvm])

\* Mutant: the listener is enabled for SOL and IDER only.
PutRedirection_NotForKvm ==
    /\ Here("listener")
    /\ Put(IF seen = 2 THEN "optin" ELSE "done",
           [device EXCEPT !.listener = want.sol \/ want.ider])

\* User consent is left alone outside ACM.
PutRedirection ==
    /\ Here("listener")
    /\ Put(IF seen = 2 THEN "optin" ELSE "done", [device EXCEPT !.listener = AnyRedirection])

GetOptIn == Here("optin") /\ Get(IF device.consent = want.consent THEN "done" ELSE "consent")

PutOptIn == Here("consent") /\ Put("done", [device EXCEPT !.consent = want.consent])

Features ==
    \/ GetRedirection \/ SetRedirection \/ AskSystem \/ AskSku \/ DecideKvm \/ SetKvm
    \/ PutRedirection \/ GetOptIn \/ PutOptIn

-----------------------------------------------------------------------------
(* password and mebx *)

\* The digest realm is needed for the hash of the new password.
GetRealm ==
    /\ Running("password")
    /\ IF Inactive THEN GiveUp ELSE Get("realm")

UpdatePassword ==
    /\ Here("realm")
    /\ Invoke("done", [device EXCEPT !.password = want.password])

\* Mutant: the control mode is not looked at.
SetMebx_AnyMode ==
    /\ Running("mebx")
    /\ Invoke("done", [device EXCEPT !.mebx = want.password])

SetMebx ==
    /\ Running("mebx")
    /\ IF seen # 2 THEN GiveUp ELSE Invoke("done", [device EXCEPT !.mebx = want.password])

-----------------------------------------------------------------------------
(* proxy *)

ProxyInactive ==
    /\ Here("run") /\ cmd \in {"proxyList", "proxyAdd", "proxyDelete"}
    /\ Inactive /\ GiveUp

ListProxies == Running("proxyList") /\ ~Inactive /\ Get("done")

\* A duplicate and every other ReturnValue are logged, and reported as success.
AddProxy ==
    /\ Running("proxyAdd") /\ ~Inactive
    /\ Invoke("done", [device EXCEPT !.proxies = @ \cup {want.proxy}])

\* Port 80, the default, stands for any port.
Matching ==
    {p \in device.proxies : p[1] = want.proxy[1] /\ (want.proxy[2] = 80 \/ p[2] = want.proxy[2])}

FindProxy ==
    /\ Running("proxyDelete") /\ ~Inactive
    /\ Get("match")

\* The first of the matching access points in the device's order.
DeleteProxy ==
    /\ Here("match")
    /\ \/ Matching = {} /\ GiveUp
       \/ \E p \in Matching : Invoke("done", [device EXCEPT !.proxies = @ \ {p}])

Proxy == ProxyInactive \/ ListProxies \/ AddProxy \/ FindProxy \/ DeleteProxy

-----------------------------------------------------------------------------
(* clock, host name, Wi-Fi *)

GetLowAccuracyTime ==
    /\ Running("clock")
    /\ IF Inactive THEN GiveUp ELSE Get("time")

\* Both ReturnValues are looked at.
SetHighAccuracyTime == Here("time") /\ Put("done", [device EXCEPT !.clock = TRUE])

\* The DNS suffix of the operating system is optional, its host name is not.
GetHostname ==
    /\ Running("hostname")
    /\ IF Inactive THEN GiveUp ELSE Get("settings") \/ GiveUp

PutHostname == Here("settings") /\ Put("done", [device EXCEPT !.name = TRUE])

\* EnableWiFi looks at the device, whatever its control mode.
GetWiFi == Running("wifi") /\ Get("capabilities")

SyncedUefi == machine.uefi /\ want.uefi

\* Mutant: the settings are put only when the profile synchronisation differs.
GetCapabilities_SyncOnly ==
    /\ Here("capabilities")
    /\ Get(IF device.sync # want.sync THEN "sync" ELSE "wifi")

GetCapabilities ==
    /\ Here("capabilities")
    /\ Get(IF device.sync # want.sync \/ device.uefi # SyncedUefi THEN "sync" ELSE "wifi")

PutWiFi == Here("sync") /\ Put("wifi", [device EXCEPT !.sync = want.sync, !.uefi = SyncedUefi])

TurnOnWiFi == Here("wifi") /\ Invoke("done", [device EXCEPT !.wifi = TRUE])

Settings ==
    \/ GetLowAccuracyTime \/ SetHighAccuracyTime \/ GetHostname \/ PutHostname
    \/ GetWiFi \/ GetCapabilities \/ PutWiFi \/ TurnOnWiFi

-----------------------------------------------------------------------------
(* deactivate --local; --partial is Activation's. *)

\* In CCM through the driver, without the client.
DeactivateCcm ==
    /\ Running("deactivate") /\ seen = 1
    /\ Query("unprovision", "unprovision")
    /\ UNCHANGED <<device, mishaps>> /\ Same

CheckUnprovision ==
    /\ Answered("unprovision")
    /\ IF res.ok /\ res.value = 0 THEN Succeed ELSE Fail
    /\ UNCHANGED <<device, mishaps>> /\ Same

DeactivateAcm ==
    /\ Running("deactivate") /\ seen # 1
    /\ IF Inactive THEN GiveUp ELSE Invoke("done", [device EXCEPT !.mode = 0])

Deactivate == DeactivateCcm \/ CheckUnprovision \/ DeactivateAcm

ConfigureStep ==
    \/ DispatchConfigure \/ AskPassword \/ MakeClient
    \/ Features \/ GetRealm \/ UpdatePassword \/ SetMebx \/ Proxy \/ Settings \/ Deactivate
=============================================================================
