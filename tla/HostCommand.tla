---------------------------- MODULE HostCommand ----------------------------
(***************************************************************************)
(* One call of rpc, from its entry point to its return, for the commands   *)
(* that read the device through the HECI driver or change one object of it *)
(* over WSMAN: HeciDriver, AmtHost, HostProcess, AmtInfo and               *)
(* ConfigureObjects together.                                              *)
(***************************************************************************)
EXTENDS AmtInfo, ConfigureObjects

CONSTANTS Admin,      \* the password of an activated device
          Machines,   \* the platforms that are looked at
          Settings0   \* what the device may hold when the call begins

ASSUME AdminAssumption == Admin \in Passwords
ASSUME MachinesAssumption ==
    Machines \subseteq [os : {"linux", "windows"}, tls : BOOLEAN, lms : BOOLEAN,
                        ism : BOOLEAN, version : Nat, uefi : BOOLEAN]
ASSUME SettingsAssumption == Settings0 \subseteq Devices

processVars == <<main, attempt, seen, enforced, secret, client, cmd, want, out>>
vars == <<machine, device, mishaps, driverVars, callVars, processVars, infoVars>>

Places ==
    {"start", "access", "parse", "apply", "enforced", "context", "dispatch", "secret", "client",
     "run", "redirection", "system", "version", "sku", "kvm", "listener", "optin", "consent",
     "realm", "match", "time", "settings", "capabilities", "sync", "wifi", "unprovision",
     "infoSecret", "infoClient", "sections", "section", "done"}
Mishaps == {"unseen", "changed"}

TypeOK ==
    /\ machine \in Machines /\ device \in Devices /\ mishaps \subseteq Mishaps
    /\ HostTypeOK
    /\ main \in Places
    /\ attempt \in 1..MaxAttempts /\ seen \in 0..2 /\ enforced \in BOOLEAN
    /\ secret \in Passwords \cup {Blank, Nothing}
    /\ client \in {"none", "tls", "lms", "lme"}
    /\ cmd \in Commands \cup {"none"} /\ want \in Arguments
    /\ out \in {"none", "ok", "error", "panic"}
    /\ sections \in Seq(Sections)
    /\ shown \in [amt : BOOLEAN, mode : 0..NotRead, certs : BOOLEAN]

Init ==
    /\ machine \in Machines /\ device \in Settings0 /\ mishaps = {}
    /\ HostInit
    /\ main = "start"
    /\ attempt = 1 /\ seen = 0 /\ enforced = FALSE
    /\ secret = Nothing /\ client = "none" /\ cmd = "none" /\ want = Defaults /\ out = "none"
    /\ sections = <<>> /\ shown = NothingShown

-----------------------------------------------------------------------------
HostOperation == HostStep /\ UNCHANGED <<machine, processVars, infoVars>>

FrontStep ==
    /\ Start \/ CheckAccess \/ Parse \/ AfterApplyMode \/ AfterApplyTls \/ MakeContext
    /\ UNCHANGED <<machine, infoVars>>

CommandStep ==
    \/ ConfigureStep /\ UNCHANGED <<machine, infoVars>>
    \/ InfoStep /\ UNCHANGED machine

\* Someone else activates or deactivates the device, once.
ModeChanges ==
    /\ main # "done" /\ "changed" \notin mishaps
    /\ \E m \in 0..2 \ {device.mode} : device' = [device EXCEPT !.mode = m]
    /\ mishaps' = mishaps \cup {"changed"}
    /\ UNCHANGED <<machine, driverVars, callVars, processVars, infoVars>>

Terminated == main = "done" /\ UNCHANGED vars

Next == HostOperation \/ FrontStep \/ CommandStep \/ ModeChanges \/ Terminated

(***************************************************************************)
(* The process runs, and the firmware answers what it is asked: neither    *)
(* driver has a timeout for the answer.                                    *)
(***************************************************************************)
Fairness == WF_vars(HostOperation) /\ WF_vars(FrontStep) /\ WF_vars(CommandStep)

Spec == Init /\ [][Next]_vars
FairSpec == Spec /\ Fairness

-----------------------------------------------------------------------------
(* Properties. *)

(* A reply is the answer to the request it is taken for, although it carries *)
(* nothing that is looked at: a read that fails, or a write given up that    *)
(* goes out late, leaves a reply on the handle, which must not be asked      *)
(* anything else.                                                            *)
OwnReply == at = "answered" /\ ask # "initialize" => got.ask = ask /\ got.part = part

\* What a command that reports success has to leave on the device.
InEffect ==
    CASE cmd = "features" ->
            /\ device.ider = want.ider /\ device.sol = want.sol
            /\ IF IsIsm THEN device.listener = AnyRedirection
               ELSE device.kvm = want.kvm /\ device.listener = AnyRedirection
            /\ device.mode = 2 => device.consent = want.consent
      [] cmd = "password" -> device.password = want.password
      [] cmd = "mebx" -> device.mebx = want.password
      [] cmd = "proxyAdd" -> want.proxy \in device.proxies
      [] cmd = "proxyDelete" -> want.proxy[2] # 80 => want.proxy \notin device.proxies
      [] cmd = "clock" -> device.clock
      [] cmd = "hostname" -> device.name
      [] cmd = "wifi" -> device.sync = want.sync /\ device.uefi = SyncedUefi /\ device.wifi
      [] cmd = "deactivate" -> device.mode = 0
      [] OTHER -> TRUE

(* A command reports success only when the device holds what it was asked    *)
(* for, whichever call before it failed, was retried or had its reply lost;  *)
(* except for what rpc does not look at: a ReturnValue, the status of a PTHI *)
(* reply, and a control mode that changes after it was read.                 *)
SuccessMeansSet == out = "ok" /\ mishaps = {} => InEffect

\* What a step writes is what may be written in the device's mode.
WritesInMode ==
    /\ device'.mebx # device.mebx \/ device'.consent # device.consent => device.mode = 2
    /\ device.mode = 0 =>
         \E s \in BOOLEAN, u \in BOOLEAN, w \in BOOLEAN :
            device' = [device EXCEPT !.sync = s, !.uefi = u, !.wifi = w]

(* The MEBx password and the user consent are written in ACM only, and       *)
(* nothing but the Wi-Fi synchronisation is written in pre-provisioning:     *)
(* whatever the driver's errors and statuses make of the mode that was read, *)
(* as long as it does not change under the process.                          *)
OnlyInItsMode == [][ "changed" \notin mishaps' => WritesInMode ]_vars

(* The call returns: retries and attempts are bounded, whatever fails.       *)
Ends == <>(main = "done")
=============================================================================
