----------------------------- MODULE Activation -----------------------------
(***************************************************************************)
(* Local activation and deactivation, internal/commands/activate/local.go  *)
(* and internal/commands/deactivate.go: one rpc process after the other,   *)
(* each a sequence of calls to the device, any of which may fail, do its   *)
(* work and have its reply lost, or be refused with an answer the code     *)
(* takes for success.  A process may be killed between two calls and       *)
(* leaves the device as it is.                                             *)
(*                                                                         *)
(* The device is outside the repository: it is modelled by what the code   *)
(* expects of it.  A platform that enforces TLS on the local ports only    *)
(* talks to TLS clients and activates when the changes are committed.      *)
(***************************************************************************)
EXTENDS Naturals

CONSTANTS Passwords, \* what a password can be
          Chain,     \* certificates in the provisioning chain
          MaxRuns    \* bound: processes

ASSUME ChainAssumption == Chain \in Nat \ {0}
ASSUME MaxRunsAssumption == MaxRuns \in Nat

Unset == "unset"
ASSUME UnsetAssumption == Unset \notin Passwords

VARIABLES
    mode,      \* the device's control mode: 0 none, 1 CCM, 2 ACM
    pw,        \* its admin password
    pending,   \* a setup that waits for CommitChanges: "none", "ccm" or "acm"
    pendingPw, \* the password that setup brings
    chain,     \* certificates injected into it
    enforced   \* TLS is enforced on its local ports

VARIABLES
    runs,      \* processes started
    cmd,       \* the command of the current or the last one
    pc,        \* where it is
    given,     \* ctx.AMTPassword
    seen,      \* AMTBaseCmd.ControlMode
    tls,       \* localTLSEnforced
    next,      \* the certificate injectCertificate sends next
    result,    \* what it reported
    began,     \* the control mode and the pending setup when it began (history)
    mishaps    \* what went wrong unnoticed, or cannot be known or repaired (history)

device == <<mode, pw, pending, pendingPw, chain>>
local == <<given, seen, tls, next>>
vars == <<device, enforced, runs, cmd, pc, local, result, began, mishaps>>

Activations == {"ccm", "acm"}
Commands == Activations \cup {"stop", "deactivate", "partial"}
Mishaps == {"lost", "refused", "misread", "rollback", "unread"}

TypeOK ==
    /\ mode \in 0..2 /\ pw \in Passwords \cup {Unset}
    /\ pending \in Activations \cup {"none"} /\ pendingPw \in Passwords \cup {Unset}
    /\ chain \in 0..Chain /\ enforced \in BOOLEAN
    /\ runs \in 0..MaxRuns /\ cmd \in Commands
    /\ pc \in {"idle", "apply", "password", "validate", "enable", "ccm", "setup", "commit",
               "rollback", "acm", "commitAcm", "legacy", "inject", "admin", "check",
               "stop", "deactivate"}
    /\ given \in Passwords \cup {Unset} /\ seen \in 0..2 /\ tls \in BOOLEAN
    /\ next \in 1..Chain + 1
    /\ result \in {"none", "ok", "error", "killed"}
    /\ began \in [mode : 0..2, pending : Activations \cup {"none"}] /\ mishaps \subseteq Mishaps

\* A device in pre-provisioning may have an admin password from its BIOS menu.
Init ==
    /\ mode \in 0..2 /\ pw \in Passwords \cup {Unset} /\ (mode # 0 => pw # Unset)
    /\ pending = "none" /\ pendingPw = Unset /\ chain = 0 /\ enforced \in BOOLEAN
    /\ runs = 0 /\ cmd = "stop" /\ pc = "idle"
    /\ given = Unset /\ seen = 0 /\ tls = FALSE /\ next = 1
    /\ result = "none" /\ began = [mode |-> mode, pending |-> pending] /\ mishaps = {}

-----------------------------------------------------------------------------
(* The device. *)

(* How a call ends.  "lost" is an error to the caller although the work is   *)
(* done; "refused" is no error although it is not: the caller looks neither  *)
(* at the ReturnValue of a WS-Man response nor at the status of a PTHI one.  *)
Replies == {"ok", "lost", "error", "refused"}
NoError == {"ok", "refused"}

Call(reply, accepted, Work) ==
    \/ reply \in {"ok", "lost"} /\ accepted /\ Work
    \/ reply \in {"error", "refused"} /\ UNCHANGED device

\* A client can talk to the device when it uses TLS as the device wants it.
Reachable == tls = enforced

SetUpCcm ==
    /\ IF enforced THEN pending' = "ccm" /\ pendingPw' = given /\ UNCHANGED <<mode, pw>>
       ELSE mode' = 1 /\ pw' = given /\ UNCHANGED <<pending, pendingPw>>
    /\ UNCHANGED chain

CommitSetup ==
    /\ mode' = IF pending = "ccm" THEN 1 ELSE 2
    /\ pw' = IF pendingPw # Unset THEN pendingPw ELSE pw
    /\ pending' = "none" /\ pendingPw' = Unset
    /\ UNCHANGED chain

StartSecureSetup == pending' = "acm" /\ pendingPw' = Unset /\ UNCHANGED <<mode, pw, chain>>

\* The leaf begins a new chain.
AddCertificate == chain' = next /\ UNCHANGED <<mode, pw, pending, pendingPw>>

Upgrade == seen = 1
SetUpAcm ==
    /\ mode' = 2 /\ pw' = (IF Upgrade THEN pw ELSE given)
    /\ chain' = 0 /\ UNCHANGED <<pending, pendingPw>>

BackToPreProvisioning ==
    mode' = 0 /\ pw' = Unset /\ pending' = "none" /\ pendingPw' = Unset /\ chain' = 0

-----------------------------------------------------------------------------
(* The process. *)

Goto(place) == pc' = place /\ UNCHANGED result
Done(outcome) == pc' = "idle" /\ result' = outcome
Fail == Done("error")

Noted(mishap) == mishaps' = mishaps \cup mishap
Refused(reply) == {reply} \cap {"refused"}
Unknown(reply) == {reply} \cap {"refused", "lost"}

Same == UNCHANGED <<enforced, runs, cmd, local, began>>

Begin ==
    /\ pc = "idle" /\ runs < MaxRuns
    /\ runs' = runs + 1 /\ cmd' \in Commands /\ given' \in Passwords \cup {Unset}
    /\ pc' = "apply" /\ result' = "none" /\ mishaps' = {}
    /\ began' = [mode |-> mode, pending |-> pending]
    /\ seen' = 0 /\ tls' = FALSE /\ next' = 1
    /\ UNCHANGED <<device, enforced>>

(* AMTBaseCmd.AfterApply: the control mode, in one of four attempts, 0 when  *)
(* the answer has a bad status, which is not looked at; whether TLS is       *)
(* enforced, "no" when that cannot be read.                                  *)
AfterApply ==
    /\ pc = "apply"
    /\ \/ /\ seen' \in {mode, 0} /\ Noted(IF seen' # mode THEN {"misread"} ELSE {})
          /\ tls' \in {enforced, FALSE} /\ Goto("password")
       \/ Fail /\ Noted({}) /\ UNCHANGED <<seen, tls>>
    /\ UNCHANGED <<device, enforced, runs, cmd, given, next, began>>

\* EnsureAMTPassword asks for a password that was not given.
EnsureAMTPassword ==
    /\ pc = "password"
    /\ \/ cmd = "stop" /\ Goto("stop") /\ UNCHANGED given
       \/ /\ cmd # "stop"
          /\ given' \in IF given # Unset THEN {given} ELSE Passwords
          /\ Goto(IF cmd \in Activations THEN "validate" ELSE "deactivate")
       \/ cmd # "stop" /\ given = Unset /\ Fail /\ UNCHANGED given
    /\ Noted({}) /\ UNCHANGED <<device, enforced, runs, cmd, seen, tls, next, began>>

\* validateAMTState and validateConfiguration.
Validate ==
    /\ pc = "validate"
    /\ \/ (seen = 0 \/ (cmd = "acm" /\ Upgrade)) /\ Goto("enable")
       \/ ~(seen = 0 \/ (cmd = "acm" /\ Upgrade)) /\ Fail
       \/ cmd = "acm" /\ Fail
    /\ Same /\ Noted({}) /\ UNCHANGED device

EnableAMT ==
    /\ pc = "enable"
    /\ Goto(cmd) \/ Fail
    /\ Same /\ Noted({}) /\ UNCHANGED device

\* activateCCM up to GetGeneralSettings.
PrepareCCM ==
    /\ pc = "ccm"
    /\ (Reachable /\ Goto("setup")) \/ Fail
    /\ Same /\ Noted({}) /\ UNCHANGED device

\* Mutant: the setup is taken for the activation.
HostBasedSetupService_NoCommit ==
    /\ pc = "setup"
    /\ \E reply \in Replies :
        /\ Call(reply, Reachable /\ mode = 0 /\ pending = "none", SetUpCcm)
        /\ Noted(Unknown(reply)) /\ IF reply \in NoError THEN Done("ok") ELSE Fail
    /\ Same

HostBasedSetupService ==
    /\ pc = "setup"
    /\ \E reply \in Replies :
        /\ Call(reply, Reachable /\ mode = 0 /\ pending = "none", SetUpCcm)
        /\ Noted(Unknown(reply))
        /\ \/ reply \in NoError /\ tls /\ Goto("commit")
           \/ reply \in NoError /\ ~tls /\ Done("ok")
           \/ reply \notin NoError /\ Fail
    /\ Same

\* Mutant: a failed commit is not rolled back.
CommitCCMChanges_NoRollback ==
    /\ pc = "commit"
    /\ \E reply \in Replies :
        /\ Call(reply, Reachable /\ pending = "ccm", CommitSetup) /\ Noted(Refused(reply))
        /\ IF reply \in NoError THEN Done("ok") ELSE Fail
    /\ Same

CommitCCMChanges ==
    /\ pc = "commit"
    /\ \E reply \in Replies :
        /\ Call(reply, Reachable /\ pending = "ccm", CommitSetup) /\ Noted(Refused(reply))
        /\ IF reply \in NoError THEN Done("ok") ELSE Goto("rollback")
    /\ Same

\* "Putting the device back to pre-provisioning mode".
RollBack ==
    /\ pc = "rollback"
    /\ \E reply \in Replies :
        /\ Call(reply, Reachable, BackToPreProvisioning)
        /\ Fail /\ Noted(IF reply \in {"error", "refused"} THEN {"rollback"} ELSE {})
    /\ Same

\* The provisioning certificate is announced; only an error is looked at.
StartSecureHostBasedConfiguration ==
    \E reply \in Replies :
        /\ Call(reply, mode # 2, StartSecureSetup) /\ Noted(Refused(reply))
        /\ IF reply \in NoError THEN Goto("commitAcm") ELSE Fail

\* activateACM up to the client.
PrepareACM ==
    /\ pc = "acm"
    /\ \/ tls /\ StartSecureHostBasedConfiguration
       \/ ~tls /\ Goto("legacy") /\ Noted({}) /\ UNCHANGED device
       \/ Fail /\ Noted({}) /\ UNCHANGED device
    /\ Same

\* activateACMWithTLS, as "admin" with the given password.
ActivateACMWithTLS ==
    /\ pc = "commitAcm"
    /\ \E reply \in Replies :
        /\ Call(reply, Reachable /\ pending = "acm" /\ pw = given, CommitSetup)
        /\ Noted(Unknown(reply)) /\ IF reply \in NoError THEN Done("ok") ELSE Fail
    /\ Same

\* activateACMLegacy up to the nonce; for an upgrade as "admin".
LegacyClient == Reachable /\ (Upgrade => pw = given)
ActivateACMLegacy ==
    /\ pc = "legacy"
    /\ (LegacyClient /\ Goto("inject")) \/ Fail
    /\ Same /\ Noted({}) /\ UNCHANGED device

\* Mutant: one certificate too many is sent.
InjectCertificate_PastEnd ==
    /\ pc = "inject"
    /\ \E reply \in Replies :
        /\ Call(reply, LegacyClient /\ (next = 1 \/ chain = next - 1), AddCertificate)
        /\ Noted(Refused(reply))
        /\ \/ reply \notin NoError /\ Fail /\ UNCHANGED next
           \/ reply \in NoError /\ next' = next + 1 /\ Goto(IF next > Chain THEN "admin" ELSE "inject")
    /\ UNCHANGED <<enforced, runs, cmd, given, seen, tls, began>>

InjectCertificate ==
    /\ pc = "inject"
    /\ \E reply \in Replies :
        /\ Call(reply, LegacyClient /\ (next = 1 \/ chain = next - 1), AddCertificate)
        /\ Noted(Refused(reply))
        /\ \/ reply \notin NoError /\ Fail /\ UNCHANGED next
           \/ reply \in NoError /\ next' = next + 1 /\ Goto(IF next = Chain THEN "admin" ELSE "inject")
    /\ UNCHANGED <<enforced, runs, cmd, given, seen, tls, began>>

\* Mutant: an error of the setup is final.
HostBasedSetupServiceAdmin_NoCheck ==
    /\ pc = "admin"
    /\ \E reply \in Replies :
        /\ Call(reply, LegacyClient /\ chain = Chain /\ mode = (IF Upgrade THEN 1 ELSE 0), SetUpAcm)
        /\ Noted(Refused(reply)) /\ IF reply \in NoError THEN Done("ok") ELSE Fail
    /\ Same

\* The signature, and HostBasedSetupServiceAdmin.
HostBasedSetupServiceAdmin ==
    /\ pc = "admin"
    /\ \/ Fail /\ Noted({}) /\ UNCHANGED device
       \/ \E reply \in Replies :
            /\ Call(reply, LegacyClient /\ chain = Chain /\ mode = (IF Upgrade THEN 1 ELSE 0), SetUpAcm)
            /\ Noted(Refused(reply)) /\ IF reply \in NoError THEN Done("ok") ELSE Goto("check")
    /\ Same

(* "Check if activation was successful despite error": in ACM, whoever put   *)
(* the device there.  An answer with a bad status reads as mode 0 and fails  *)
(* the activation like no answer.                                            *)
CheckDespiteError ==
    /\ pc = "check"
    /\ \/ mode = 2 /\ Done("ok") /\ Noted({})
       \/ mode # 2 /\ Fail /\ Noted({})
       \/ Fail /\ Noted({"unread"})
    /\ Same /\ UNCHANGED device

(* AMTCommand.Unprovision and the number it returns, 0 when it did its work, *)
(* and also when the device refuses it by the status of the header.          *)
HostUnprovision(reply, status) ==
    \/ status = 0 /\ Call(reply, mode # 2, BackToPreProvisioning)
    \/ status = 1 /\ reply = "ok" /\ UNCHANGED device

\* handleStopConfiguration prints the number.
StopConfiguration ==
    /\ pc = "stop"
    /\ \E reply \in Replies, status \in {0, 1} :
        /\ HostUnprovision(reply, status)
        /\ Noted(Unknown(reply)) /\ IF reply \in NoError THEN Done("ok") ELSE Fail
    /\ Same

\* Mutant: the number is not looked at.
DeactivateCCM_AnyStatus ==
    /\ pc = "deactivate" /\ seen = 1 /\ cmd # "partial"
    /\ \E reply \in Replies, status \in {0, 1} :
        /\ HostUnprovision(reply, status)
        /\ Noted(Unknown(reply)) /\ IF reply \in NoError THEN Done("ok") ELSE Fail
    /\ Same

DeactivateCCM ==
    /\ pc = "deactivate" /\ seen = 1 /\ cmd # "partial"
    /\ \E reply \in Replies, status \in {0, 1} :
        /\ HostUnprovision(reply, status)
        /\ Noted(Unknown(reply))
        /\ IF reply \in NoError /\ status = 0 THEN Done("ok") ELSE Fail
    /\ Same

\* Unprovision and PartialUnprovision, as "admin" with the given password.
DeactivateACM ==
    /\ pc = "deactivate" /\ seen = 2
    /\ \E reply \in Replies :
        /\ Call(reply, Reachable /\ pw = given, BackToPreProvisioning)
        /\ Noted(Unknown(reply)) /\ IF reply \in NoError THEN Done("ok") ELSE Fail
    /\ Same

\* executeLocalDeactivate in any other mode.
RejectDeactivate ==
    /\ pc = "deactivate" /\ (seen = 0 \/ (seen = 1 /\ cmd = "partial"))
    /\ Fail /\ Same /\ Noted({}) /\ UNCHANGED device

\* The process ends between two calls.
Kill ==
    /\ pc # "idle"
    /\ Done("killed") /\ Noted({})
    /\ Same /\ UNCHANGED device

Finished == pc = "idle" /\ runs = MaxRuns /\ UNCHANGED vars

ActivateCCM == PrepareCCM \/ HostBasedSetupService \/ CommitCCMChanges \/ RollBack
ActivateACM ==
    \/ PrepareACM \/ ActivateACMWithTLS \/ ActivateACMLegacy
    \/ InjectCertificate \/ HostBasedSetupServiceAdmin \/ CheckDespiteError
Deactivate == DeactivateCCM \/ DeactivateACM \/ RejectDeactivate

Next ==
    \/ Begin \/ AfterApply \/ EnsureAMTPassword \/ Validate \/ EnableAMT
    \/ ActivateCCM \/ ActivateACM \/ StopConfiguration \/ Deactivate
    \/ Kill \/ Finished

Spec == Init /\ [][Next]_vars

-----------------------------------------------------------------------------
(* Properties. *)

(* What a command reports as done is done, whatever was lost on the way and  *)
(* whatever earlier processes left behind: the mode is the one asked for,    *)
(* nothing waits for a commit and the password given is the device's.  Two   *)
(* things the code cannot tell are excepted: a request that is refused       *)
(* without an error, and, for the password only, an activated device whose   *)
(* mode was read as 0, which an activation then finds in ACM.                *)
SuccessMeansInMode ==
    (result = "ok" /\ "refused" \notin mishaps) =>
        /\ cmd = "ccm" => mode = 1 /\ pw = given /\ pending = "none"
        /\ cmd = "acm" => mode = 2 /\ (pw = given \/ "misread" \in mishaps)
        /\ cmd \in {"deactivate", "partial"} => mode = 0

(* An activation that reports a failure leaves the device in the control     *)
(* mode it found it in, also when that was read as 0 or the reply to the     *)
(* admin setup was lost, and a CCM activation leaves no setup to commit      *)
(* (commitCCMChanges: "Putting the device back to pre-provisioning mode"),   *)
(* unless a request was refused without an error, another reply was lost,    *)
(* the roll back failed or the mode could not be read after the setup.       *)
FailureLeavesNothing ==
    (result = "error" /\ cmd \in Activations /\ mishaps \subseteq {"misread"}) =>
        /\ mode = began.mode
        /\ cmd = "ccm" => pending = began.pending
=============================================================================
