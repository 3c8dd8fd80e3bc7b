-------------------------- MODULE ActivationProofs --------------------------
(***************************************************************************)
(* What Activation promises, for every set of passwords, every length of   *)
(* the provisioning chain and any number of processes.                     *)
(***************************************************************************)
EXTENDS Activation, TLAPS

CcmPcs == {"ccm", "setup"}
AcmPcs == {"acm", "commitAcm", "legacy", "inject", "admin", "check"}
ActivationPcs == {"validate", "enable"} \cup CcmPcs \cup AcmPcs

(* Which command is where, and that nothing is reported before the end.      *)
PlaceInv ==
    /\ pc # "idle" => result = "none"
    /\ pc \in CcmPcs \cup {"commit", "rollback"} => cmd = "ccm"
    /\ pc \in AcmPcs => cmd = "acm"
    /\ pc \in ActivationPcs \cup {"commit"} => cmd \in Activations /\ given \in Passwords
    /\ pc \notin {"idle", "inject", "admin", "check"} => next = 1
    /\ pc = "inject" => next <= Chain
    /\ pc = "stop" => cmd = "stop"
    /\ pc = "deactivate" => cmd \in {"deactivate", "partial"}

(* Until a setup takes effect the device is in the mode the process found,   *)
(* and the process knows that mode, unless it read it as 0.                  *)
ModeInv ==
    /\ pc # "idle" => mishaps \subseteq {"misread", "refused"}
    /\ pc \notin {"idle", "rollback", "check"} => mode = began.mode
    /\ pc \in (ActivationPcs \cup {"password", "deactivate"}) \ {"check"} =>
        seen = mode \/ (seen = 0 /\ "misread" \in mishaps)
    /\ pc \in ActivationPcs \ {"validate", "check"} => seen = 0 \/ (seen = 1 /\ cmd = "acm")
    /\ pc = "check" =>
        \/ mode = began.mode /\ (mode # 2 \/ "misread" \in mishaps)
        \/ mode = 2 /\ pw = given
    /\ pc \in {"commit", "rollback"} => began.mode = 0 \/ "refused" \in mishaps

(* A setup that waits for its commit is the one found or this process's own. *)
PendingInv ==
    /\ pending # "ccm" => pendingPw = Unset
    /\ cmd = "ccm" /\ pc \notin {"idle", "commit", "rollback"} => pending = began.pending
    /\ pc = "commit" => (pending = "ccm" /\ pendingPw = given) \/ "refused" \in mishaps
    /\ pc \in {"commit", "rollback"} => began.pending = "none" \/ "refused" \in mishaps

\* TypeOK in two halves.
DeviceType ==
    /\ mode \in 0..2 /\ pw \in Passwords \cup {Unset}
    /\ pending \in Activations \cup {"none"} /\ pendingPw \in Passwords \cup {Unset}
    /\ chain \in 0..Chain
Places ==
    {"idle", "apply", "password", "validate", "enable", "ccm", "setup", "commit",
     "rollback", "acm", "commitAcm", "legacy", "inject", "admin", "check",
     "stop", "deactivate"}
ProcessType ==
    pc \in Places /\ result \in {"none", "ok", "error", "killed"} /\ mishaps \subseteq Mishaps

IInv == TypeOK /\ PlaceInv /\ ModeInv /\ PendingInv /\ SuccessMeansInMode /\ FailureLeavesNothing
-----------------------------------------------------------------------------
(* Types. *)

LEMMA SameType == ASSUME TypeOK, UNCHANGED device PROVE DeviceType'
  BY DEF TypeOK, DeviceType, device
LEMMA SetUpCcmType == ASSUME TypeOK, SetUpCcm PROVE DeviceType'
  <1>1. CASE enforced BY <1>1 DEF SetUpCcm, TypeOK, DeviceType, Activations
  <1>2. CASE ~enforced BY <1>2 DEF SetUpCcm, TypeOK, DeviceType
  <1> QED BY <1>1, <1>2
LEMMA CommitSetupType == ASSUME TypeOK, CommitSetup PROVE DeviceType'
  <1>1. mode' \in 0..2 /\ pw' \in Passwords \cup {Unset} BY DEF CommitSetup, TypeOK
  <1> QED BY <1>1 DEF CommitSetup, TypeOK, DeviceType
LEMMA StartSecureSetupType == ASSUME TypeOK, StartSecureSetup PROVE DeviceType'
  BY DEF StartSecureSetup, TypeOK, DeviceType, Activations
LEMMA AddCertificateType == ASSUME TypeOK, AddCertificate, next <= Chain PROVE DeviceType'
  BY ChainAssumption DEF AddCertificate, TypeOK, DeviceType
LEMMA SetUpAcmType == ASSUME TypeOK, SetUpAcm PROVE DeviceType'
  <1>1. pw' \in Passwords \cup {Unset} BY DEF SetUpAcm, TypeOK
  <1> QED BY <1>1, ChainAssumption DEF SetUpAcm, TypeOK, DeviceType
LEMMA BackToPreProvisioningType == ASSUME TypeOK, BackToPreProvisioning PROVE DeviceType'
  BY ChainAssumption DEF BackToPreProvisioning, TypeOK, DeviceType

LEMMA GotoType ==
    ASSUME TypeOK, NEW place \in Places, Goto(place), NEW mishap \in SUBSET Mishaps, Noted(mishap)
    PROVE  ProcessType'
  BY DEF TypeOK, ProcessType, Goto, Noted
LEMMA DoneType ==
    ASSUME TypeOK, NEW outcome \in {"ok", "error", "killed"}, Done(outcome),
           NEW mishap \in SUBSET Mishaps, Noted(mishap)
    PROVE  ProcessType'
  BY DEF TypeOK, ProcessType, Done, Places, Noted
LEMMA FailType ==
    ASSUME TypeOK, Fail, NEW mishap \in SUBSET Mishaps, Noted(mishap) PROVE ProcessType'
  BY DoneType DEF Fail
LEMMA NotedType ==
    /\ {} \in SUBSET Mishaps
    /\ \A reply : Refused(reply) \in SUBSET Mishaps /\ Unknown(reply) \in SUBSET Mishaps
    /\ \A mishap \in Mishaps : {mishap} \in SUBSET Mishaps
  BY DEF Refused, Unknown, Mishaps

LEMMA TypeStep == IInv /\ [Next]_vars => TypeOK'
  <1> SUFFICES ASSUME TypeOK, PlaceInv, [Next]_vars PROVE TypeOK' BY DEF IInv
  <1>1. CASE Begin
    <2>1. DeviceType' BY <1>1, SameType DEF Begin
    <2>2. ProcessType' BY <1>1 DEF Begin, ProcessType, Places
    <2>3. runs' \in 0..MaxRuns /\ next' \in 1..Chain + 1
      BY <1>1, MaxRunsAssumption, ChainAssumption DEF Begin, TypeOK
    <2>4. began' \in [mode : 0..2, pending : Activations \cup {"none"}]
      BY <1>1 DEF Begin, TypeOK
    <2>5. cmd' \in Commands /\ given' \in Passwords \cup {Unset}
      BY <1>1 DEF Begin
    <2>6. seen' \in 0..2 BY <1>1 DEF Begin
    <2>7. tls' \in BOOLEAN BY <1>1 DEF Begin
    <2>8. enforced' \in BOOLEAN BY <1>1 DEF Begin, TypeOK
    <2> QED BY <2>1, <2>2, <2>3, <2>4, <2>5, <2>6, <2>7, <2>8
             DEF TypeOK, DeviceType, ProcessType, Places
  <1>2. CASE AfterApply
    <2>1. DeviceType' BY <1>2, SameType DEF AfterApply
    <2>2. ProcessType'
      <3>1. CASE Fail /\ Noted({}) BY <3>1, FailType, NotedType
      <3>2. CASE Noted(IF seen' # mode THEN {"misread"} ELSE {}) /\ Goto("password")
        <4>1. (IF seen' # mode THEN {"misread"} ELSE {}) \in SUBSET Mishaps
          BY DEF Mishaps
        <4> QED BY <3>2, <4>1, GotoType DEF Places
      <3> QED BY <1>2, <3>1, <3>2 DEF AfterApply
    <2>3. seen' \in 0..2
      <3>1. seen' \in {mode, 0} \/ seen' = seen BY <1>2, Zenon DEF AfterApply
      <3> QED BY <3>1 DEF TypeOK
    <2>4. tls' \in BOOLEAN BY <1>2 DEF AfterApply, TypeOK
    <2> QED BY <1>2, <2>1, <2>2, <2>3, <2>4
             DEF AfterApply, TypeOK, DeviceType, ProcessType, Places
  <1>3. CASE EnsureAMTPassword
    <2>1. DeviceType' BY <1>3, SameType DEF EnsureAMTPassword
    <2>2. ProcessType' BY <1>3, GotoType, FailType, NotedType DEF EnsureAMTPassword, Places
    <2> QED BY <1>3, <2>1, <2>2
             DEF EnsureAMTPassword, TypeOK, DeviceType, ProcessType, Places
  <1>4. CASE Validate
    <2>1. DeviceType' BY <1>4, SameType DEF Validate
    <2>2. ProcessType' BY <1>4, GotoType, FailType, NotedType DEF Validate, Places
    <2> QED BY <1>4, <2>1, <2>2
             DEF Validate, Same, local, TypeOK, DeviceType, ProcessType, Places
  <1>5. CASE EnableAMT
    <2>1. DeviceType' BY <1>5, SameType DEF EnableAMT
    <2>2. ProcessType'
      BY <1>5, GotoType, FailType, NotedType
          DEF EnableAMT, Places, PlaceInv, Activations, ActivationPcs
    <2> QED BY <1>5, <2>1, <2>2
             DEF EnableAMT, Same, local, TypeOK, DeviceType, ProcessType, Places
  <1>6. CASE PrepareCCM
    <2>1. DeviceType' BY <1>6, SameType DEF PrepareCCM
    <2>2. ProcessType' BY <1>6, GotoType, FailType, NotedType DEF PrepareCCM, Places
    <2> QED BY <1>6, <2>1, <2>2
             DEF PrepareCCM, Same, local, TypeOK, DeviceType, ProcessType, Places
  <1>7. CASE HostBasedSetupService
    <2>1. DeviceType'
      <3>1. SetUpCcm \/ UNCHANGED device BY <1>7 DEF HostBasedSetupService, Call
      <3> QED BY <3>1, SetUpCcmType, SameType
    <2>2. ProcessType'
      BY <1>7, GotoType, DoneType, FailType, NotedType
          DEF HostBasedSetupService, Places
    <2> QED BY <1>7, <2>1, <2>2
             DEF HostBasedSetupService, Same, local, TypeOK, DeviceType,
             ProcessType, Places
  <1>8. CASE CommitCCMChanges
    <2>1. DeviceType'
      <3>1. CommitSetup \/ UNCHANGED device BY <1>8 DEF CommitCCMChanges, Call
      <3> QED BY <3>1, CommitSetupType, SameType
    <2>2. ProcessType' BY <1>8, GotoType, DoneType, NotedType DEF CommitCCMChanges, Places
    <2> QED BY <1>8, <2>1, <2>2
             DEF CommitCCMChanges, Same, local, TypeOK, DeviceType, ProcessType,
             Places
  <1>9. CASE RollBack
    <2>1. DeviceType'
      <3>1. BackToPreProvisioning \/ UNCHANGED device BY <1>9 DEF RollBack, Call
      <3> QED BY <3>1, BackToPreProvisioningType, SameType
    <2>2. ProcessType' BY <1>9, FailType, NotedType DEF RollBack, Mishaps
    <2> QED BY <1>9, <2>1, <2>2
             DEF RollBack, Same, local, TypeOK, DeviceType, ProcessType, Places
  <1>10. CASE PrepareACM
    <2>1. DeviceType'
      <3>1. StartSecureSetup \/ UNCHANGED device
        BY <1>10 DEF PrepareACM, StartSecureHostBasedConfiguration, Call
      <3> QED BY <3>1, StartSecureSetupType, SameType
    <2>2. ProcessType'
      BY <1>10, GotoType, FailType, NotedType
          DEF PrepareACM, Places, StartSecureHostBasedConfiguration
    <2> QED BY <1>10, <2>1, <2>2
             DEF PrepareACM, Same, local, TypeOK, DeviceType, ProcessType, Places
  <1>11. CASE ActivateACMWithTLS
    <2>1. DeviceType'
      <3>1. CommitSetup \/ UNCHANGED device BY <1>11 DEF ActivateACMWithTLS, Call
      <3> QED BY <3>1, CommitSetupType, SameType
    <2>2. ProcessType'
      BY <1>11, DoneType, FailType, NotedType DEF ActivateACMWithTLS
    <2> QED BY <1>11, <2>1, <2>2
             DEF ActivateACMWithTLS, Same, local, TypeOK, DeviceType, ProcessType,
             Places
  <1>12. CASE ActivateACMLegacy
    <2>1. DeviceType' BY <1>12, SameType DEF ActivateACMLegacy
    <2>2. ProcessType' BY <1>12, GotoType, FailType, NotedType DEF ActivateACMLegacy, Places
    <2> QED BY <1>12, <2>1, <2>2
             DEF ActivateACMLegacy, Same, local, TypeOK, DeviceType, ProcessType,
             Places
  <1>13. CASE InjectCertificate
    <2>1. DeviceType'
      <3>1. AddCertificate \/ UNCHANGED device BY <1>13 DEF InjectCertificate, Call
      <3>2. next <= Chain BY <1>13 DEF InjectCertificate, PlaceInv
      <3> QED BY <3>1, <3>2, AddCertificateType, SameType
    <2>2. ProcessType' BY <1>13, GotoType, FailType, NotedType DEF InjectCertificate, Places
    <2>3. next' \in 1..Chain + 1
      BY <1>13, ChainAssumption DEF InjectCertificate, PlaceInv, TypeOK
    <2> QED BY <1>13, <2>1, <2>2, <2>3
             DEF InjectCertificate, TypeOK, DeviceType, ProcessType, Places
  <1>14. CASE HostBasedSetupServiceAdmin
    <2>1. DeviceType'
      <3>1. SetUpAcm \/ UNCHANGED device
        BY <1>14 DEF HostBasedSetupServiceAdmin, Call
      <3> QED BY <3>1, SetUpAcmType, SameType
    <2>2. ProcessType'
      BY <1>14, GotoType, FailType, NotedType, DoneType DEF HostBasedSetupServiceAdmin, Places
    <2> QED BY <1>14, <2>1, <2>2
             DEF HostBasedSetupServiceAdmin, Same, local, TypeOK, DeviceType,
             ProcessType, Places
  <1>15. CASE CheckDespiteError
    <2>1. DeviceType' BY <1>15, SameType DEF CheckDespiteError
    <2>2. ProcessType'
      BY <1>15, FailType, DoneType DEF CheckDespiteError, Mishaps
    <2> QED BY <1>15, <2>1, <2>2
             DEF CheckDespiteError, Same, local, TypeOK, DeviceType, ProcessType,
             Places
  <1>16. CASE StopConfiguration
    <2>1. DeviceType'
      <3>1. BackToPreProvisioning \/ UNCHANGED device
        BY <1>16 DEF StopConfiguration, HostUnprovision, Call
      <3> QED BY <3>1, BackToPreProvisioningType, SameType
    <2>2. ProcessType'
      BY <1>16, DoneType, FailType, NotedType DEF StopConfiguration
    <2> QED BY <1>16, <2>1, <2>2
             DEF StopConfiguration, Same, local, TypeOK, DeviceType, ProcessType,
             Places
  <1>17. CASE DeactivateCCM
    <2>1. DeviceType'
      <3>1. BackToPreProvisioning \/ UNCHANGED device
        BY <1>17 DEF DeactivateCCM, HostUnprovision, Call
      <3> QED BY <3>1, BackToPreProvisioningType, SameType
    <2>2. ProcessType' BY <1>17, DoneType, FailType, NotedType DEF DeactivateCCM
    <2> QED BY <1>17, <2>1, <2>2
             DEF DeactivateCCM, Same, local, TypeOK, DeviceType, ProcessType, Places
  <1>18. CASE DeactivateACM
    <2>1. DeviceType'
      <3>1. BackToPreProvisioning \/ UNCHANGED device
        BY <1>18 DEF DeactivateACM, Call
      <3> QED BY <3>1, BackToPreProvisioningType, SameType
    <2>2. ProcessType' BY <1>18, DoneType, FailType, NotedType DEF DeactivateACM
    <2> QED BY <1>18, <2>1, <2>2
             DEF DeactivateACM, Same, local, TypeOK, DeviceType, ProcessType, Places
  <1>19. CASE RejectDeactivate
    <2>1. DeviceType' BY <1>19, SameType DEF RejectDeactivate
    <2>2. ProcessType' BY <1>19, FailType, NotedType DEF RejectDeactivate
    <2> QED BY <1>19, <2>1, <2>2
             DEF RejectDeactivate, Same, local, TypeOK, DeviceType, ProcessType,
             Places
  <1>20. CASE Kill
    <2>1. DeviceType' BY <1>20, SameType DEF Kill
    <2>2. ProcessType' BY <1>20, DoneType, NotedType DEF Kill
    <2> QED BY <1>20, <2>1, <2>2
             DEF Kill, Same, local, TypeOK, DeviceType, ProcessType, Places
  <1>21. CASE UNCHANGED vars BY <1>21 DEF vars, device, local, TypeOK
  <1> QED BY <1>1, <1>2, <1>3, <1>4, <1>5, <1>6, <1>7, <1>8, <1>9, <1>10, <1>11,
           <1>12, <1>13, <1>14, <1>15, <1>16, <1>17, <1>18, <1>19, <1>20, <1>21
           DEF Next, ActivateCCM, ActivateACM, Deactivate, Finished

-----------------------------------------------------------------------------
(* The parts of the invariant. *)

LEMMA PlaceInvStep == IInv /\ [Next]_vars => PlaceInv'
  <1> SUFFICES ASSUME IInv, [Next]_vars PROVE PlaceInv' OBVIOUS
  <1> USE ChainAssumption DEF IInv, Same, Goto, Done, Fail, NoError, Noted,
          local, Activations, ActivationPcs, CcmPcs, AcmPcs
  <1>1. CASE Begin BY <1>1 DEF Begin, PlaceInv
  <1>2. CASE AfterApply BY <1>2 DEF AfterApply, PlaceInv
  <1>3. CASE EnsureAMTPassword
    <2>1. UNCHANGED <<cmd, next>> /\ pc = "password" BY <1>3 DEF EnsureAMTPassword
    <2>2. cmd # "stop" /\ pc' # "idle" => given' \in Passwords
      BY <1>3 DEF EnsureAMTPassword, TypeOK
    <2>3. \/ pc' = "idle"
          \/ pc' = "stop" /\ cmd = "stop" /\ result' = result
          \/ pc' = "validate" /\ cmd \in Activations /\ result' = result
          \/ pc' = "deactivate" /\ cmd \in {"deactivate", "partial"} /\ result' = result
      BY <1>3 DEF EnsureAMTPassword, TypeOK, Commands
    <2> QED BY <2>1, <2>2, <2>3 DEF PlaceInv
  <1>4. CASE Validate BY <1>4 DEF Validate, PlaceInv
  <1>5. CASE EnableAMT BY <1>5 DEF EnableAMT, PlaceInv
  <1>6. CASE PrepareCCM BY <1>6 DEF PrepareCCM, PlaceInv
  <1>7. CASE HostBasedSetupService
    BY <1>7 DEF HostBasedSetupService, PlaceInv
  <1>8. CASE CommitCCMChanges
    BY <1>8 DEF CommitCCMChanges, PlaceInv
  <1>9. CASE RollBack BY <1>9 DEF RollBack, PlaceInv
  <1>10. CASE PrepareACM
    BY <1>10 DEF PrepareACM, StartSecureHostBasedConfiguration, PlaceInv
  <1>11. CASE ActivateACMWithTLS
    BY <1>11 DEF ActivateACMWithTLS, PlaceInv
  <1>12. CASE ActivateACMLegacy BY <1>12 DEF ActivateACMLegacy, PlaceInv
  <1>13. CASE InjectCertificate
    BY <1>13 DEF InjectCertificate, TypeOK, PlaceInv
  <1>14. CASE HostBasedSetupServiceAdmin
    BY <1>14 DEF HostBasedSetupServiceAdmin, PlaceInv
  <1>15. CASE CheckDespiteError BY <1>15 DEF CheckDespiteError, PlaceInv
  <1>16. CASE StopConfiguration
    BY <1>16 DEF StopConfiguration, PlaceInv
  <1>17. CASE DeactivateCCM
    BY <1>17 DEF DeactivateCCM, PlaceInv
  <1>18. CASE DeactivateACM
    BY <1>18 DEF DeactivateACM, PlaceInv
  <1>19. CASE RejectDeactivate BY <1>19 DEF RejectDeactivate, PlaceInv
  <1>20. CASE Kill BY <1>20 DEF Kill, PlaceInv
  <1>21. CASE UNCHANGED vars BY <1>21 DEF vars, PlaceInv
  <1> QED BY <1>1, <1>2, <1>3, <1>4, <1>5, <1>6, <1>7, <1>8, <1>9, <1>10, <1>11,
           <1>12, <1>13, <1>14, <1>15, <1>16, <1>17, <1>18, <1>19, <1>20, <1>21
          DEF Next, ActivateCCM, ActivateACM, Deactivate, Finished

LEMMA ModeInvStep == IInv /\ [Next]_vars => ModeInv'
  <1> SUFFICES ASSUME IInv, [Next]_vars PROVE ModeInv' OBVIOUS
  <1> USE DEF IInv, Same, Goto, Done, Fail, NoError, Noted,
          Refused, Unknown, local, device, ActivationPcs, CcmPcs, AcmPcs
  <1>1. CASE Begin BY <1>1 DEF Begin, ModeInv
  <1>2. CASE AfterApply BY <1>2 DEF AfterApply, ModeInv
  <1>3. CASE EnsureAMTPassword BY <1>3 DEF EnsureAMTPassword, ModeInv
  <1>4. CASE Validate BY <1>4 DEF Validate, Upgrade, ModeInv
  <1>5. CASE EnableAMT
    <2>1. pc' \in {"idle", "ccm", "acm"} BY <1>5 DEF EnableAMT, PlaceInv, Activations
    <2> QED BY <1>5, <2>1 DEF EnableAMT, ModeInv
  <1>6. CASE PrepareCCM BY <1>6 DEF PrepareCCM, ModeInv
  <1>7. CASE HostBasedSetupService
    <2>1. PICK reply \in Replies :
            /\ Call(reply, Reachable /\ mode = 0 /\ pending = "none", SetUpCcm)
            /\ Noted(Unknown(reply))
            /\ \/ reply \in NoError /\ tls /\ Goto("commit")
               \/ reply \in NoError /\ ~tls /\ Done("ok")
               \/ reply \notin NoError /\ Fail
      BY <1>7 DEF HostBasedSetupService
    <2>2. pc = "setup" /\ UNCHANGED <<enforced, tls, began, cmd, seen, given>>
      BY <1>7 DEF HostBasedSetupService
    <2>3. CASE pc' = "commit"
      <3>1. reply \in {"ok", "refused"} /\ tls BY <2>1, <2>3
      <3>2. mishaps' = mishaps \cup ({reply} \cap {"refused"})
        BY <2>1, <3>1 DEF Unknown
      <3>3. mode = began.mode /\ mishaps \subseteq {"misread", "refused"}
        BY <2>2 DEF ModeInv
      <3>4. CASE reply = "ok"
        <4>1. mode = 0 /\ mode' = 0 BY <2>1, <3>1, <3>4 DEF Call, Reachable, SetUpCcm
        <4> QED BY <2>2, <2>3, <3>2, <3>3, <4>1 DEF ModeInv
      <3>5. CASE reply = "refused"
        <4>1. mode' = mode BY <2>1, <3>5 DEF Call
        <4>2. "refused" \in mishaps' BY <3>2, <3>5
        <4> QED BY <2>2, <2>3, <3>2, <3>3, <4>1, <4>2 DEF ModeInv
      <3> QED BY <3>1, <3>4, <3>5
    <2>4. CASE pc' = "idle" BY <2>4 DEF ModeInv
    <2> QED BY <2>1, <2>3, <2>4
  <1>8. CASE CommitCCMChanges
    BY <1>8 DEF CommitCCMChanges, ModeInv
  <1>9. CASE RollBack
    BY <1>9 DEF RollBack, ModeInv
  <1>10. CASE PrepareACM
    BY <1>10
        DEF PrepareACM, StartSecureHostBasedConfiguration, Call, StartSecureSetup,
        ModeInv
  <1>11. CASE ActivateACMWithTLS
    BY <1>11 DEF ActivateACMWithTLS, ModeInv
  <1>12. CASE ActivateACMLegacy BY <1>12 DEF ActivateACMLegacy, ModeInv
  <1>13. CASE InjectCertificate
    BY <1>13 DEF InjectCertificate, Call, AddCertificate, ModeInv
  <1>14. CASE HostBasedSetupServiceAdmin
    <2>1. CASE Fail /\ UNCHANGED device BY <2>1 DEF ModeInv
    <2>2. ASSUME NEW reply \in Replies,
                 Call(reply, LegacyClient /\ chain = Chain /\ mode = (IF Upgrade THEN 1 ELSE 0), SetUpAcm),
                 Noted(Refused(reply)),
                 IF reply \in NoError THEN Done("ok") ELSE Goto("check")
          PROVE  ModeInv'
      <3>1. pc = "admin" /\ UNCHANGED <<given, began>>
        BY <1>14 DEF HostBasedSetupServiceAdmin
      <3>2. mode = began.mode /\ (mode # 2 \/ "misread" \in mishaps)
            /\ mishaps \subseteq {"misread", "refused"}
        BY <3>1 DEF ModeInv, PlaceInv, TypeOK
      <3>3. (mode' = mode) \/ (mode' = 2 /\ pw' = given)
        BY <2>2 DEF Call, SetUpAcm, LegacyClient
      <3>4. (pc' = "idle") \/ (pc' = "check" /\ mishaps' = mishaps)
        BY <2>2 DEF Refused
      <3> QED BY <3>1, <3>2, <3>3, <3>4 DEF ModeInv
    <2> QED BY <1>14, <2>1, <2>2 DEF HostBasedSetupServiceAdmin
  <1>15. CASE CheckDespiteError BY <1>15 DEF CheckDespiteError, ModeInv
  <1>16. CASE StopConfiguration
    BY <1>16 DEF StopConfiguration, ModeInv
  <1>17. CASE DeactivateCCM
    BY <1>17 DEF DeactivateCCM, ModeInv
  <1>18. CASE DeactivateACM
    BY <1>18 DEF DeactivateACM, ModeInv
  <1>19. CASE RejectDeactivate BY <1>19 DEF RejectDeactivate, ModeInv
  <1>20. CASE Kill BY <1>20 DEF Kill, ModeInv
  <1>21. CASE UNCHANGED vars BY <1>21 DEF vars, ModeInv
  <1> QED BY <1>1, <1>2, <1>3, <1>4, <1>5, <1>6, <1>7, <1>8, <1>9, <1>10, <1>11,
           <1>12, <1>13, <1>14, <1>15, <1>16, <1>17, <1>18, <1>19, <1>20, <1>21
          DEF Next, ActivateCCM, ActivateACM, Deactivate, Finished

LEMMA PendingInvStep == IInv /\ [Next]_vars => PendingInv'
  <1> SUFFICES ASSUME IInv, [Next]_vars PROVE PendingInv' OBVIOUS
  <1> USE DEF IInv, Same, Goto, Done, Fail, NoError, Noted,
          Refused, Unknown, local, device, Activations, ActivationPcs, CcmPcs, AcmPcs
  <1>1. CASE Begin BY <1>1 DEF Begin, PendingInv
  <1>2. CASE AfterApply BY <1>2 DEF AfterApply, PendingInv
  <1>3. CASE EnsureAMTPassword BY <1>3 DEF EnsureAMTPassword, PendingInv
  <1>4. CASE Validate BY <1>4 DEF Validate, PendingInv
  <1>5. CASE EnableAMT BY <1>5 DEF EnableAMT, PlaceInv, PendingInv
  <1>6. CASE PrepareCCM BY <1>6 DEF PrepareCCM, PendingInv
  <1>7. CASE HostBasedSetupService
    <2>1. PICK reply \in Replies :
            /\ Call(reply, Reachable /\ mode = 0 /\ pending = "none", SetUpCcm)
            /\ Noted(Unknown(reply))
            /\ \/ reply \in NoError /\ tls /\ Goto("commit")
               \/ reply \in NoError /\ ~tls /\ Done("ok")
               \/ reply \notin NoError /\ Fail
      BY <1>7 DEF HostBasedSetupService
    <2>2. pc = "setup" /\ cmd = "ccm" /\ UNCHANGED <<enforced, tls, began, cmd, given>>
      BY <1>7 DEF HostBasedSetupService, PlaceInv
    <2>3. pending # "ccm" => pendingPw = Unset BY DEF PendingInv
    <2>4. pending = began.pending BY <2>2 DEF PendingInv
    <2>5. CASE reply \in {"ok", "lost"}
      <3>1. tls = enforced /\ pending = "none" /\ SetUpCcm
        BY <2>1, <2>5 DEF Call, Reachable
      <3>2. CASE tls
        <4>1. pending' = "ccm" /\ pendingPw' = given BY <3>1, <3>2 DEF SetUpCcm
        <4>2. pc' \in {"commit", "idle"} BY <2>1
        <4> QED BY <2>2, <2>4, <3>1, <4>1, <4>2 DEF PendingInv
      <3>3. CASE ~tls
        <4>1. UNCHANGED <<pending, pendingPw>> BY <3>1, <3>3 DEF SetUpCcm
        <4>2. pc' = "idle" BY <2>1, <3>3
        <4> QED BY <2>2, <2>3, <4>1, <4>2 DEF PendingInv
      <3> QED BY <3>2, <3>3
    <2>6. CASE reply = "refused"
      <3>1. UNCHANGED <<pending, pendingPw>> /\ "refused" \in mishaps' BY <2>1, <2>6 DEF Call
      <3>2. pc' \in {"commit", "idle"} BY <2>1
      <3> QED BY <2>2, <2>3, <3>1, <3>2 DEF PendingInv
    <2>7. CASE reply = "error"
      <3>1. UNCHANGED <<pending, pendingPw>> /\ pc' = "idle" BY <2>1, <2>7 DEF Call
      <3> QED BY <2>2, <2>3, <3>1 DEF PendingInv
    <2> QED BY <2>1, <2>5, <2>6, <2>7 DEF Replies
  <1>8. CASE CommitCCMChanges
    BY <1>8 DEF CommitCCMChanges, Call, CommitSetup, PendingInv
  <1>9. CASE RollBack
    BY <1>9 DEF RollBack, Call, BackToPreProvisioning, PendingInv
  <1>10. CASE PrepareACM
    BY <1>10
        DEF PrepareACM, StartSecureHostBasedConfiguration, Call, StartSecureSetup,
        PlaceInv, PendingInv
  <1>11. CASE ActivateACMWithTLS
    BY <1>11 DEF ActivateACMWithTLS, Call, CommitSetup, PendingInv
  <1>12. CASE ActivateACMLegacy
    BY <1>12 DEF ActivateACMLegacy, PendingInv
  <1>13. CASE InjectCertificate
    BY <1>13 DEF InjectCertificate, Call, AddCertificate, PendingInv
  <1>14. CASE HostBasedSetupServiceAdmin
    BY <1>14 DEF HostBasedSetupServiceAdmin, Call, SetUpAcm, PendingInv
  <1>15. CASE CheckDespiteError
    BY <1>15 DEF CheckDespiteError, PendingInv
  <1>16. CASE StopConfiguration
    BY <1>16
        DEF StopConfiguration, HostUnprovision, Call, BackToPreProvisioning,
        PendingInv
  <1>17. CASE DeactivateCCM
    BY <1>17
        DEF DeactivateCCM, HostUnprovision, Call, BackToPreProvisioning, PendingInv
  <1>18. CASE DeactivateACM
    BY <1>18 DEF DeactivateACM, Call, BackToPreProvisioning, PendingInv
  <1>19. CASE RejectDeactivate BY <1>19 DEF RejectDeactivate, PendingInv
  <1>20. CASE Kill BY <1>20 DEF Kill, PendingInv
  <1>21. CASE UNCHANGED vars BY <1>21 DEF vars, PendingInv
  <1> QED BY <1>1, <1>2, <1>3, <1>4, <1>5, <1>6, <1>7, <1>8, <1>9, <1>10, <1>11,
           <1>12, <1>13, <1>14, <1>15, <1>16, <1>17, <1>18, <1>19, <1>20, <1>21
          DEF Next, ActivateCCM, ActivateACM, Deactivate, Finished

-----------------------------------------------------------------------------
(* The properties. *)

LEMMA SuccessMeansInModeStep == IInv /\ [Next]_vars => SuccessMeansInMode'
  <1> SUFFICES ASSUME IInv, [Next]_vars PROVE SuccessMeansInMode' OBVIOUS
  <1> USE UnsetAssumption DEF IInv, Same, Goto, Done, Fail, NoError, Noted,
          Refused, Unknown, local, device, CcmPcs, AcmPcs
  <1>1. CASE Begin BY <1>1 DEF Begin, SuccessMeansInMode
  <1>2. CASE AfterApply
    BY <1>2 DEF AfterApply, SuccessMeansInMode
  <1>3. CASE EnsureAMTPassword
    BY <1>3 DEF EnsureAMTPassword, PlaceInv, SuccessMeansInMode
  <1>4. CASE Validate
    BY <1>4 DEF Validate, SuccessMeansInMode
  <1>5. CASE EnableAMT
    BY <1>5 DEF EnableAMT, SuccessMeansInMode
  <1>6. CASE PrepareCCM
    BY <1>6 DEF PrepareCCM, SuccessMeansInMode
  <1>7. CASE HostBasedSetupService
    <2>1. PICK reply \in Replies :
            /\ Call(reply, Reachable /\ mode = 0 /\ pending = "none", SetUpCcm)
            /\ Noted(Unknown(reply))
            /\ \/ reply \in NoError /\ tls /\ Goto("commit")
               \/ reply \in NoError /\ ~tls /\ Done("ok")
               \/ reply \notin NoError /\ Fail
      BY <1>7 DEF HostBasedSetupService
    <2>2. result = "none" /\ cmd = "ccm" /\ UNCHANGED <<tls, cmd, given>>
      BY <1>7 DEF HostBasedSetupService, PlaceInv
    <2>3. CASE reply = "ok" /\ ~tls
      <3>1. pending = "none" /\ ~enforced /\ SetUpCcm BY <2>1, <2>3 DEF Call, Reachable
      <3>2. mode' = 1 /\ pw' = given /\ pending' = "none" BY <3>1 DEF SetUpCcm
      <3> QED BY <2>2, <3>2 DEF SuccessMeansInMode
    <2>4. CASE reply = "refused" /\ ~tls
      <3>1. "refused" \in mishaps' BY <2>1, <2>4
      <3> QED BY <3>1 DEF SuccessMeansInMode
    <2>5. CASE result' # "ok" BY <2>5 DEF SuccessMeansInMode
    <2> QED BY <2>1, <2>2, <2>3, <2>4, <2>5
  <1>8. CASE CommitCCMChanges
    BY <1>8
        DEF CommitCCMChanges, Call, CommitSetup, PlaceInv, PendingInv,
        SuccessMeansInMode
  <1>9. CASE RollBack
    BY <1>9 DEF RollBack, SuccessMeansInMode
  <1>10. CASE PrepareACM
    BY <1>10
        DEF PrepareACM, StartSecureHostBasedConfiguration, PlaceInv,
        SuccessMeansInMode
  <1>11. CASE ActivateACMWithTLS
    BY <1>11
        DEF ActivateACMWithTLS, Call, CommitSetup, PlaceInv, PendingInv,
        SuccessMeansInMode
  <1>12. CASE ActivateACMLegacy
    BY <1>12 DEF ActivateACMLegacy, SuccessMeansInMode
  <1>13. CASE InjectCertificate
    BY <1>13 DEF InjectCertificate, PlaceInv, SuccessMeansInMode
  <1>14. CASE HostBasedSetupServiceAdmin
    BY <1>14
        DEF HostBasedSetupServiceAdmin, Call, SetUpAcm, LegacyClient, PlaceInv,
        SuccessMeansInMode
  <1>15. CASE CheckDespiteError
    BY <1>15 DEF CheckDespiteError, PlaceInv, ModeInv, SuccessMeansInMode
  <1>16. CASE StopConfiguration
    BY <1>16 DEF StopConfiguration, PlaceInv, SuccessMeansInMode
  <1>17. CASE DeactivateCCM
    <2>1. PICK reply \in Replies, status \in {0, 1} :
            /\ HostUnprovision(reply, status)
            /\ Noted(Unknown(reply))
            /\ IF reply \in NoError /\ status = 0 THEN Done("ok") ELSE Fail
      BY <1>17 DEF DeactivateCCM
    <2>2. CASE result' = "ok" /\ reply = "ok" /\ status = 0
      <3>1. mode' = 0 BY <2>1, <2>2 DEF HostUnprovision, Call, BackToPreProvisioning
      <3>2. cmd' \in {"deactivate", "partial"} BY <1>17 DEF DeactivateCCM, PlaceInv
      <3> QED BY <3>1, <3>2 DEF SuccessMeansInMode
    <2>3. CASE reply = "refused"
      <3>1. "refused" \in mishaps' BY <2>1, <2>3
      <3> QED BY <3>1 DEF SuccessMeansInMode
    <2>4. CASE result' # "ok" BY <2>4 DEF SuccessMeansInMode
    <2> QED BY <2>1, <2>2, <2>3, <2>4
  <1>18. CASE DeactivateACM
    BY <1>18
        DEF DeactivateACM, Call, BackToPreProvisioning, PlaceInv, SuccessMeansInMode
  <1>19. CASE RejectDeactivate
    BY <1>19 DEF RejectDeactivate, SuccessMeansInMode
  <1>20. CASE Kill BY <1>20 DEF Kill, SuccessMeansInMode
  <1>21. CASE UNCHANGED vars BY <1>21 DEF vars, SuccessMeansInMode
  <1> QED BY <1>1, <1>2, <1>3, <1>4, <1>5, <1>6, <1>7, <1>8, <1>9, <1>10, <1>11,
           <1>12, <1>13, <1>14, <1>15, <1>16, <1>17, <1>18, <1>19, <1>20, <1>21
          DEF Next, ActivateCCM, ActivateACM, Deactivate, Finished

LEMMA FailureLeavesNothingStep == IInv /\ [Next]_vars => FailureLeavesNothing'
  <1> SUFFICES ASSUME IInv, [Next]_vars PROVE FailureLeavesNothing' OBVIOUS
  <1> USE DEF IInv, Same, Goto, Done, Fail, NoError, Noted, Refused, Unknown,
          device, Activations, AcmPcs
  <1>1. CASE Begin BY <1>1 DEF Begin, FailureLeavesNothing
  <1>2. CASE AfterApply
    BY <1>2 DEF AfterApply, ModeInv, PendingInv, FailureLeavesNothing
  <1>3. CASE EnsureAMTPassword
    BY <1>3 DEF EnsureAMTPassword, ModeInv, PendingInv, FailureLeavesNothing
  <1>4. CASE Validate
    BY <1>4 DEF Validate, ModeInv, PendingInv, FailureLeavesNothing
  <1>5. CASE EnableAMT
    BY <1>5 DEF EnableAMT, ModeInv, PendingInv, FailureLeavesNothing
  <1>6. CASE PrepareCCM
    BY <1>6 DEF PrepareCCM, ModeInv, PendingInv, FailureLeavesNothing
  <1>7. CASE HostBasedSetupService
    BY <1>7
        DEF HostBasedSetupService, Call, PlaceInv, ModeInv, PendingInv,
        FailureLeavesNothing
  <1>8. CASE CommitCCMChanges
    BY <1>8 DEF CommitCCMChanges, PlaceInv, FailureLeavesNothing
  <1>9. CASE RollBack
    BY <1>9
        DEF RollBack, Call, BackToPreProvisioning, ModeInv, PendingInv,
        FailureLeavesNothing
  <1>10. CASE PrepareACM
    BY <1>10
        DEF PrepareACM, StartSecureHostBasedConfiguration, Call, StartSecureSetup,
        PlaceInv, ModeInv, FailureLeavesNothing
  <1>11. CASE ActivateACMWithTLS
    BY <1>11 DEF ActivateACMWithTLS, Call, ModeInv, PendingInv, FailureLeavesNothing
  <1>12. CASE ActivateACMLegacy
    BY <1>12 DEF ActivateACMLegacy, ModeInv, PendingInv, FailureLeavesNothing
  <1>13. CASE InjectCertificate
    BY <1>13
        DEF InjectCertificate, Call, AddCertificate, ModeInv, PendingInv,
        FailureLeavesNothing
  <1>14. CASE HostBasedSetupServiceAdmin
    BY <1>14 DEF HostBasedSetupServiceAdmin, PlaceInv, ModeInv, FailureLeavesNothing
  <1>15. CASE CheckDespiteError
    BY <1>15 DEF CheckDespiteError, ModeInv, PendingInv, FailureLeavesNothing
  <1>16. CASE StopConfiguration
    BY <1>16 DEF StopConfiguration, PlaceInv, FailureLeavesNothing
  <1>17. CASE DeactivateCCM
    BY <1>17 DEF DeactivateCCM, PlaceInv, FailureLeavesNothing
  <1>18. CASE DeactivateACM
    BY <1>18 DEF DeactivateACM, PlaceInv, FailureLeavesNothing
  <1>19. CASE RejectDeactivate
    BY <1>19 DEF RejectDeactivate, ModeInv, PendingInv, FailureLeavesNothing
  <1>20. CASE Kill BY <1>20 DEF Kill, FailureLeavesNothing
  <1>21. CASE UNCHANGED vars BY <1>21 DEF vars, FailureLeavesNothing
  <1> QED BY <1>1, <1>2, <1>3, <1>4, <1>5, <1>6, <1>7, <1>8, <1>9, <1>10, <1>11,
           <1>12, <1>13, <1>14, <1>15, <1>16, <1>17, <1>18, <1>19, <1>20, <1>21
          DEF Next, ActivateCCM, ActivateACM, Deactivate, Finished

-----------------------------------------------------------------------------
(* The theorems. *)

LEMMA InitIInv == Init => IInv
  <1> SUFFICES ASSUME Init PROVE IInv OBVIOUS
  <1>1. TypeOK
    <2>1. pending \in Activations \cup {"none"} /\ cmd \in Commands
          /\ began \in [mode : 0..2, pending : Activations \cup {"none"}]
      BY DEF Init, Commands
    <2>2. chain \in 0..Chain /\ next \in 1..Chain + 1 /\ runs \in 0..MaxRuns
      BY ChainAssumption, MaxRunsAssumption DEF Init
    <2>3. tls \in BOOLEAN /\ enforced \in BOOLEAN BY Zenon DEF Init
    <2> QED BY <2>1, <2>2, <2>3 DEF Init, TypeOK
  <1>2. PlaceInv /\ ModeInv /\ PendingInv
    BY DEF Init, PlaceInv, ModeInv, PendingInv, ActivationPcs, CcmPcs, AcmPcs
  <1>3. SuccessMeansInMode /\ FailureLeavesNothing
    BY DEF Init, SuccessMeansInMode, FailureLeavesNothing
  <1> QED BY <1>1, <1>2, <1>3 DEF IInv

LEMMA Invariant == Spec => []IInv
  <1>1. IInv /\ [Next]_vars => IInv'
    BY TypeStep, PlaceInvStep, ModeInvStep, PendingInvStep, SuccessMeansInModeStep,
       FailureLeavesNothingStep DEF IInv
  <1> QED BY InitIInv, <1>1, PTL DEF Spec

(* Every variable of the process and of the device has its type, and no more *)
(* certificates are injected than the chain has.                             *)
THEOREM TypeCorrect == Spec => []TypeOK
  <1>1. IInv => TypeOK BY DEF IInv
  <1> QED BY Invariant, <1>1, PTL

(* What a local command reports as done is done: the mode is the one asked   *)
(* for, the password is the one given and nothing waits for a commit; unless *)
(* a request was refused without an error or, for the password of an ACM     *)
(* activation, the mode was misread when the command began.                  *)
THEOREM SuccessIsInMode == Spec => []SuccessMeansInMode
  <1>1. IInv => SuccessMeansInMode BY DEF IInv
  <1> QED BY Invariant, <1>1, PTL

(* A failed activation leaves the device in the mode it was in, also when    *)
(* that mode was misread or the reply to the admin setup was lost, unless    *)
(* one of the mishaps occurred that FailureLeavesNothing names.              *)
THEOREM FailureIsClean == Spec => []FailureLeavesNothing
  <1>1. IInv => FailureLeavesNothing BY DEF IInv
  <1> QED BY Invariant, <1>1, PTL
=============================================================================
