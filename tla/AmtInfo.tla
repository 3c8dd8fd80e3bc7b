------------------------------ MODULE AmtInfo ------------------------------
(***************************************************************************)
(* The amtinfo command, internal/commands/amtinfo.go: reads what the flags *)
(* ask for, section after section, keeps going when one cannot be read,    *)
(* prints it and, with --sync, sends it to a server.  Of the results the   *)
(* ones a later section depends on are kept, the AMT version and the       *)
(* control mode, and whether there are user certificates.  The host's own  *)
(* names and addresses, the decoding and the output are left out.          *)
(***************************************************************************)
EXTENDS HostProcess

CONSTANTS InfoTicks   \* bound: ticks within the two minutes a version is waited for

ASSUME InfoTicksAssumption == InfoTicks \in Nat

VARIABLES
    sections, \* what is still to be read
    shown     \* the results kept

infoVars == <<sections, shown>>

\* Flags of the command line, as far as they lead to different sections.
FlagSets == {"none", "all", "userCert", "opState"}

NotRead == 3    \* the code's -1
NothingShown == [amt |-> FALSE, mode |-> NotRead, certs |-> FALSE]

\* What is read, in the order of the code; "amtAgain" is the version the operational
\* state needs, "modeAgain" the control mode the user certificates need.
Sections ==
    (Asks \ {"initialize", "hash", "unprovision"}) \cup {"amtAgain", "modeAgain", "certificates"}
BeforeHashes ==
    <<"amt", "build", "sku", "uuid", "mode", "amtAgain", "enabled", "dns", "ras", "wired", "wireless">>
OpState == <<"amtAgain", "enabled">>
UserCerts == <<"modeAgain", "certificates">>

\* The certificate hashes are not among what is shown without flags.
Wanted(flags, sync) ==
    CASE flags = "all" \/ sync -> BeforeHashes \o <<"handles">> \o UserCerts
      [] flags = "none" /\ ~sync -> BeforeHashes \o UserCerts
      [] flags = "userCert" /\ ~sync -> UserCerts
      [] flags = "opState" /\ ~sync -> OpState

\* RequiresAMTPassword: asks the flags as they were given, not what --sync makes of them.
RequiresAMTPassword(flags) == flags \in {"all", "userCert"} /\ seen # 0

-----------------------------------------------------------------------------
\* Run: a password is asked for when it is required, and used when it was given.
DispatchInfo ==
    /\ Here("dispatch")
    /\ cmd' = InfoCommand
    /\ \E flags \in FlagSets, sync \in BOOLEAN :
        /\ want' = [want EXCEPT !.sync = sync]
        /\ sections' = Wanted(flags, sync)
        /\ IF RequiresAMTPassword(flags) THEN Move("infoSecret") /\ UNCHANGED secret
           ELSE Move("infoClient") /\ secret' \in Passwords \cup {Nothing}
    /\ UNCHANGED <<frontVars, client, shown>> /\ Untouched

InfoPassword ==
    /\ Here("infoSecret")
    /\ EnsureAMTPassword("infoClient")
    /\ UNCHANGED <<frontVars, client, cmd, want, infoVars>> /\ Untouched

InfoClient ==
    /\ Here("infoClient")
    /\ EnsureWSMAN
    /\ Move("sections")
    /\ UNCHANGED <<frontVars, secret, cmd, want, infoVars>> /\ Untouched

Section == Head(sections)
NextSection == sections' = Tail(sections)

\* A second read is for what is not known yet, the operational state for AMT
\* versions above 11.
Skipped ==
    \/ Section = "amtAgain" /\ shown.amt
    \/ Section = "enabled" /\ ~(shown.amt /\ machine.version > 11)
    \/ Section = "modeAgain" /\ shown.mode # NotRead

AskOf(section) ==
    CASE section = "amtAgain" -> "amt" [] section = "modeAgain" -> "mode" [] OTHER -> section

AskSection ==
    /\ Here("sections") /\ sections # <<>>
    /\ Section # "certificates"
    /\ IF Skipped THEN NextSection /\ Move("sections")
       ELSE /\ LET a == AskOf(Section) IN
                 QueryTicks("section", a, IF a \in Versions THEN InfoTicks ELSE 0)
            /\ UNCHANGED sections
    /\ UNCHANGED <<device, mishaps, shown>> /\ Same

\* What cannot be read is logged and left out.
ShowSection ==
    /\ Answered("section")
    /\ shown' = IF ~res.ok THEN shown
                ELSE CASE ask = "amt" -> [shown EXCEPT !.amt = TRUE]
                       [] ask = "mode" -> [shown EXCEPT !.mode = res.value]
                       [] OTHER -> shown
    /\ NextSection /\ Move("sections")
    /\ UNCHANGED <<device, mishaps>> /\ Same

\* getUserCertificates: not without a password, nor in pre-provisioning; without a
\* client one is made that speaks TLS or not, as AfterApply has found; a failure is
\* logged.  A mode that could not be read does not stop it.
ShowCertificates ==
    /\ Here("sections") /\ sections # <<>>
    /\ Section = "certificates"
    /\ \/ UNCHANGED shown
       \/ /\ secret # Nothing /\ shown.mode # 0
          /\ client # "none" /\ Accepted
          /\ shown' = [shown EXCEPT !.certs = TRUE]
    /\ NextSection /\ Move("sections")
    /\ UNCHANGED <<device, mishaps>> /\ Same

\* SyncDeviceInfo: a token, if there are credentials for one, and the PATCH.
FinishInfo ==
    /\ Here("sections") /\ sections = <<>>
    /\ Succeed \/ (want.sync /\ Fail)
    /\ UNCHANGED <<device, mishaps, infoVars>> /\ Same

InfoStep ==
    \/ DispatchInfo \/ InfoPassword \/ InfoClient
    \/ AskSection \/ ShowSection \/ ShowCertificates \/ FinishInfo
=============================================================================
