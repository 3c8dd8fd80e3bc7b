---------------------------- MODULE HostProcess ----------------------------
(***************************************************************************)
(* What every local command goes through before its own Run: the entry     *)
(* points (cmd/rpc), ExecuteWithAMT (internal/cli/cli.go), AMTBaseCmd      *)
(* (internal/commands/base.go) and the set-up of the WSMAN client.  The    *)
(* command, with its arguments, is drawn when it is dispatched; the        *)
(* arguments kong, or the library's reader, refuses are one outcome of     *)
(* Parse.  The waits between the attempts and what becomes of the standard *)
(* streams are left out.                                                   *)
(*                                                                         *)
(* External: the user, the WSMAN server behind LMS or LME, and whoever     *)
(* else activates or deactivates the device while rpc runs.                *)
(***************************************************************************)
EXTENDS AmtHost

CONSTANTS Passwords   \* what a user can type

Blank == "blank"      \* only white space
Nothing == "nothing"  \* no password: none asked for, or an empty one
ASSUME PasswordsAssumption == Blank \notin Passwords /\ Nothing \notin Passwords

VARIABLES
    main,     \* where the process is
    attempt,  \* of AfterApply
    seen,     \* AMTBaseCmd.ControlMode
    enforced, \* AMTBaseCmd.LocalTLSEnforced
    secret,   \* ctx.AMTPassword
    client,   \* the WSMAN client
    cmd,      \* the command that runs
    want,     \* its arguments
    out       \* the outcome

frontVars == <<attempt, seen, enforced>>

InfoCommand == "amtinfo"
ConfigureCommands == {"features", "password", "mebx", "proxyList", "proxyAdd", "proxyDelete",
                      "clock", "hostname", "wifi"}
Commands == ConfigureCommands \cup {InfoCommand, "deactivate", "version"}

-----------------------------------------------------------------------------
(* Steps of the process. *)

\* Goes on to a step that is not a host operation.
Move(place) ==
    /\ main' = place /\ Forget
    /\ UNCHANGED out

\* Goes on to a step that waits for the host operation a.
QueryTicks(place, a, n) == main' = place /\ Begin(a, n) /\ UNCHANGED out
Query(place, a) == QueryTicks(place, a, 0)

Leave(outcome) == main' = "done" /\ out' = outcome /\ Forget
Succeed == Leave("ok")
Fail == Leave("error")
Crash == Leave("panic")

Here(place) == main = place /\ at = "idle"
Answered(place) == main = place /\ at = "back"

Untouched == UNCHANGED <<device, mishaps, driverVars>>

-----------------------------------------------------------------------------
\* main and rpcExec: the driver must open.
Start ==
    /\ Here("start")
    /\ Query("access", "initialize")
    /\ UNCHANGED <<attempt, seen, enforced, secret, client, cmd, want>>
    /\ Untouched

\* Initialize has answered.
CheckAccess ==
    /\ Answered("access")
    /\ IF res.ok THEN Move("parse") ELSE Fail
    /\ UNCHANGED <<frontVars, secret, client, cmd, want>>
    /\ Untouched

\* The reader of the library's arguments, or kong, or a command's Validate, may
\* refuse them, or its prompt fail; help and version have no AfterApply.
Parse ==
    /\ Here("parse")
    /\ \/ Query("apply", "mode") /\ UNCHANGED cmd
       \/ Query("context", "mode") /\ cmd' = "version"
       \/ Fail /\ UNCHANGED cmd
    /\ UNCHANGED <<frontVars, secret, client, want>>
    /\ Untouched

MaxAttempts == 4

\* Mutant: the attempts are not counted.
AfterApplyMode_Uncounted ==
    /\ Answered("apply")
    /\ IF res.ok THEN seen' = res.value /\ Query("enforced", "enabled")
       ELSE seen' = seen /\ Query("apply", "mode")
    /\ UNCHANGED <<attempt, enforced, secret, client, cmd, want>>
    /\ Untouched

\* Mutant: one attempt too many.
AfterApplyMode_OneMore ==
    /\ Answered("apply")
    /\ IF res.ok THEN seen' = res.value /\ Query("enforced", "enabled") /\ attempt' = 1
       ELSE IF attempt <= MaxAttempts
            THEN attempt' = attempt + 1 /\ Query("apply", "mode") /\ UNCHANGED seen
            ELSE Fail /\ UNCHANGED <<attempt, seen>>
    /\ UNCHANGED <<enforced, secret, client, cmd, want>>
    /\ Untouched

\* AfterApply: the control mode, in up to four attempts.
AfterApplyMode ==
    /\ Answered("apply")
    /\ IF res.ok THEN seen' = res.value /\ Query("enforced", "enabled") /\ attempt' = 1
       ELSE IF attempt < MaxAttempts
            THEN attempt' = attempt + 1 /\ Query("apply", "mode") /\ UNCHANGED seen
            ELSE Fail /\ UNCHANGED <<attempt, seen>>
    /\ UNCHANGED <<enforced, secret, client, cmd, want>>
    /\ Untouched

\* An error of GetChangeEnabled is dropped: TLS then counts as not enforced.
AfterApplyTls ==
    /\ Answered("enforced")
    /\ enforced' = (res.ok /\ res.value = 1)
    /\ Query("context", "mode")
    /\ UNCHANGED <<attempt, seen, secret, client, cmd, want>>
    /\ Untouched

\* ExecuteWithAMT reads the mode once more, in one attempt.
MakeContext ==
    /\ Answered("context")
    /\ \/ res.ok /\ cmd = "version" /\ Succeed
       \/ res.ok /\ cmd # "version" /\ Move("dispatch")
       \/ ~res.ok /\ Fail
    /\ UNCHANGED <<frontVars, secret, client, cmd, want>>
    /\ Untouched

-----------------------------------------------------------------------------
(* EnsureAMTPassword and EnsureWSMAN. *)

\* The prompt refuses an empty password, and not one of white space.
EnsureAMTPassword(place) ==
    \/ secret' \in Passwords \cup {Blank} /\ Move(place)
    \/ UNCHANGED secret /\ Fail

\* A blank password gets no client and no error.  Without TLS a dial that
\* fails leads to the local transport; with TLS it is only logged.
EnsureWSMAN ==
    client' = IF secret \in {Blank, Nothing} THEN "none"
              ELSE IF enforced THEN "tls"
              ELSE IF machine.lms THEN "lms" ELSE "lme"

\* The client speaks to the device as the device wants it.
Reachable ==
    /\ client # "none"
    /\ IF machine.tls THEN client = "tls" /\ machine.lms ELSE client # "tls"

\* ConfigureBaseCmd.EnsureRuntime, first half.
AskPassword ==
    /\ Here("secret")
    /\ EnsureAMTPassword("client")
    /\ UNCHANGED <<frontVars, client, cmd, want>>
    /\ Untouched

\* Second half; a command without a client dereferences nil at its first call.
MakeClient ==
    /\ Here("client")
    /\ EnsureWSMAN
    /\ Move("run")
    /\ UNCHANGED <<frontVars, secret, cmd, want>>
    /\ Untouched

-----------------------------------------------------------------------------
(* A WSMAN call.  Work: what it does to the device, when it does it. *)

Accepted == Reachable /\ secret = device.password
Same == UNCHANGED <<frontVars, secret, client, cmd, want, driverVars>>

\* A call without a client is a nil dereference.
NoClient == client = "none" /\ Crash /\ UNCHANGED <<device, mishaps>> /\ Same

Continue(place) == IF place = "done" THEN Succeed ELSE Move(place)

\* A read.
Get(place) ==
    \/ NoClient
    \/ /\ client # "none" /\ (Fail \/ (Accepted /\ Continue(place)))
       /\ UNCHANGED <<device, mishaps>> /\ Same

\* A Put: done, done with its reply lost, or failed.
Put(place, Work) ==
    \/ NoClient
    \/ /\ client # "none"
       /\ \/ Fail /\ UNCHANGED device
          \/ Accepted /\ (Continue(place) \/ Fail) /\ device' = Work
       /\ UNCHANGED mishaps /\ Same

\* A method whose ReturnValue the caller does not look at: it may say no.
Invoke(place, Work) ==
    \/ Put(place, Work)
    \/ /\ client # "none" /\ Accepted /\ Continue(place)
       /\ mishaps' = mishaps \cup {"unseen"}
       /\ UNCHANGED device /\ Same

GiveUp == Fail /\ UNCHANGED <<device, mishaps>> /\ Same
=============================================================================
