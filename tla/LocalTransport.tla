-------------------------- MODULE LocalTransport --------------------------
(***************************************************************************)
(* WSMAN over LME for local commands, internal/local/amt/localTransport.go *)
(* over LmeChannel: the http.RoundTripper the WSMAN client of the library  *)
(* sends its requests through, one at a time.  Requests are numbered;      *)
(* after an error a command may go on with another request or end.  The    *)
(* connection is never closed.  Goroutines that can run do so before the   *)
(* device answers or a timer runs out; RelayLme covers the other orders.   *)
(***************************************************************************)
EXTENDS Naturals, Sequences

CONSTANTS MaxRequests,   \* bound: HTTP requests of a command
          Parts,         \* bound: parts of AMT's answer to one
          FaultSets      \* what the device may do wrong, see LmeChannel

ASSUME RequestsAssumption == MaxRequests \in Nat
ASSUME PartsAssumption == Parts \in Nat \ {0}
ASSUME FaultsAssumption ==
    FaultSets \subseteq SUBSET {"nodevice", "open", "write", "read", "late"}

Round == 1..MaxRequests

VARIABLES
    main,        \* "new" | "idle" | "connect" | "open" | "send" | "wait" | "exited"
    cur,         \* the request of the last RoundTrip
    responses,   \* responses[i]: what RoundTrip returned for i
    failed       \* the requests for which it returned an error

VARIABLES faults, fd, wg, retries, sender, temp, loaded, raced, tref, inbox, reader, held,
          timer, snap, amt

Lme == INSTANCE LmeChannel WITH Slow <- TRUE

callerVars == <<main, cur, responses, failed>>
lmeVars == <<faults, fd, wg, retries, sender, temp, loaded, raced, tref, inbox, reader, held,
             timer, snap, amt>>
vars == <<callerVars, lmeVars>>

TypeOK ==
    /\ Lme!LmeTypeOK
    /\ main \in {"new", "idle", "connect", "open", "send", "wait", "exited"}
    /\ cur \in 0..MaxRequests
    /\ responses \in [Round -> Seq(Round \X (1..Parts))]
    /\ \A i \in Round : i > cur => responses[i] = <<>>
    /\ failed \subseteq 1..cur

Init ==
    /\ Lme!LmeInit
    /\ main = "new" /\ cur = 0 /\ failed = {}
    /\ responses = [i \in Round |-> <<>>]

Alive == main # "exited"
Goto(from, to) == main = from /\ main' = to

-----------------------------------------------------------------------------
\* NewLocalTransport: an error of Initialize is only logged.
NewLocalTransport ==
    /\ Goto("new", "idle")
    /\ Lme!Initialize(TRUE) \/ ("open" \in faults /\ Lme!Initialize(FALSE))
    /\ UNCHANGED <<cur, responses, failed>>

\* The client calls RoundTrip.
StartRequest ==
    /\ cur < MaxRequests
    /\ Goto("idle", "connect")
    /\ cur' = cur + 1
    /\ UNCHANGED <<responses, failed, lmeVars>>

Connect ==
    /\ \/ Goto("connect", "open") /\ Lme!OpenChannel(cur) /\ UNCHANGED failed
       \/ Goto("connect", "connect") /\ Lme!RetryOpen /\ UNCHANGED failed
       \/ Goto("connect", "idle") /\ Lme!FailOpen(cur) /\ failed' = failed \cup {cur}
    /\ UNCHANGED <<cur, responses>>

\* Mutant: the request does not wait for the channel's confirmation.
WaitForChannel_Not ==
    /\ Goto("open", "send")
    /\ UNCHANGED <<cur, responses, failed, lmeVars>>

WaitForChannel ==
    /\ Lme!Confirmed
    /\ Goto("open", "send")
    /\ UNCHANGED <<cur, responses, failed, lmeVars>>

\* The caller sees the error and the goroutines of Listen stay.
Send ==
    /\ \/ Goto("send", "wait") /\ Lme!SendPayload(cur) /\ UNCHANGED failed
       \/ Goto("send", "idle") /\ Lme!SendPayloadFails /\ failed' = failed \cup {cur}
    /\ UNCHANGED <<cur, responses>>

\* An empty buffer is passed over and the loop waits for another.
Receive(i) ==
    /\ main = "wait"
    /\ Lme!HandOver(i)
    /\ main' = IF snap[i] = <<>> THEN "wait" ELSE "idle"
    /\ responses' = [responses EXCEPT ![cur] = snap[i]]
    /\ UNCHANGED <<cur, failed>>

\* The command ends, between two requests.
Exit ==
    /\ Goto("idle", "exited")
    /\ UNCHANGED <<cur, responses, failed, lmeVars>>

-----------------------------------------------------------------------------
RoundTrip ==
    Connect \/ WaitForChannel \/ Send \/ \E i \in Round : Receive(i)

LmeReader(i) == Lme!ReaderGoroutine(i) /\ UNCHANGED callerVars

\* The caller is not about to send a request.
Waiting == main # "send" /\ (main = "open" => ~Lme!Confirmed)
LmeTimer(i) == Lme!TimerGoroutine(i, Waiting) /\ UNCHANGED callerVars
Device(i) == Lme!Amt(i) /\ UNCHANGED callerVars

Next ==
    \/ Alive /\ (NewLocalTransport \/ StartRequest \/ RoundTrip \/ Exit)
    \/ Alive /\ \E i \in Round : LmeReader(i) \/ LmeTimer(i) \/ Device(i)
    \/ ~Alive /\ UNCHANGED vars

\* As in RelayLme.
Fairness ==
    /\ WF_vars(Alive /\ RoundTrip)
    /\ \A i \in Round :
        /\ WF_vars(Alive /\ LmeReader(i))
        /\ WF_vars(Alive /\ LmeTimer(i))
        /\ WF_vars(Alive /\ Device(i))

Spec == Init /\ [][Next]_vars
FairSpec == Spec /\ Fairness

-----------------------------------------------------------------------------
(* Properties. *)

Answer(i) == [k \in 1..Parts |-> <<i, k>>]

InRoundTrip == main \in {"connect", "open", "send", "wait"}
Returned(i) == i < cur \/ (i = cur /\ ~InRoundTrip)

(* With an AMT that answers in time, and reads of the driver that succeed,   *)
(* RoundTrip returns AMT's whole answer to the request it was called with,   *)
(* and nothing before that, although all requests share one buffer, one      *)
(* channel to the caller and one timer field; until a request fails, whose   *)
(* timer may hand its buffer to a later one.                                 *)
InTime == faults \cap {"read", "late"} = {}
OwnResponse ==
    \A i \in Round : InTime /\ failed \cap 1..i = {} =>
        responses[i] = IF Returned(i) THEN Answer(i) ELSE <<>>

(* "wait for channel open confirmation" (localTransport.go:62): a request is  *)
(* sent on the channel that was opened for it, also after requests that      *)
(* failed and left their goroutines behind.                                  *)
OwnChannel == main = "send" => sender = cur

(* A RoundTrip returns, although it waits without a timeout for the channel  *)
(* and for a timer that hands over something.  Not so after a request that   *)
(* failed, whose timer closes the channel of a later one, nor after a retry, *)
(* whose confirmation is awaited twice.  Else there are two cases, and with  *)
(* an AMT in time and reads that succeed none: every reader has ended before *)
(* the confirmation came; and an empty buffer was handed over, is passed     *)
(* over, and no timer is left to hand over another.                          *)
Unheard == main = "open" /\ Lme!Deaf
Starved == main = "wait" /\ \A i \in Round : ~Lme!Pending(i)
RoundTripReturns ==
    main = "connect" ~>
        ~InRoundTrip \/ failed # {} \/ wg > 1 \/ (~InTime /\ (Unheard \/ Starved))
=============================================================================
