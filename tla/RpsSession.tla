---------------------------- MODULE RpsSession ----------------------------
(***************************************************************************)
(* The main goroutine of a remote (RPS) session, internal/rps/executor.go: *)
(* the loop of MakeItSo and the parts of HandleDataFromRPS that do not     *)
(* depend on the transport to AMT.  RelayLms and RelayLme add a transport, *)
(* and the places "probe", "open", "send", "wait", "hangup", "abort".      *)
(*                                                                         *)
(* AMT is outside the repository: it answers message i with the parts      *)
(* <<i, 1>> .. <<i, Parts>>.                                               *)
(***************************************************************************)
EXTENDS RpsLink

CONSTANT Parts       \* bound: parts of an AMT answer
ASSUME PartsAssumption == Parts \in Nat \ {0}

VARIABLES
    main,       \* where the main goroutine is
    cur,        \* the message it is handling (the last it took), 0 at first
    data,       \* what it received from e.data for that message
    interrupt,  \* a signal waits in the one-slot interrupt channel
    chClosed,   \* close(e.data) and close(e.errors) were called
    panic       \* the Go panic that killed the process, or "none"

mainVars == <<main, cur, data, interrupt, chClosed, panic>>

MainPcs == {"prepare", "probe", "dial", "start", "select", "heartbeat", "connect",
            "open", "send", "wait", "forward", "hangup", "abort", "shutdown", "cleanup", "done",
            "failed", "lme", "exited"}

\* One part of an answer: the message it answers and its place in the answer.
Part == MsgId \X (1..Parts)

\* The parts of the answer to message i that AMT delivers first.
Answer(i, n) == [k \in 1..n |-> <<i, k>>]

MainTypeOK ==
    /\ main \in MainPcs
    /\ cur \in Nat /\ cur <= nread
    /\ data \in Seq(Part)
    /\ interrupt \in BOOLEAN /\ chClosed \in BOOLEAN
    /\ panic \in {"none", "nil_connection", "nil_timer", "send_on_closed"}

MainInit ==
    /\ LinkInit
    /\ main = "prepare" /\ cur = 0 /\ data = <<>>
    /\ interrupt = FALSE /\ chClosed = FALSE /\ panic = "none"

\* The process runs: it neither panicked nor returned from main.main.
Alive == panic = "none" /\ main # "exited"

Goto(from, to) == main = from /\ main' = to
Crash(why) == panic' = why

-----------------------------------------------------------------------------
(* The first message describes the device.  Anything of it that cannot be    *)
(* read but the DNS suffix, a UUID known as invalid or a missing password    *)
(* of an activated device ends the command before anything is opened.        *)
PrepareInitialMessage ==
    /\ Goto("prepare", "probe") \/ Goto("prepare", "failed")
    /\ UNCHANGED <<linkVars, cur, data, interrupt, chClosed, panic>>

\* The end of NewExecutor.
DialRps ==
    /\ \/ Dial(TRUE) /\ Goto("dial", "start")
       \/ Dial(FALSE) /\ Goto("dial", "failed")
    /\ UNCHANGED <<asked, nread, reader, sent, cur, data, interrupt, chClosed, panic>>

(* MakeItSo: install the signal handler, start the reader, send the first  *)
(* message.  When that fails it returns before the deferred Close is set.  *)
StartSession ==
    /\ ListenToRps
    /\ \/ Write(InitialMessage, TRUE) /\ Goto("start", "select")
       \/ Write(InitialMessage, FALSE) /\ Goto("start", "done")
    /\ UNCHANGED <<asked, nread, ws, cur, data, interrupt, chClosed, panic>>

-----------------------------------------------------------------------------
(* MakeItSo's select, and what ProcessMessage makes of the message. *)

\* Mutant: a heartbeat is passed over.
AfterProcessMessage_NoBeat(k) ==
    IF k = "request" THEN "connect"
    ELSE IF k = "heartbeat" THEN "select" ELSE "shutdown"

AfterProcessMessage(k) ==
    IF k = "request" THEN "connect"
    ELSE IF k = "heartbeat" THEN "heartbeat" ELSE "shutdown"

\* Mutant: the message is numbered one too high.
TakeMessage_Ahead ==
    /\ reader = "sending"
    /\ reader' = "reading"
    /\ cur' = nread + 1
    /\ Goto("select", AfterProcessMessage(asked[nread]))
    /\ UNCHANGED <<asked, nread, ws, sent, data, interrupt, chClosed, panic>>

TakeMessage ==
    /\ reader = "sending"
    /\ reader' = "reading"
    /\ cur' = nread
    /\ Goto("select", AfterProcessMessage(asked[nread]))
    /\ UNCHANGED <<asked, nread, ws, sent, data, interrupt, chClosed, panic>>

\* A receive from the closed channel yields nil, which is not JSON.
TakeClosed ==
    /\ reader = "closed"
    /\ Goto("select", "shutdown")
    /\ UNCHANGED <<linkVars, cur, data, interrupt, chClosed, panic>>

\* Mutant: the interrupt is also served inside HandleDataFromRPS.
TakeInterrupt_Anywhere ==
    /\ interrupt
    /\ interrupt' = FALSE
    /\ Goto("select", "cleanup") \/ Goto("wait", "cleanup")
    /\ chClosed' = TRUE
    /\ Disconnect
    /\ UNCHANGED <<asked, nread, reader, sent, cur, data, panic>>

TakeInterrupt ==
    /\ interrupt
    /\ interrupt' = FALSE
    /\ Goto("select", "cleanup")
    /\ chClosed' = TRUE
    /\ Disconnect
    /\ UNCHANGED <<asked, nread, reader, sent, cur, data, panic>>

\* A heartbeat that cannot be sent ends the session.
AnswerHeartbeat ==
    /\ \/ Write(HeartbeatResponse(cur), TRUE) /\ Goto("heartbeat", "select")
       \/ Write(HeartbeatResponse(cur), FALSE) /\ Goto("heartbeat", "shutdown")
    /\ UNCHANGED <<asked, nread, reader, ws, cur, data, interrupt, chClosed, panic>>

-----------------------------------------------------------------------------
\* Mutant: the check len(data) > 0 is dropped.
Forward_Empty ==
    /\ Goto("forward", "hangup")
    /\ \E ok \in BOOLEAN : Write(Response(cur, data), ok)
    /\ UNCHANGED <<asked, nread, reader, ws, cur, data, interrupt, chClosed, panic>>

\* HandleDataFromLM: an empty read is not forwarded, a failed send is logged.
Forward ==
    /\ Goto("forward", "hangup")
    /\ IF data = <<>> THEN sent' = sent
       ELSE \E ok \in BOOLEAN : Write(Response(cur, data), ok)
    /\ UNCHANGED <<asked, nread, reader, ws, cur, data, interrupt, chClosed, panic>>

\* MakeItSo's end: close(e.data) and close(e.errors).
CloseChannels ==
    /\ Goto("shutdown", "cleanup")
    /\ chClosed' = TRUE
    /\ UNCHANGED <<linkVars, cur, data, interrupt, panic>>

\* The command returns; the shared library (cmd/rpc/lib.go) may never exit.
Exit ==
    /\ main \in {"done", "failed", "lme"}
    /\ main' = "exited"
    /\ UNCHANGED <<linkVars, cur, data, interrupt, chClosed, panic>>

\* Ctrl-C or SIGTERM while MakeItSo runs; the channel keeps one signal.
UserInterrupts ==
    /\ main \notin {"prepare", "probe", "dial", "start", "done", "failed", "lme", "exited"}
    /\ ~interrupt
    /\ interrupt' = TRUE
    /\ UNCHANGED <<linkVars, main, cur, data, chClosed, panic>>

\* What the main goroutine does without the transport.
SessionStep ==
    PrepareInitialMessage \/ DialRps \/ StartSession \/ TakeMessage \/ TakeClosed \/ TakeInterrupt
    \/ AnswerHeartbeat \/ Forward \/ CloseChannels

\* RPS and the network.
Peer == LinkBreaks \/ \E k \in Kinds : RpsSends(k)

-----------------------------------------------------------------------------
(* Properties of a session, over any transport. *)

(* Each response RPS gets belongs to one of its requests, in the order it    *)
(* asked them and at most one each, and holds the parts AMT answered to that *)
(* request, first to last without a gap, although every response travels     *)
(* through the same channel and the same transport.                          *)
IsResponse(i) == i \in DOMAIN sent /\ sent[i].kind = "response"
OwnAnswers ==
    /\ \A i \in DOMAIN sent : IsResponse(i) =>
        /\ sent[i].of \in 1..cur /\ sent[i].body # <<>>
        /\ sent[i].body = Answer(sent[i].of, Len(sent[i].body))
    /\ \A i, j \in DOMAIN sent :
        i < j /\ IsResponse(i) /\ IsResponse(j) => sent[i].of < sent[j].of

(* MakeItSo ends: after RPS said success or error or sent a frame that is no *)
(* message, after a lost link ("rpc will exit instead of hang when           *)
(* connection fails to rps", CHANGELOG.md:978) and after an interrupt, the   *)
(* main goroutine returns, whatever AMT does, unless a goroutine panics.     *)
Ended == main \in {"done", "failed", "lme", "exited"} \/ panic # "none"
SessionEnds ==
    \/ interrupt
    \/ ws = "lost"
    \/ \E i \in 1..Len(asked) : asked[i] \in {"success", "error", "malformed"}
    ~> Ended

(* A request that was taken leads back to the select or to the end: the      *)
(* wait on e.data has no timeout of its own and relies on the transport to   *)
(* hand over whatever it has when its own timer runs out.                    *)
HandlerReturns ==
    main \in {"connect", "open", "send", "wait", "forward", "hangup", "abort"}
        ~> main = "select" \/ Ended

(* The session keeps what Relay promises to RPS: the main goroutine's place  *)
(* is the promise's state.                                                   *)
Phase ==
    IF main \in {"prepare", "probe", "dial", "start"} THEN "new"
    ELSE IF main \in {"select", "hangup"} THEN "idle"
    ELSE IF main \in {"connect", "open", "send", "wait", "forward", "abort"} THEN "busy"
    ELSE IF main = "heartbeat" THEN "beat" ELSE "over"

Promise == INSTANCE Relay WITH taken <- cur, state <- Phase
KeepsPromise == Promise!Spec
=============================================================================
