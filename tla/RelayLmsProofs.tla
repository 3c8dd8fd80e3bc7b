--------------------------- MODULE RelayLmsProofs ---------------------------
(***************************************************************************)
(* Theorems about RelayLms, for every number of messages, every number of  *)
(* parts of an answer and every set of faults.                             *)
(***************************************************************************)
EXTENDS RelayLms, TLAPS

USE MaxMsgsAssumption, PartsAssumption, FaultsAssumption

-----------------------------------------------------------------------------
(* The inductive invariant. *)

(* What rpc has sent, as records of the three shapes it builds.            *)
Messages == [kind : {"initial", "heartbeat", "response"}, of : Nat, body : Seq(Part)]

\* The reader holds the one message the main goroutine has not taken yet.
ReaderInv == nread = IF reader = "sending" THEN cur + 1 ELSE cur

\* A handler of HandleDataFromRPS runs only for a message that was taken.
Handling == {"connect", "send", "wait", "forward", "hangup", "abort", "heartbeat"}
HandlingInv == main \in Handling => cur \in MsgId

\* Sockets and listeners of messages not yet taken do not exist.
Fresh(l) == l > cur \/ (l = cur /\ main = "connect")
FreshInv ==
    \A l \in MsgId : Fresh(l) =>
        lst[l] = "none" /\ sock[l] = "none" /\ req[l] = 0 /\ nxt[l] = 0 /\ buf[l] = <<>>

\* The only open socket is the current one, and Connection refers to it.
WithSocket == {"send", "wait", "forward", "hangup", "abort"}
SocketInv ==
    /\ \A s \in SockId : sock[s] = "open" => s = conn /\ s = cur /\ main \in WithSocket
    /\ \A s \in SockId : req[s] \in {0, s}
    /\ main = "send" => conn # 0
    /\ conn # 0 => sock[conn] # "none"

Live(l) == lst[l] \notin {"none", "done"}
ListenerInv ==
    \A l \in MsgId : Live(l) => l = cur /\ main \notin Resting \cup {"forward", "hangup"}

\* A listener holds the parts read from its own socket, in order.
BufferInv ==
    /\ \A l \in MsgId : buf[l] = Answer(l, nxt[l])
    /\ main = "forward" => data = Answer(cur, nxt[cur])

\* Nothing is sent for a message before its handler reaches Forward.
Unanswered == {"connect", "send", "wait", "forward"}
SentInv ==
    /\ sent \in Seq(Messages)
    /\ main \in Unanswered => \A i \in DOMAIN sent : IsResponse(i) => sent[i].of < cur

IInv ==
    /\ TypeOK /\ ReaderInv /\ HandlingInv /\ FreshInv /\ SocketInv
    /\ ListenerInv /\ BufferInv /\ SentInv /\ OwnAnswers

-----------------------------------------------------------------------------
(* An answer is a sequence of parts, its length is what it says, and reading *)
(* one more part extends it (the append of Listen).                          *)
LEMMA AnswerExtends ==
    ASSUME NEW i \in MsgId, NEW n \in 0..Parts
    PROVE  /\ Answer(i, n) \in Seq(Part)
           /\ Len(Answer(i, n)) = n
           /\ n < Parts => Append(Answer(i, n), <<i, n + 1>>) = Answer(i, n + 1)
  <1>1. Answer(i, n) \in Seq(Part) /\ Len(Answer(i, n)) = n
    BY DEF Answer, Part
  <1>2. n < Parts => Append(Answer(i, n), <<i, n + 1>>) = Answer(i, n + 1)
    BY DEF Answer
  <1> QED BY <1>1, <1>2

\* The socket of a message is a socket, and none has the number 0.
LEMMA Sockets == (\A i \in MsgId : i \in SockId /\ i # 0) /\ 0 \notin SockId
  BY DEF MsgId, SockId, Probe

-----------------------------------------------------------------------------
(* Which parts of the state a step may change. *)

\* The listener goroutines' steps, as the disjuncts of ListenerStep.
Listening(l) == ListenStart(l) \/ ListenCall(l) \/ ListenRead(l) \/ ListenBreak(l)

\* The steps of LMS connections and listeners; every other leaves lmsVars alone.
LEMMA LmsCases ==
    ASSUME [Next]_vars
    PROVE  \/ UNCHANGED lmsVars
           \/ ProbeLms \/ ConnectLms \/ SendLms \/ HangUp \/ CleanUp
           \/ \E l \in MsgId : ReceiveFromLms(l) \/ Listening(l)
  BY DEF Next, MainStep, ReaderGoroutine, Environment, ListenerStep, Listening, Terminated, vars, lmsVars,
     ListenSendFails

(* A step of the link leaves the main goroutine where it is.               *)
LinkOnly ==
    /\ UNCHANGED <<mainVars, lmsVars>>
    /\ LinkBreaks \/ ReadMessage \/ ReadFails \/ \E k \in Kinds : RpsSends(k)

\* A step of the main goroutine, the user's signal or the exit.
OwnStep == MainStep \/ ((Exit \/ UserInterrupts) /\ UNCHANGED lmsVars)

LEMMA MainCases ==
    ASSUME [Next]_vars
    PROVE  \/ UNCHANGED vars
           \/ LinkOnly
           \/ UNCHANGED linkVars /\ UNCHANGED <<main, cur, data, interrupt, chClosed>> /\ \E l \in MsgId : ListenerStep(l)
           \/ OwnStep
  BY DEF Next, ReaderGoroutine, ReaderStep, Environment, Peer, OwnStep, ListenerStep, LinkOnly, Terminated, vars, mainVars,
     ListenStart, ListenCall, ListenRead, ListenBreak, ListenSendFails

LEMMA LinkCases ==
    ASSUME [Next]_vars
    PROVE  \/ UNCHANGED linkVars
           \/ LinkOnly
           \/ DialRps \/ StartSession \/ TakeMessage \/ TakeInterrupt \/ AnswerHeartbeat \/ Forward
  <1>1. CASE MainStep
    BY <1>1 DEF MainStep, SessionStep, ProbeLms, PrepareInitialMessage, TakeClosed, ConnectLms, SendLms, ReceiveFromLms, HangUp, CloseChannels, CleanUp
  <1>2. CASE Exit \/ UserInterrupts
    BY <1>2 DEF Exit, UserInterrupts
  <1> QED BY <1>1, <1>2, MainCases DEF vars, OwnStep

(* Only TakeMessage, ReadMessage, ReadFails and StartSession change who      *)
(* holds which message, and only TakeMessage starts a handler.               *)
LEMMA CurMoves ==
    ASSUME [Next]_vars
    PROVE  \/ TakeMessage
           \/ /\ cur' = cur /\ (main' \in Handling => main \in Handling)
              /\ main' = "connect" => main = "connect"
              /\ LinkOnly \/ StartSession \/ UNCHANGED <<nread, reader, cur>>
  <1>1. CASE OwnStep
    BY <1>1 DEF OwnStep, MainStep, SessionStep, Exit, UserInterrupts, ProbeLms, PrepareInitialMessage, DialRps, StartSession, TakeClosed, TakeInterrupt,
       AnswerHeartbeat, ConnectLms, SendLms, ReceiveFromLms, Forward, HangUp, CloseChannels, CleanUp,
       Goto, Handling, linkVars
  <1>2. CASE LinkOnly BY <1>2 DEF LinkOnly, mainVars
  <1> QED BY <1>1, <1>2, MainCases DEF vars, linkVars, mainVars

\* Which steps may touch the listeners, or reach a place that excludes them.
LEMMA ListenerMoves ==
    ASSUME [Next]_vars
    PROVE  \/ (TakeMessage /\ UNCHANGED lmsVars) \/ ConnectLms
           \/ \E l \in MsgId : ReceiveFromLms(l) \/ Listening(l)
           \/ /\ UNCHANGED <<lst, cur>>
              /\ \/ main' \notin Resting \cup {"forward", "hangup"}
                 \/ main \in Resting \cup {"forward", "hangup"}
  <1>1. CASE OwnStep
    BY <1>1 DEF OwnStep, MainStep, SessionStep, Exit, UserInterrupts, ProbeLms, PrepareInitialMessage, DialRps, StartSession, TakeClosed, TakeInterrupt,
       AnswerHeartbeat, SendLms, Forward, HangUp, CloseChannels, CleanUp, Goto, Resting, lmsVars
  <1> QED BY <1>1, MainCases
    DEF vars, LinkOnly, ListenerStep, Listening, ListenSendFails, mainVars, lmsVars

\* Which steps may touch the sockets, or reach or leave a place with one.
LEMMA SocketMoves ==
    ASSUME [Next]_vars
    PROVE  \/ ProbeLms \/ (TakeMessage /\ UNCHANGED lmsVars) \/ ConnectLms \/ SendLms \/ HangUp \/ CleanUp
           \/ /\ UNCHANGED <<conn, sock, req, cur>>
              /\ main' = "send" => main = "send"
              /\ main \in WithSocket => main' \in WithSocket
  <1>1. CASE OwnStep
    BY <1>1 DEF OwnStep, MainStep, SessionStep, Exit, UserInterrupts, PrepareInitialMessage, DialRps, StartSession, TakeClosed, TakeInterrupt,
       AnswerHeartbeat, ReceiveFromLms, Forward, CloseChannels, Goto, WithSocket, lmsVars
  <1> QED BY <1>1, MainCases
    DEF vars, LinkOnly, ListenerStep, ListenStart, ListenCall, ListenRead, ListenBreak, ListenSendFails,
        mainVars, lmsVars

\* Which steps may touch the buffers.
LEMMA BufferMoves ==
    ASSUME [Next]_vars
    PROVE  \/ (TakeMessage /\ UNCHANGED lmsVars)
           \/ \E l \in MsgId : ReceiveFromLms(l) \/ ListenRead(l)
           \/ UNCHANGED <<buf, nxt, cur, data>> /\ (main' = "forward" => main = "forward")
  <1>1. CASE OwnStep
    BY <1>1 DEF OwnStep, MainStep, SessionStep, Exit, UserInterrupts, ProbeLms, PrepareInitialMessage, DialRps, StartSession, TakeClosed, TakeInterrupt,
       AnswerHeartbeat, ConnectLms, SendLms, Forward, HangUp, CloseChannels, CleanUp, Goto, lmsVars
  <1> QED BY <1>1, MainCases
    DEF vars, LinkOnly, ListenerStep, ListenStart, ListenCall, ListenBreak, ListenSendFails, mainVars, lmsVars

(* The three places that send to RPS, none of which leads to a place from    *)
(* where the response to the current message is still to come.               *)
Sends(m) ==
    /\ sent' = Append(sent, m) /\ cur' = cur /\ main' \notin Unanswered
    /\ \/ m = InitialMessage \/ m = HeartbeatResponse(cur)
       \/ main = "forward" /\ data # <<>> /\ m = Response(cur, data)
LEMMA SentMoves ==
    ASSUME [Next]_vars
    PROVE  \/ TakeMessage
           \/ sent' = sent /\ cur' = cur /\ (main' \in Unanswered => main \in Unanswered)
           \/ \E m : Sends(m)
  <1>1. CASE StartSession BY <1>1 DEF StartSession, Write, Goto, Unanswered, Sends
  <1>2. CASE AnswerHeartbeat BY <1>2 DEF AnswerHeartbeat, Write, Goto, Unanswered, Sends
  <1>3. CASE Forward BY <1>3 DEF Forward, Write, Goto, Unanswered, Sends
  <1>4. CASE OwnStep
    BY <1>1, <1>2, <1>3, <1>4 DEF OwnStep, MainStep, SessionStep, Exit, UserInterrupts, ProbeLms, PrepareInitialMessage, DialRps, TakeClosed, TakeInterrupt,
       ConnectLms, SendLms, ReceiveFromLms, HangUp, CloseChannels, CleanUp, Goto, Unanswered, linkVars
  <1> QED BY <1>4, MainCases
    DEF vars, linkVars, mainVars, LinkOnly, LinkBreaks, ReadMessage, ReadFails, RpsSends

-----------------------------------------------------------------------------
(* Type correctness. *)

LEMMA TypeInit == Init => TypeOK
  <1> SUFFICES ASSUME Init PROVE TypeOK
    OBVIOUS
  <1>1. LinkTypeOK
    BY DEF Init, MainInit, LinkInit, LinkTypeOK
  <1>11. MainTypeOK
    <2>1. main \in MainPcs /\ data \in Seq(Part) BY DEF Init, MainInit, MainPcs
    <2>2. interrupt \in BOOLEAN /\ chClosed \in BOOLEAN BY DEF Init, MainInit
    <2> QED BY <2>1, <2>2 DEF Init, MainInit, LinkInit, MainTypeOK
  <1>2. conn \in 0..Probe /\ req \in [SockId -> 0..MaxMsgs] /\ on \in [MsgId -> 0..Probe]
    BY DEF Init, MainInit, Probe
  <1>3. nxt \in [SockId -> 0..Parts] /\ buf \in [MsgId -> Seq(Part)]
    BY DEF Init, MainInit
  <1>4. /\ sock \in [SockId -> {"none", "open", "shut"}]
        /\ lst \in [MsgId -> ListenerPcs]
        /\ \A l \in MsgId : lst[l] = "blocked" => on[l] \in SockId
    BY DEF Init, MainInit, ListenerPcs
  <1> QED BY <1>1, <1>11, <1>2, <1>3, <1>4 DEF TypeOK, LmsTypeOK

\* The numbers of messages fit: cur never passes MaxMsgs.
LEMMA CurBound == TypeOK => cur \in 0..MaxMsgs
  BY DEF TypeOK, LinkTypeOK, MainTypeOK

LEMMA LmsTypeStep == ASSUME TypeOK, [Next]_vars PROVE LmsTypeOK'
  <1>0. LmsTypeOK /\ cur \in 0..MaxMsgs
    BY CurBound DEF TypeOK
  <1> USE DEF LmsTypeOK
  <1>1. CASE UNCHANGED lmsVars BY <1>0, <1>1 DEF lmsVars
  <1>2. CASE ConnectLms
    <2> USE <1>0, <1>2 DEF ConnectLms
    <2>1. conn' \in 0..Probe BY DEF Probe
    <2>2. sock' \in [SockId -> {"none", "open", "shut"}] OBVIOUS
    <2>3. lst' \in [MsgId -> ListenerPcs] BY DEF ListenerPcs
    <2>4. \A l \in MsgId : lst'[l] = "blocked" => on'[l] \in SockId OBVIOUS
    <2> QED BY <2>1, <2>2, <2>3, <2>4
  <1>10. CASE ProbeLms
    <2>1. conn' = conn \/ conn' = Probe BY <1>10 DEF ProbeLms
    <2>2. sock' = sock \/ sock' = [sock EXCEPT ![Probe] = "shut"] BY <1>10 DEF ProbeLms
    <2>3. Probe \in 0..Probe BY DEF Probe
    <2> QED BY <1>0, <1>10, <2>1, <2>2, <2>3 DEF ProbeLms
  <1>3. CASE SendLms
    <2>1. req' = req \/ req' = [req EXCEPT ![conn] = cur] BY <1>3 DEF SendLms
    <2>2. req' \in [SockId -> 0..MaxMsgs] BY <1>0, <2>1
    <2> QED BY <1>0, <1>3, <2>2 DEF SendLms
  <1>4. CASE HangUp \/ CleanUp
    <2>1. CloseLms /\ UNCHANGED <<req, nxt, lst, on, buf>> BY <1>4 DEF HangUp, CleanUp
    <2>2. conn' \in 0..Probe
      <3>1. conn' = conn \/ conn' = 0 BY <2>1 DEF CloseLms
      <3> QED BY <1>0, <3>1 DEF Probe
    <2>3. sock' \in [SockId -> {"none", "open", "shut"}]
      <3>1. sock' = sock \/ sock' = [sock EXCEPT ![conn] = "shut"] BY <2>1 DEF CloseLms
      <3> QED BY <1>0, <3>1
    <2> QED BY <1>0, <2>1, <2>2, <2>3
  <1>5. ASSUME NEW l \in MsgId, ReceiveFromLms(l) PROVE LmsTypeOK'
    BY <1>0, <1>5 DEF ReceiveFromLms, ListenerPcs
  <1>6. ASSUME NEW l \in MsgId, ListenStart(l) PROVE LmsTypeOK'
    BY <1>0, <1>6 DEF ListenStart, ListenerPcs
  <1>7. ASSUME NEW l \in MsgId, ListenCall(l) PROVE LmsTypeOK'
    <2> USE <1>0, <1>7 DEF ListenCall
    <2>1. lst' \in [MsgId -> ListenerPcs] BY DEF ListenerPcs
    <2>2. on' \in [MsgId -> 0..Probe] OBVIOUS
    <2>3. conn # 0 => conn \in SockId BY DEF SockId, Probe
    <2>4. \A k \in MsgId : lst'[k] = "blocked" => on'[k] \in SockId BY <2>3
    <2> QED BY <2>1, <2>2, <2>4
  <1>8. ASSUME NEW l \in MsgId, ListenRead(l) PROVE LmsTypeOK'
    <2>1. lst' \in [MsgId -> ListenerPcs] BY <1>0, <1>8 DEF ListenRead, ListenerPcs
    <2>2. on[l] \in SockId BY <1>0, <1>8 DEF ListenRead
    <2>3. /\ req[on[l]] # 0 /\ req[on[l]] \in 0..MaxMsgs
          /\ nxt[on[l]] \in 0..Parts /\ nxt[on[l]] < Parts
      BY <1>0, <1>8, <2>2 DEF ListenRead
    <2>4. <<req[on[l]], nxt[on[l]] + 1>> \in Part
      <3>1. req[on[l]] \in MsgId /\ nxt[on[l]] + 1 \in 1..Parts BY <2>3 DEF MsgId
      <3> QED BY <3>1 DEF Part
    <2>5. nxt' \in [SockId -> 0..Parts] BY <1>0, <1>8, <2>3 DEF ListenRead
    <2>6. buf' \in [MsgId -> Seq(Part)] BY <1>0, <1>8, <2>4 DEF ListenRead
    <2>7. \A k \in MsgId : lst'[k] = "blocked" => on'[k] \in SockId BY <1>0, <1>8 DEF ListenRead
    <2> QED BY <1>0, <1>8, <2>1, <2>5, <2>6, <2>7 DEF ListenRead
  <1>9. ASSUME NEW l \in MsgId, ListenBreak(l) PROVE LmsTypeOK'
    BY <1>0, <1>9 DEF ListenBreak, ListenerPcs
  <1> QED BY <1>1, <1>2, <1>3, <1>4, <1>5, <1>6, <1>7, <1>8, <1>9, <1>10, LmsCases DEF Listening

LEMMA LinkTypeStep == ASSUME TypeOK, [Next]_vars PROVE LinkTypeOK'
  <1>0. LinkTypeOK BY DEF TypeOK
  <1>1. CASE UNCHANGED linkVars BY <1>0, <1>1 DEF linkVars, LinkTypeOK
  <1>2. CASE DialRps \/ TakeInterrupt
    BY <1>0, <1>2 DEF DialRps, TakeInterrupt, Dial, Disconnect, LinkTypeOK
  <1>3. CASE StartSession \/ TakeMessage \/ AnswerHeartbeat \/ Forward
    BY <1>0, <1>3 DEF StartSession, ListenToRps, TakeMessage, AnswerHeartbeat, Forward, LinkTypeOK
  <1>4. CASE LinkOnly
    BY <1>0, <1>4 DEF LinkOnly, LinkBreaks, ReadMessage, ReadFails, RpsSends, LinkTypeOK
  <1> QED BY <1>1, <1>2, <1>3, <1>4, LinkCases

LEMMA MainTypeStep == ASSUME TypeOK, [Next]_vars PROVE MainTypeOK'
  <1>0. LinkTypeOK /\ MainTypeOK /\ LmsTypeOK BY DEF TypeOK
  <1>1. CASE UNCHANGED vars BY <1>0, <1>1 DEF vars, linkVars, mainVars, MainTypeOK
  <1>2. CASE LinkOnly
    <2>1. nread \in Nat /\ nread' \in {nread, nread + 1}
      BY <1>0, <1>2 DEF LinkOnly, LinkBreaks, ReadMessage, ReadFails, RpsSends, LinkTypeOK
    <2>2. UNCHANGED mainVars BY <1>2 DEF LinkOnly
    <2> QED BY <1>0, <2>1, <2>2 DEF mainVars, MainTypeOK
  <1>3. CASE UNCHANGED linkVars /\ UNCHANGED <<main, cur, data, interrupt, chClosed>> /\ \E l \in MsgId : ListenerStep(l)
    <2>1. panic' = panic \/ panic' \in {"nil_connection", "send_on_closed"}
      BY <1>3 DEF ListenerStep, ListenStart, ListenCall, ListenRead, ListenBreak, ListenSendFails, Crash, mainVars
    <2> QED BY <1>0, <1>3, <2>1 DEF linkVars, MainTypeOK
  <1>4. CASE OwnStep
    <2>1. main' \in MainPcs
      BY <1>0, <1>4 DEF OwnStep, MainStep, SessionStep, Exit, UserInterrupts, ProbeLms, PrepareInitialMessage, DialRps, StartSession, TakeMessage,
         AfterProcessMessage, TakeClosed, TakeInterrupt, AnswerHeartbeat, ConnectLms, SendLms,
         ReceiveFromLms, Forward, HangUp, CloseChannels, CleanUp, Goto, MainTypeOK, MainPcs
    <2>2. nread' = nread /\ cur' \in {cur, nread}
      BY <1>0, <1>4 DEF OwnStep, MainStep, SessionStep, Exit, UserInterrupts, ProbeLms, PrepareInitialMessage, DialRps, StartSession, TakeMessage,
         TakeClosed, TakeInterrupt, AnswerHeartbeat, ConnectLms, SendLms,
         ReceiveFromLms, Forward, HangUp, CloseChannels, CleanUp, linkVars
    <2>3. data' = data \/ \E l \in MsgId : data' = buf[l]
      BY <1>0, <1>4 DEF OwnStep, MainStep, SessionStep, Exit, UserInterrupts, ProbeLms, PrepareInitialMessage, DialRps, StartSession, TakeMessage,
         TakeClosed, TakeInterrupt, AnswerHeartbeat, ConnectLms, SendLms,
         ReceiveFromLms, Forward, HangUp, CloseChannels, CleanUp
    <2>4. panic' = panic /\ interrupt' \in {interrupt, TRUE, FALSE} /\ chClosed' \in {chClosed, TRUE}
      BY <1>4 DEF OwnStep, MainStep, SessionStep, Exit, UserInterrupts, ProbeLms, PrepareInitialMessage, DialRps, StartSession, TakeMessage,
         TakeClosed, TakeInterrupt, AnswerHeartbeat, ConnectLms, SendLms,
         ReceiveFromLms, Forward, HangUp, CloseChannels, CleanUp
    <2>5. cur' \in Nat /\ cur' <= nread' BY <1>0, <2>2 DEF LinkTypeOK, MainTypeOK
    <2>6. data' \in Seq(Part) BY <1>0, <2>3 DEF LmsTypeOK, MainTypeOK
    <2>7. interrupt' \in BOOLEAN /\ chClosed' \in BOOLEAN BY <1>0, <2>4 DEF MainTypeOK
    <2> QED BY <1>0, <2>1, <2>4, <2>5, <2>6, <2>7 DEF MainTypeOK
  <1> QED BY <1>1, <1>2, <1>3, <1>4, MainCases

(* Every reachable state is well typed; this is the run's invariant TypeOK.  *)
THEOREM TypeCorrect == Spec => []TypeOK
  <1>1. TypeOK /\ [Next]_vars => TypeOK'
    BY LinkTypeStep, MainTypeStep, LmsTypeStep DEF TypeOK
  <1> QED BY TypeInit, <1>1, PTL DEF Spec

-----------------------------------------------------------------------------
(* The inductive invariant holds at first and is kept, conjunct by conjunct. *)

LEMMA IInvInit == Init => IInv
  <1> SUFFICES ASSUME Init PROVE IInv
    OBVIOUS
  <1>1. TypeOK BY TypeInit
  <1>2. ReaderInv BY DEF Init, MainInit, LinkInit, ReaderInv
  <1>3. HandlingInv /\ FreshInv BY Sockets DEF Init, MainInit, HandlingInv, Handling, FreshInv, Fresh
  <1>4. SocketInv /\ ListenerInv BY DEF Init, MainInit, SocketInv, ListenerInv, Live
  <1>5. BufferInv
    <2>1. \A i : Answer(i, 0) = <<>> BY DEF Answer
    <2> QED BY <2>1, Sockets DEF Init, MainInit, BufferInv
  <1>6. sent = <<>> /\ DOMAIN sent = {} BY DEF Init, MainInit, LinkInit
  <1>7. SentInv /\ OwnAnswers BY <1>6 DEF SentInv, OwnAnswers, IsResponse
  <1> QED BY <1>1, <1>2, <1>3, <1>4, <1>5, <1>7 DEF IInv

LEMMA ReaderStepInv == ASSUME IInv, [Next]_vars PROVE ReaderInv'
  <1>0. ReaderInv /\ cur \in Nat /\ nread \in Nat BY DEF IInv, TypeOK, MainTypeOK, LinkTypeOK
  <1>1. CASE TakeMessage BY <1>0, <1>1 DEF TakeMessage, ReaderInv
  <1>2. CASE LinkOnly
    BY <1>0, <1>2 DEF LinkOnly, LinkBreaks, ReadMessage, ReadFails, RpsSends, ReaderInv, mainVars
  <1>3. CASE StartSession BY <1>0, <1>3 DEF StartSession, ListenToRps, ReaderInv
  <1>4. CASE UNCHANGED <<nread, reader, cur>> BY <1>0, <1>4 DEF ReaderInv
  <1> QED BY <1>1, <1>2, <1>3, <1>4, CurMoves

LEMMA HandlingStepInv == ASSUME IInv, [Next]_vars PROVE HandlingInv'
  <1>1. CASE TakeMessage
    <2>1. cur' = nread /\ nread = cur + 1
      BY <1>1 DEF TakeMessage, IInv, ReaderInv
    <2>2. cur' \in MsgId
      BY <2>1 DEF IInv, TypeOK, MainTypeOK, LinkTypeOK, MsgId
    <2> QED BY <2>2 DEF HandlingInv
  <1>2. CASE cur' = cur /\ (main' \in Handling => main \in Handling)
    BY <1>2 DEF IInv, HandlingInv
  <1> QED BY <1>1, <1>2, CurMoves

LEMMA FreshStepInv == ASSUME IInv, [Next]_vars PROVE FreshInv'
  <1>0. LmsTypeOK /\ FreshInv /\ cur \in Nat BY DEF IInv, TypeOK, MainTypeOK
  <1>1. \A l \in MsgId : Fresh(l)' => Fresh(l)
    <2>1. CASE TakeMessage
      <3>1. cur' = cur + 1 BY <2>1 DEF TakeMessage, IInv, ReaderInv
      <3> QED BY <1>0, <3>1 DEF Fresh, MsgId
    <2>2. CASE cur' = cur /\ (main' = "connect" => main = "connect") BY <2>2 DEF Fresh
    <2> QED BY <2>1, <2>2, CurMoves
  <1>2. CASE UNCHANGED lmsVars BY <1>0, <1>1, <1>2 DEF FreshInv, lmsVars
  <1>7. CASE ProbeLms
    <2>1. \A l \in MsgId : l # Probe BY DEF MsgId, Probe
    <2> QED BY <1>0, <1>1, <1>7, <2>1, Sockets DEF ProbeLms, FreshInv, LmsTypeOK
  <1>3. CASE ConnectLms
    <2>1. \A l \in MsgId : Fresh(l)' => l # cur BY <1>0, <1>3 DEF ConnectLms, Fresh
    <2> QED BY <1>0, <1>1, <1>3, <2>1, Sockets DEF ConnectLms, FreshInv, LmsTypeOK
  <1>4. CASE SendLms
    <2>1. sock[conn] = "open" => ~Fresh(conn)
      <3>1. main = "send" /\ SocketInv /\ conn \in SockId
        BY <1>0, <1>4 DEF SendLms, IInv, SocketInv, LmsTypeOK, SockId, Probe
      <3>2. sock[conn] = "open" => conn = cur BY <3>1 DEF SocketInv
      <3> QED BY <1>0, <3>1, <3>2 DEF Fresh
    <2> QED BY <1>0, <1>1, <1>4, <2>1, Sockets DEF SendLms, FreshInv, LmsTypeOK
  <1>5. CASE HangUp \/ CleanUp
    <2>1. CloseLms /\ UNCHANGED <<req, nxt, lst, on, buf>> BY <1>5 DEF HangUp, CleanUp
    <2>2. conn \in MsgId => ~Fresh(conn)
      BY <1>0, Sockets DEF IInv, SocketInv, FreshInv
    <2> QED BY <1>0, <1>1, <2>1, <2>2, Sockets DEF CloseLms, FreshInv, LmsTypeOK
  <1>6. ASSUME NEW l \in MsgId, ReceiveFromLms(l) \/ Listening(l) PROVE FreshInv'
    <2>1. lst[l] # "none" /\ UNCHANGED <<sock, req>>
      BY <1>6 DEF ReceiveFromLms, Listening, ListenStart, ListenCall, ListenRead, ListenBreak
    <2>2. ~Fresh(l) BY <1>0, <2>1 DEF FreshInv
    <2>3. \A k \in MsgId : k # l => lst'[k] = lst[k] /\ buf'[k] = buf[k]
      BY <1>0, <1>6 DEF ReceiveFromLms, Listening, ListenStart, ListenCall, ListenRead, ListenBreak, LmsTypeOK
    <2>4. \A k \in MsgId : Fresh(k) => nxt'[k] = nxt[k]
      <3>1. CASE nxt' = nxt BY <3>1
      <3>2. CASE ListenRead(l)
        BY <1>0, <3>2 DEF ListenRead, LmsTypeOK, FreshInv
      <3> QED BY <1>6, <3>1, <3>2 DEF ReceiveFromLms, Listening, ListenStart, ListenCall, ListenBreak
    <2> QED BY <1>0, <1>1, <2>1, <2>2, <2>3, <2>4 DEF FreshInv
  <1> QED BY <1>2, <1>3, <1>4, <1>5, <1>6, <1>7, LmsCases

LEMMA ListenerStepInv == ASSUME IInv, [Next]_vars PROVE ListenerInv'
  <1>0. LmsTypeOK /\ ListenerInv /\ cur \in Nat BY DEF IInv, TypeOK, MainTypeOK
  <1>1. CASE TakeMessage /\ UNCHANGED lmsVars BY <1>0, <1>1 DEF TakeMessage, Goto, ListenerInv, Live, Resting, lmsVars
  <1>2. CASE ConnectLms BY <1>0, <1>2 DEF ConnectLms, ListenerInv, Live, Resting, LmsTypeOK
  <1>3. ASSUME NEW l \in MsgId, ReceiveFromLms(l) PROVE ListenerInv'
    BY <1>0, <1>3 DEF ReceiveFromLms, Goto, ListenerInv, Live, Resting, LmsTypeOK
  <1>4. ASSUME NEW l \in MsgId, Listening(l) PROVE ListenerInv'
    BY <1>0, <1>4 DEF Listening, ListenStart, ListenCall, ListenRead, ListenBreak, mainVars,
       ListenerInv, Live, Resting, LmsTypeOK
  <1>5. CASE UNCHANGED <<lst, cur>> /\ (main' \in Resting \cup {"forward", "hangup"} => main \in Resting \cup {"forward", "hangup"})
    BY <1>0, <1>5 DEF ListenerInv, Live
  <1> QED BY <1>1, <1>2, <1>3, <1>4, <1>5, ListenerMoves

LEMMA SocketStepInv == ASSUME IInv, [Next]_vars PROVE SocketInv'
  <1>0. /\ LmsTypeOK /\ SocketInv /\ FreshInv /\ HandlingInv
        /\ cur \in Nat
    BY DEF IInv, TypeOK, MainTypeOK
  <1>1. CASE TakeMessage /\ UNCHANGED lmsVars
    BY <1>0, <1>1 DEF TakeMessage, AfterProcessMessage, Goto, SocketInv, WithSocket, lmsVars
  <1>2. CASE ConnectLms
    <2>1. cur \in MsgId /\ cur \in SockId /\ cur # 0 /\ Fresh(cur) BY Sockets, <1>0, <1>2 DEF ConnectLms, HandlingInv, Handling, Fresh
    <2>2. \A s \in SockId : sock[s] # "open" BY <1>0, <1>2 DEF ConnectLms, SocketInv, WithSocket
    <2>3. \A s \in SockId : sock'[s] = "open" => s = conn' /\ s = cur' /\ main' \in WithSocket
      BY <1>0, <1>2, <2>1, <2>2 DEF ConnectLms, LmsTypeOK, WithSocket
    <2>4. conn' # 0 => sock'[conn'] # "none"
      BY <1>0, <1>2, <2>1 DEF ConnectLms, LmsTypeOK, SocketInv
    <2>5. main' = "send" => conn' # 0
      BY <1>0, <1>2, <2>1 DEF ConnectLms
    <2> QED BY <1>0, <1>2, <2>3, <2>4, <2>5 DEF ConnectLms, SocketInv
  <1>6. CASE ProbeLms
    <2>1. Probe \in SockId BY DEF SockId, Probe
    <2>2. \A s \in SockId : sock[s] # "open" BY <1>0, <1>6 DEF ProbeLms, SocketInv, WithSocket
    <2>3. \A s \in SockId : sock'[s] # "open" BY <1>0, <1>6, <2>1, <2>2 DEF ProbeLms, LmsTypeOK
    <2>4. conn' # 0 => sock'[conn'] # "none" BY <1>0, <1>6, <2>1 DEF ProbeLms, LmsTypeOK, SocketInv
    <2> QED BY <1>0, <1>6, <2>3, <2>4 DEF ProbeLms, SocketInv
  <1>3. CASE SendLms
    <2>1. sock[conn] = "open" => conn = cur
      <3>1. conn \in SockId BY <1>0, <1>3 DEF SendLms, SocketInv, LmsTypeOK, SockId, Probe
      <3> QED BY <1>0, <3>1 DEF SocketInv
    <2>2. \A s \in SockId : req'[s] \in {0, s} BY <1>0, <1>3, <2>1 DEF SendLms, SocketInv, LmsTypeOK
    <2> QED BY <1>0, <1>3, <2>2 DEF SendLms, SocketInv, WithSocket
  <1>4. CASE HangUp \/ CleanUp
    <2>1. CloseLms /\ req' = req /\ main' # "send" BY <1>4 DEF HangUp, CleanUp, Goto
    <2>2. 0 \notin SockId /\ (conn # 0 => conn \in SockId) BY <1>0 DEF LmsTypeOK, SockId, Probe
    <2>3. \A s \in SockId : sock[s] = "open" => s = conn BY <1>0 DEF SocketInv
    <2>4. sock' = IF conn = 0 THEN sock ELSE [sock EXCEPT ![conn] = "shut"]
      BY <2>1 DEF CloseLms
    <2>5. \A s \in SockId : sock'[s] # "open" BY <1>0, <2>2, <2>3, <2>4 DEF LmsTypeOK
    <2>6. conn' # 0 => sock'[conn'] # "none"
      <3>1. conn' # 0 => conn' = conn BY <2>1 DEF CloseLms
      <3> QED BY <1>0, <2>2, <2>4, <3>1 DEF LmsTypeOK
    <2> QED BY <1>0, <2>1, <2>5, <2>6 DEF SocketInv
  <1>5. CASE /\ UNCHANGED <<conn, sock, req, cur>>
             /\ main' = "send" => main = "send"
             /\ main \in WithSocket => main' \in WithSocket
    BY <1>0, <1>5 DEF SocketInv
  <1> QED BY <1>1, <1>2, <1>3, <1>4, <1>5, <1>6, SocketMoves

LEMMA BufferStepInv == ASSUME IInv, [Next]_vars PROVE BufferInv'
  <1>0. /\ LmsTypeOK /\ BufferInv /\ ListenerInv /\ SocketInv /\ FreshInv
        /\ cur \in Nat
    BY DEF IInv, TypeOK, MainTypeOK
  <1>1. ASSUME NEW l \in MsgId, ReceiveFromLms(l) PROVE BufferInv'
    <2>1. l = cur BY <1>0, <1>1 DEF ReceiveFromLms, ListenerInv, Live
    <2> QED BY <1>0, <1>1, <2>1 DEF ReceiveFromLms, BufferInv
  <1>2. ASSUME NEW l \in MsgId, ListenRead(l) PROVE BufferInv'
    <2>1. on[l] = l
      <3>1. on[l] \in SockId /\ sock[on[l]] = "open" BY <1>0, <1>2 DEF ListenRead, LmsTypeOK
      <3>2. l = cur BY <1>0, <1>2 DEF ListenRead, ListenerInv, Live
      <3> QED BY <1>0, <3>1, <3>2 DEF SocketInv
    <2>2. req[l] = l /\ nxt[l] \in 0..Parts /\ nxt[l] < Parts
      BY <1>0, <1>2, <2>1 DEF ListenRead, SocketInv, LmsTypeOK
    <2>3. Append(Answer(l, nxt[l]), <<l, nxt[l] + 1>>) = Answer(l, nxt[l] + 1)
      BY <2>2, AnswerExtends
    <2>4. nxt' = [nxt EXCEPT ![l] = nxt[l] + 1] /\ buf' = [buf EXCEPT ![l] = Append(buf[l], <<l, nxt[l] + 1>>)]
      BY <1>2, <2>1, <2>2 DEF ListenRead
    <2>5. \A k \in MsgId : buf'[k] = Answer(k, nxt'[k])
      BY <1>0, <2>3, <2>4, Sockets DEF BufferInv, LmsTypeOK
    <2>6. main' # "forward"
      BY <1>0, <1>2 DEF ListenRead, ListenerInv, Live, mainVars
    <2> QED BY <2>5, <2>6 DEF BufferInv
  <1>3. CASE UNCHANGED <<buf, nxt, cur, data>> /\ (main' = "forward" => main = "forward")
    BY <1>0, <1>3 DEF BufferInv
  <1>4. CASE TakeMessage /\ UNCHANGED lmsVars
    BY <1>0, <1>4 DEF TakeMessage, AfterProcessMessage, Goto, BufferInv, lmsVars
  <1> QED BY <1>1, <1>2, <1>3, <1>4, BufferMoves

\* What a step appends to sent is one of the three shapes, and typed.
LEMMA SentTyped ==
    ASSUME IInv, [Next]_vars, NEW m, m \in {InitialMessage, HeartbeatResponse(cur), Response(cur, data)}
    PROVE  m \in Messages
  <1>1. cur \in Nat /\ data \in Seq(Part) /\ <<>> \in Seq(Part) BY DEF IInv, TypeOK, MainTypeOK
  <1>2. \A k \in {"initial", "heartbeat", "response"}, n \in Nat, b \in Seq(Part) :
          [kind |-> k, of |-> n, body |-> b] \in Messages
    BY DEF Messages
  <1> QED BY <1>1, <1>2 DEF InitialMessage, HeartbeatResponse, Response

LEMMA SentStepInv == ASSUME IInv, [Next]_vars PROVE SentInv'
  <1>0. SentInv /\ OwnAnswers /\ cur \in Nat BY DEF IInv, TypeOK, MainTypeOK
  <1>1. CASE TakeMessage
    <2>1. cur' = cur + 1 /\ sent' = sent BY <1>1 DEF TakeMessage, IInv, ReaderInv
    <2>2. \A i \in DOMAIN sent : IsResponse(i) => sent[i].of < cur + 1
      BY <1>0 DEF OwnAnswers
    <2> QED BY <1>0, <2>1, <2>2 DEF SentInv, IsResponse
  <1>2. CASE sent' = sent /\ cur' = cur /\ (main' \in Unanswered => main \in Unanswered)
    BY <1>0, <1>2 DEF SentInv, IsResponse
  <1>3. ASSUME NEW m, Sends(m) PROVE SentInv'
    <2>1. m \in Messages BY <1>3, SentTyped DEF Sends
    <2> QED BY <1>0, <1>3, <2>1 DEF Sends, SentInv
  <1> QED BY <1>1, <1>2, <1>3, SentMoves

LEMMA OwnAnswersStepInv == ASSUME IInv, [Next]_vars PROVE OwnAnswers'
  <1>0. SentInv /\ OwnAnswers /\ BufferInv /\ HandlingInv /\ LmsTypeOK /\ cur \in Nat
    BY DEF IInv, TypeOK, MainTypeOK
  <1>1. CASE sent' = sent /\ cur' \in {cur, cur + 1}
    BY <1>0, <1>1 DEF OwnAnswers, IsResponse
  <1>2. ASSUME NEW m, Sends(m) PROVE OwnAnswers'
    <2>1. m \in Messages /\ sent' = Append(sent, m) /\ cur' = cur BY <1>2, SentTyped DEF Sends
    <2>2. DOMAIN sent' = DOMAIN sent \cup {Len(sent) + 1} /\ sent'[Len(sent) + 1] = m
          /\ \A i \in DOMAIN sent : sent'[i] = sent[i] /\ i < Len(sent) + 1
      BY <1>0, <2>1 DEF SentInv
    <2>3. CASE m.kind # "response"
      BY <1>0, <2>1, <2>2, <2>3 DEF OwnAnswers, IsResponse
    <2>4. CASE m.kind = "response"
      <3>1. main = "forward" /\ data # <<>> /\ m = Response(cur, data)
        BY <1>2, <2>4 DEF Sends, InitialMessage, HeartbeatResponse
      <3>2. m.of = cur /\ m.body = data BY <3>1 DEF Response
      <3>3. data = Answer(cur, nxt[cur]) /\ cur \in MsgId BY <1>0, <3>1 DEF BufferInv, HandlingInv, Handling
      <3>4. Len(data) = nxt[cur] BY <1>0, <3>3, AnswerExtends, Sockets DEF LmsTypeOK
      <3>5. cur \in 1..cur BY <3>3 DEF MsgId
      <3>6. \A i \in DOMAIN sent : IsResponse(i) => sent[i].of < cur
        BY <1>0, <3>1 DEF SentInv, Unanswered
      <3>7. \A i \in DOMAIN sent' : IsResponse(i)' =>
              /\ sent'[i].of \in 1..cur' /\ sent'[i].body # <<>>
              /\ sent'[i].body = Answer(sent'[i].of, Len(sent'[i].body))
        BY <1>0, <2>1, <2>2, <3>1, <3>2, <3>3, <3>4, <3>5 DEF OwnAnswers, IsResponse
      <3>8. \A i, j \in DOMAIN sent' : i < j /\ IsResponse(i)' /\ IsResponse(j)' => sent'[i].of < sent'[j].of
        <4> SUFFICES ASSUME NEW i \in DOMAIN sent', NEW j \in DOMAIN sent', i < j, IsResponse(i)', IsResponse(j)'
                     PROVE  sent'[i].of < sent'[j].of
          OBVIOUS
        <4>1. i \in DOMAIN sent /\ IsResponse(i)
          BY <1>0, <2>2 DEF IsResponse, SentInv
        <4>2. CASE j \in DOMAIN sent BY <1>0, <2>2, <4>1, <4>2 DEF OwnAnswers, IsResponse
        <4>3. CASE j = Len(sent) + 1 BY <2>2, <3>2, <3>6, <4>1, <4>3
        <4> QED BY <2>2, <4>2, <4>3
      <3> QED BY <3>7, <3>8 DEF OwnAnswers
    <2> QED BY <2>3, <2>4
  <1>3. CASE TakeMessage
    <2>1. cur' = cur + 1 /\ sent' = sent BY <1>3 DEF TakeMessage, IInv, ReaderInv
    <2> QED BY <1>1, <2>1
  <1> QED BY <1>1, <1>2, <1>3, SentMoves

-----------------------------------------------------------------------------
(* While the handler waits, its listener is there.                           *)

WaitInv ==
    /\ main \in {"send", "wait"} => Live(cur) /\ conn # 0 /\ (lst[cur] = "blocked" => on[cur] = conn)
    /\ main = "wait" => conn = cur /\ sock[cur] = "open" /\ req[cur] = cur

\* Which steps touch what the handler waits for.
LEMMA WaitMoves ==
    ASSUME [Next]_vars
    PROVE  \/ ConnectLms \/ SendLms \/ \E l \in MsgId : Listening(l)
           \/ main' \notin {"send", "wait"}
           \/ UNCHANGED <<main, cur, conn, sock, req, lst, on>>
  <1>1. CASE OwnStep
    BY <1>1 DEF OwnStep, MainStep, SessionStep, Exit, UserInterrupts, ProbeLms, PrepareInitialMessage, DialRps, StartSession,
       TakeMessage, AfterProcessMessage, TakeClosed, TakeInterrupt, AnswerHeartbeat, ReceiveFromLms, Forward, HangUp,
       CloseChannels, CleanUp, Goto, lmsVars
  <1> QED BY <1>1, MainCases
    DEF vars, LinkOnly, ListenerStep, Listening, ListenSendFails, mainVars, lmsVars

LEMMA WaitStep == ASSUME IInv, WaitInv, [Next]_vars PROVE WaitInv'
  <1>0. /\ LmsTypeOK /\ SocketInv /\ ListenerInv
        /\ main \in Handling => cur \in MsgId
    BY DEF IInv, TypeOK, HandlingInv
  <1>1. CASE ConnectLms
    <2>1. cur \in MsgId /\ cur # 0 BY <1>0, <1>1, Sockets DEF ConnectLms, Handling
    <2>2. main' = "send" => conn' # 0 BY <1>1, <2>1 DEF ConnectLms
    <2>3. lst'[cur] = "spawned" /\ cur' = cur /\ main' # "wait" BY <1>0, <1>1, <2>1 DEF ConnectLms, LmsTypeOK
    <2> QED BY <2>2, <2>3 DEF WaitInv, Live
  <1>2. CASE SendLms
    <2>1. cur \in MsgId /\ conn \in SockId /\ main = "send"
      BY <1>0, <1>2 DEF SendLms, Handling, SocketInv, LmsTypeOK, SockId, Probe
    <2>2. main' = "wait" => sock[conn] = "open" /\ req' = [req EXCEPT ![conn] = cur] BY <1>2 DEF SendLms
    <2>3. sock[conn] = "open" => conn = cur BY <1>0, <2>1 DEF SocketInv
    <2>4. main' # "send" /\ UNCHANGED <<conn, sock, lst, on, cur>> BY <1>2 DEF SendLms
    <2> QED BY <1>0, <2>1, <2>2, <2>3, <2>4 DEF WaitInv, Live, LmsTypeOK
  <1>3. ASSUME NEW l \in MsgId, Listening(l) PROVE WaitInv'
    <2>1. UNCHANGED <<main, cur, conn, sock, req>> /\ l = cur
      BY <1>0, <1>3 DEF Listening, ListenStart, ListenCall, ListenRead, ListenBreak, mainVars, ListenerInv, Live
    <2>2. main \in {"send", "wait"} => Live(cur)' /\ (lst'[cur] = "blocked" => on'[cur] = conn)
      BY <1>0, <1>3, <2>1 DEF Listening, ListenStart, ListenCall, ListenRead, ListenBreak, WaitInv, Live, LmsTypeOK
    <2> QED BY <2>1, <2>2 DEF WaitInv
  <1>4. CASE main' \notin {"send", "wait"} BY <1>4 DEF WaitInv
  <1>5. CASE UNCHANGED <<main, cur, conn, sock, req, lst, on>> BY <1>5 DEF WaitInv, Live
  <1> QED BY <1>1, <1>2, <1>3, <1>4, <1>5, WaitMoves

-----------------------------------------------------------------------------
(* No message is passed over.                                                *)

InSent(m) == \E j \in DOMAIN sent : sent[j] = m
Answered(i) ==
    /\ asked[i] = "heartbeat" => InSent(HeartbeatResponse(i))
    /\ asked[i] = "request" /\ buf[i] # <<>> => InSent(Response(i, buf[i]))
TurnInv ==
    /\ main \in {"prepare", "probe", "dial", "start"} => cur = 0
    /\ main \in {"connect", "send", "wait", "forward", "hangup", "abort"} => asked[cur] = "request"
    /\ main = "heartbeat" => asked[cur] = "heartbeat"
    /\ ws = "open" => \A i \in MsgId : Handled(i) => Answered(i)

\* What RPS has received stays received.
LEMMA SentStays == ASSUME IInv, [Next]_vars PROVE \A m : InSent(m) => InSent(m)'
  <1>1. sent \in Seq(Messages) BY DEF IInv, SentInv
  <1>2. sent' = sent \/ \E m : sent' = Append(sent, m) BY SentMoves DEF TakeMessage, Sends
  <1>3. \A j \in DOMAIN sent : j \in DOMAIN sent' /\ sent'[j] = sent[j] BY <1>1, <1>2
  <1> QED BY <1>3 DEF InSent

\* What the main goroutine has taken is what RPS sent.
LEMMA AskedStays ==
    ASSUME IInv, [Next]_vars, NEW i \in 1..cur
    PROVE  asked'[i] = asked[i]
  <1>1. asked \in Seq(Kinds) /\ nread \in Nat /\ nread <= Len(asked) /\ cur \in Nat /\ cur <= nread
    BY DEF IInv, TypeOK, LinkTypeOK, MainTypeOK
  <1>2. asked' = asked \/ LinkOnly
    BY LinkCases DEF linkVars, DialRps, StartSession, TakeMessage, TakeInterrupt, AnswerHeartbeat, Forward
  <1>3. CASE LinkOnly
    <2>1. CASE \E k \in Kinds : RpsSends(k)
      BY <1>1, <2>1 DEF RpsSends
    <2>2. CASE LinkBreaks
      <3>1. PICK n \in nread..Len(asked) : asked' = SubSeq(asked, 1, n) BY <2>2 DEF LinkBreaks
      <3> QED BY <1>1, <3>1
    <2> QED BY <1>3, <2>1, <2>2 DEF LinkOnly, ReadMessage, ReadFails
  <1> QED BY <1>2, <1>3

\* A message becomes handled when its answer is sent or dropped, or by starting.
LEMMA HandledMoves ==
    ASSUME IInv, [Next]_vars, NEW i \in MsgId, Handled(i)'
    PROVE  Handled(i) \/ StartSession \/ (i = cur /\ (AnswerHeartbeat \/ Forward))
  <1>0. cur \in Nat BY DEF IInv, TypeOK, MainTypeOK
  <1>1. i \in 1..cur' /\ (i = cur' => main' \in {"hangup", "select"}) BY DEF Handled
  <1>2. CASE TakeMessage
    <2>1. cur' = cur + 1 /\ main = "select" /\ main' \notin {"hangup", "select"}
      BY <1>2 DEF TakeMessage, AfterProcessMessage, Goto, IInv, ReaderInv
    <2> QED BY <1>0, <1>1, <2>1 DEF Handled
  <1>3. main' \in {"hangup", "select"} =>
          main \in {"hangup", "select"} \/ StartSession \/ AnswerHeartbeat \/ Forward
    <2>1. CASE OwnStep
      BY <2>1 DEF OwnStep, MainStep, SessionStep, Exit, UserInterrupts, ProbeLms, PrepareInitialMessage, DialRps,
         TakeMessage, AfterProcessMessage, TakeClosed, TakeInterrupt, ConnectLms, SendLms, ReceiveFromLms, HangUp,
         CloseChannels, CleanUp, Goto
    <2> QED BY <2>1, MainCases DEF vars, LinkOnly, mainVars
  <1>4. CASE cur' = cur BY <1>0, <1>1, <1>3, <1>4 DEF Handled
  <1> QED BY <1>2, <1>4, CurMoves

\* The link, once lost or closed, does not come back.
LEMMA LinkStays ==
    ASSUME [Next]_vars, ws' = "open"
    PROVE  ws = "open" \/ (DialRps /\ cur' = cur /\ main = "dial")
  BY LinkCases DEF linkVars, LinkOnly, LinkBreaks, ReadMessage, ReadFails, RpsSends, DialRps, Goto,
     StartSession, TakeMessage, TakeInterrupt, Disconnect, AnswerHeartbeat, Forward

\* No listener reads on for a message that was handled.
LEMMA BufferStays ==
    ASSUME IInv, [Next]_vars, NEW i \in MsgId, Handled(i)
    PROVE  buf'[i] = buf[i]
  <1>0. LmsTypeOK /\ ListenerInv /\ cur \in Nat BY DEF IInv, TypeOK, MainTypeOK
  <1>1. CASE buf' = buf BY <1>1
  <1>2. ASSUME NEW l \in MsgId, ListenRead(l) PROVE buf'[i] = buf[i]
    <2>1. l # i
      BY <1>0, <1>2 DEF ListenRead, ListenerInv, Live, Handled, Resting
    <2> QED BY <1>0, <1>2, <2>1 DEF ListenRead, LmsTypeOK
  <1>3. CASE \E l \in MsgId : ReceiveFromLms(l) BY <1>1, <1>3 DEF ReceiveFromLms
  <1> QED BY <1>1, <1>2, <1>3, BufferMoves DEF lmsVars

\* Where the current message's kind is known.
LEMMA PlaceStep == ASSUME IInv, TurnInv, [Next]_vars PROVE
    /\ main' \in {"prepare", "probe", "dial", "start"} => cur' = 0
    /\ main' \in {"connect", "send", "wait", "forward", "hangup", "abort"} => asked'[cur'] = "request"
    /\ main' = "heartbeat" => asked'[cur'] = "heartbeat"
  <1>0. cur \in Nat /\ HandlingInv BY DEF IInv, TypeOK, MainTypeOK
  <1>1. CASE TakeMessage
    BY <1>1 DEF TakeMessage, AfterProcessMessage, Goto
  <1>2. CASE ~TakeMessage
    <2>1. /\ cur' = cur /\ (main' \in Handling => main \in Handling)
      BY <1>2, CurMoves
    <2>2. main' \in Handling => asked'[cur] = asked[cur]
      BY <1>0, <2>1, AskedStays DEF HandlingInv, MsgId
    <2>3. /\ main' \in {"prepare", "probe", "dial", "start"} => main \in {"prepare", "probe", "dial", "start"}
          /\ main' \in {"connect", "send", "wait", "forward", "hangup", "abort"} =>
               main \in {"connect", "send", "wait", "forward", "hangup", "abort"}
          /\ main' = "heartbeat" => main = "heartbeat"
      <3>1. CASE OwnStep
        BY <1>2, <3>1 DEF OwnStep, MainStep, SessionStep, Exit, UserInterrupts, ProbeLms, PrepareInitialMessage, DialRps,
           StartSession, TakeClosed, TakeInterrupt, AnswerHeartbeat, ConnectLms, SendLms, ReceiveFromLms, Forward, HangUp,
           CloseChannels, CleanUp, Goto
      <3> QED BY <3>1, MainCases DEF vars, LinkOnly, mainVars
    <2> QED BY <2>1, <2>2, <2>3 DEF TurnInv, Handling
  <1> QED BY <1>1, <1>2

\* The answer that handling a message gives it.
LEMMA AnswerGiven ==
    ASSUME IInv, TurnInv, [Next]_vars, ws' = "open", AnswerHeartbeat \/ Forward, cur \in MsgId
    PROVE  Answered(cur)'
  <1>0. /\ sent \in Seq(Messages) /\ LmsTypeOK /\ BufferInv /\ cur \in Nat /\ cur \in 1..cur
    BY DEF IInv, SentInv, TypeOK, MainTypeOK, MsgId
  <1>1. asked'[cur] = asked[cur] /\ cur' = cur /\ ws = "open"
    <2>1. asked'[cur] = asked[cur] BY <1>0, AskedStays
    <2> QED BY <2>1 DEF AnswerHeartbeat, Forward
  <1>2. CASE AnswerHeartbeat
    <2>1. asked[cur] = "heartbeat" BY <1>2 DEF AnswerHeartbeat, Goto, TurnInv
    <2>2. sent' = Append(sent, HeartbeatResponse(cur)) BY <1>1, <1>2 DEF AnswerHeartbeat, Write
    <2>3. InSent(HeartbeatResponse(cur))' BY <1>0, <1>1, <2>2 DEF InSent, HeartbeatResponse
    <2> QED BY <1>1, <2>1, <2>3 DEF Answered
  <1>3. CASE Forward
    <2>1. asked[cur] = "request" /\ main = "forward" BY <1>3 DEF Forward, Goto, TurnInv
    <2>2. data = buf[cur] BY <1>0, <2>1 DEF BufferInv
    <2>3. UNCHANGED buf
      BY <1>3, <2>1, BufferMoves DEF Forward, Goto, TakeMessage, ReceiveFromLms, ListenRead, lmsVars, mainVars
    <2>4. data # <<>> => sent' = Append(sent, Response(cur, data)) BY <1>1, <1>3 DEF Forward, Write
    <2>5. data # <<>> => \E j \in DOMAIN sent' : sent'[j] = Response(cur, data)
      BY <1>0, <2>4
    <2>6. buf'[cur'] # <<>> => InSent(Response(cur, buf[cur]))'
      BY <1>1, <2>2, <2>3, <2>5 DEF InSent, Response
    <2> QED BY <1>1, <2>1, <2>3, <2>6 DEF Answered
  <1> QED BY <1>2, <1>3

LEMMA TurnStep == ASSUME IInv, TurnInv, [Next]_vars PROVE TurnInv'
  <1>0. cur \in Nat BY DEF IInv, TypeOK, MainTypeOK
  <1>1. ASSUME ws' = "open", NEW i \in MsgId, Handled(i)' PROVE Answered(i)'
    <2>1. CASE Handled(i)
      <3>1. i \in 1..cur BY <2>1 DEF Handled
      <3>2. ws = "open"
        <4>1. main = "dial" => cur = 0 BY DEF TurnInv
        <4> QED BY <1>1, <3>1, <4>1, LinkStays
      <3>3. Answered(i) BY <2>1, <3>2 DEF TurnInv
      <3>4. asked'[i] = asked[i] /\ buf'[i] = buf[i] BY <2>1, <3>1, AskedStays, BufferStays
      <3>5. asked'[i] = "heartbeat" => InSent(HeartbeatResponse(i))'
        <4>1. asked[i] = "heartbeat" => InSent(HeartbeatResponse(i)) BY <3>3 DEF Answered
        <4>2. PICK m : m = HeartbeatResponse(i) OBVIOUS
        <4>3. InSent(m) => InSent(m)' BY SentStays
        <4> QED BY <3>4, <4>1, <4>2, <4>3 DEF HeartbeatResponse
      <3>6. asked'[i] = "request" /\ buf'[i] # <<>> => InSent(Response(i, buf[i]))'
        <4>1. asked[i] = "request" /\ buf[i] # <<>> => InSent(Response(i, buf[i])) BY <3>3 DEF Answered
        <4>2. PICK b : b = buf[i] OBVIOUS
        <4>3. PICK m : m = Response(i, b) OBVIOUS
        <4>4. InSent(m) => InSent(m)' BY SentStays
        <4>5. b = buf'[i] BY <3>4, <4>2
        <4> QED BY <3>4, <4>1, <4>2, <4>3, <4>4, <4>5 DEF Response
      <3> QED BY <3>5, <3>6 DEF Answered
    <2>2. CASE StartSession
      <3>1. cur = 0 /\ cur' = cur BY <2>2 DEF StartSession, Goto, TurnInv
      <3> QED BY <1>1, <3>1 DEF Handled
    <2>3. CASE i = cur /\ (AnswerHeartbeat \/ Forward)
      <3>1. Answered(cur)' /\ cur' = cur BY <1>1, <2>3, AnswerGiven DEF AnswerHeartbeat, Forward
      <3> QED BY <2>3, <3>1 DEF Answered
    <2> QED BY <1>1, <2>1, <2>2, <2>3, HandledMoves
  <1> QED BY <1>1, PlaceStep DEF TurnInv

-----------------------------------------------------------------------------
(* The theorems. *)

LEMMA IInvStep == IInv /\ [Next]_vars => IInv'
  <1> SUFFICES ASSUME IInv, [Next]_vars PROVE IInv'
    OBVIOUS
  <1>1. TypeOK' BY LinkTypeStep, MainTypeStep, LmsTypeStep DEF IInv, TypeOK
  <1>2. ReaderInv' /\ HandlingInv' /\ FreshInv' BY ReaderStepInv, HandlingStepInv, FreshStepInv
  <1>3. SocketInv' /\ ListenerInv' /\ BufferInv' BY SocketStepInv, ListenerStepInv, BufferStepInv
  <1>4. SentInv' /\ OwnAnswers' BY SentStepInv, OwnAnswersStepInv
  <1> QED BY <1>1, <1>2, <1>3, <1>4 DEF IInv

THEOREM Inductive == Spec => []IInv
  BY IInvInit, IInvStep, PTL DEF Spec

(* No goroutine of an earlier request is left when the next one is taken     *)
(* (the open-and-close on every request of executor.go:160), and the wait on *)
(* e.data (executor.go:176) is always for a listener that can end.           *)
THEOREM ListenerIsOne == Spec => []OneListener
  <1>1. Init => WaitInv BY DEF Init, MainInit, WaitInv
  <1>2. IInv /\ WaitInv /\ [Next]_vars => WaitInv'
    BY WaitStep
  <1>3. IInv /\ WaitInv => OneListener
    BY DEF IInv, ListenerInv, WaitInv, Live, OneListener
  <1> QED BY <1>1, <1>2, <1>3, Inductive, PTL DEF Spec

(* RPS gets, for each of its requests, AMT's answer to that one, in order.   *)
THEOREM AnswersAreOwn == Spec => []OwnAnswers
  <1>1. IInv => OwnAnswers BY DEF IInv
  <1> QED BY <1>1, Inductive, PTL

(* While the link to RPS is up, whatever LMS does, each heartbeat and each   *)
(* request that was handled has been answered: the main goroutine reaches    *)
(* its select again (executor.go:125) only after it has sent all that the    *)
(* listener of that request read.                                            *)
THEOREM NoneIsPassedOver == Spec => []AnsweredInTurn
  <1>1. Init => TurnInv BY DEF Init, MainInit, LinkInit, TurnInv, Handled
  <1>2. IInv /\ TurnInv /\ [Next]_vars => TurnInv'
    BY TurnStep
  <1>3. IInv /\ TurnInv => AnsweredInTurn
    BY DEF IInv, TurnInv, Answered, InSent, AnsweredInTurn
  <1> QED BY <1>1, <1>2, <1>3, Inductive, PTL DEF Spec

-----------------------------------------------------------------------------
(* When LMS delivers every answer before the deadline, the answers are whole. *)

AnsweredWhole ==
    ws = "open" => \A i \in MsgId : Handled(i) /\ asked[i] = "request" => InSent(Response(i, Answer(i, Parts)))

WholeInv ==
    /\ main \in {"send", "wait"} /\ lst[cur] = "sending" /\ sock[conn] = "open" => nxt[cur] = Parts
    /\ main = "forward" => nxt[cur] = Parts
    /\ \A i \in MsgId : Handled(i) /\ asked[i] = "request" => nxt[i] = Parts

\* The parts read for a message that was handled stay the same.
LEMMA CountStays ==
    ASSUME IInv, IInv', [Next]_vars, NEW i \in MsgId, Handled(i)
    PROVE  nxt'[i] = nxt[i]
  <1>1. \A n \in 0..Parts : Len(Answer(i, n)) = n BY AnswerExtends
  <1>2. i \in SockId BY Sockets
  <1>3. nxt[i] \in 0..Parts /\ buf[i] = Answer(i, nxt[i]) BY <1>2 DEF IInv, TypeOK, LmsTypeOK, BufferInv
  <1>4. nxt'[i] \in 0..Parts /\ buf'[i] = Answer(i, nxt'[i]) BY <1>2 DEF IInv, TypeOK, LmsTypeOK, BufferInv
  <1>5. buf'[i] = buf[i] BY BufferStays
  <1> QED BY <1>1, <1>3, <1>4, <1>5

LEMMA WholeStep ==
    ASSUME "short" \notin Faults, IInv, IInv', TurnInv, WaitInv, WholeInv, [Next]_vars
    PROVE  WholeInv'
  <1>0. /\ LmsTypeOK /\ SocketInv /\ ListenerInv /\ cur \in Nat
        /\ main \in Handling => cur \in MsgId
    BY DEF IInv, TypeOK, MainTypeOK, HandlingInv
  <1>1. main' \in {"send", "wait"} /\ lst'[cur'] = "sending" /\ sock'[conn'] = "open" => nxt'[cur'] = Parts
    <2> SUFFICES ASSUME main' \in {"send", "wait"}, lst'[cur'] = "sending", sock'[conn'] = "open"
                 PROVE  nxt'[cur'] = Parts
      OBVIOUS
    <2>1. CASE ConnectLms
      <3>1. cur' = cur /\ cur \in MsgId BY <1>0, <2>1 DEF ConnectLms, Handling
      <3> QED BY <1>0, <2>1, <3>1 DEF ConnectLms, LmsTypeOK
    <2>2. CASE SendLms BY <2>2 DEF SendLms, WholeInv
    <2>3. ASSUME NEW l \in MsgId, Listening(l) PROVE nxt'[cur'] = Parts
      <3>1. UNCHANGED <<main, cur, conn, sock, req>> /\ l = cur
        BY <1>0, <2>3 DEF Listening, ListenStart, ListenCall, ListenRead, ListenBreak, mainVars, ListenerInv, Live
      <3>2. ListenBreak(l) BY <1>0, <2>3, <3>1 DEF Listening, ListenStart, ListenCall, ListenRead, WaitInv, Live, LmsTypeOK
      <3>3. on[cur] = conn /\ lst[cur] = "blocked" BY <3>1, <3>2 DEF ListenBreak, WaitInv
      <3>4. conn = cur
        <4>1. conn \in SockId BY <1>0, <3>1, <3>3, Sockets DEF LmsTypeOK
        <4> QED BY <1>0, <3>1, <4>1 DEF SocketInv
      <3> QED BY <3>1, <3>2, <3>3, <3>4 DEF ListenBreak
    <2>4. CASE UNCHANGED <<main, cur, conn, sock, req, lst, on>>
      <3>1. nxt' = nxt \/ \E l \in MsgId : ReceiveFromLms(l) \/ ListenRead(l)
        BY BufferMoves DEF lmsVars
      <3>2. nxt' = nxt
        BY <1>0, <2>4, <3>1 DEF ReceiveFromLms, ListenRead, LmsTypeOK
      <3> QED BY <2>4, <3>2 DEF WholeInv
    <2> QED BY <2>1, <2>2, <2>3, <2>4, WaitMoves
  <1>2. main' = "forward" => nxt'[cur'] = Parts
    <2> SUFFICES ASSUME main' = "forward" PROVE nxt'[cur'] = Parts
      OBVIOUS
    <2>1. ASSUME NEW l \in MsgId, ReceiveFromLms(l) PROVE nxt'[cur'] = Parts
      <3>1. l = cur /\ main = "wait" /\ UNCHANGED <<nxt, cur>> /\ lst[l] = "sending"
        BY <1>0, <2>1 DEF ReceiveFromLms, Goto, ListenerInv, Live
      <3>2. sock[conn] = "open" BY <3>1 DEF WaitInv
      <3> QED BY <3>1, <3>2 DEF WholeInv
    <2>2. ~(\E l \in MsgId : ListenRead(l))
      BY <1>0 DEF ListenRead, ListenerInv, Live, mainVars
    <2>3. CASE UNCHANGED <<nxt, cur>> /\ main = "forward" BY <2>3 DEF WholeInv
    <2> QED BY <2>1, <2>2, <2>3, BufferMoves DEF TakeMessage, AfterProcessMessage, Goto
  <1>3. ASSUME NEW i \in MsgId, Handled(i)', asked'[i] = "request" PROVE nxt'[i] = Parts
    <2>1. CASE Handled(i)
      <3>1. asked'[i] = asked[i] BY <2>1, AskedStays DEF Handled
      <3> QED BY <1>3, <2>1, <3>1, CountStays DEF WholeInv
    <2>2. CASE StartSession
      <3>1. cur = 0 /\ cur' = cur BY <2>2 DEF StartSession, Goto, TurnInv
      <3> QED BY <1>3, <3>1 DEF Handled
    <2>3. CASE i = cur /\ AnswerHeartbeat
      <3>1. i \in 1..cur BY <1>0, <2>3 DEF MsgId
      <3>2. asked'[i] = "heartbeat" BY <2>3, <3>1, AskedStays DEF AnswerHeartbeat, Goto, TurnInv
      <3> QED BY <1>3, <3>2
    <2>4. CASE i = cur /\ Forward
      <3>1. main = "forward" /\ nxt[cur] = Parts BY <2>4 DEF Forward, Goto, WholeInv
      <3>2. nxt' = nxt
        BY <2>4, <3>1, BufferMoves DEF Forward, Goto, TakeMessage, ReceiveFromLms, ListenRead, lmsVars, mainVars
      <3> QED BY <2>4, <3>1, <3>2
    <2> QED BY <1>3, <2>1, <2>2, <2>3, <2>4, HandledMoves
  <1> QED BY <1>1, <1>2, <1>3 DEF WholeInv

(* While the link to RPS is up, an LMS that delivers every answer before the *)
(* listener's one-second deadline has each request that was handled answered *)
(* whole, even if it refuses connections, fails to take a payload or to      *)
(* close: such a request ends the session and is not passed over.            *)
THEOREM WholeWhenDelivered == ASSUME "short" \notin Faults PROVE Spec => []AnsweredWhole
  <1>1. Init => WaitInv /\ TurnInv /\ WholeInv
    BY DEF Init, MainInit, LinkInit, WaitInv, TurnInv, WholeInv, Handled
  <1>2. IInv /\ IInv' /\ WaitInv /\ TurnInv /\ WholeInv /\ [Next]_vars => (WaitInv /\ TurnInv /\ WholeInv)'
    BY WaitStep, TurnStep, WholeStep
  <1>3. IInv /\ TurnInv /\ WholeInv => AnsweredWhole
    <2> SUFFICES ASSUME IInv, TurnInv, WholeInv, ws = "open", NEW i \in MsgId, Handled(i), asked[i] = "request"
                 PROVE  InSent(Response(i, Answer(i, Parts)))
      BY DEF AnsweredWhole
    <2>1. buf[i] = Answer(i, Parts) BY DEF IInv, BufferInv, WholeInv
    <2>2. Answer(i, Parts) # <<>>
      <3>1. Len(Answer(i, Parts)) = Parts /\ Parts # 0 BY AnswerExtends
      <3> QED BY <3>1
    <2> QED BY <2>1, <2>2 DEF TurnInv, Answered
  <1> QED BY <1>1, <1>2, <1>3, Inductive, PTL DEF Spec

-----------------------------------------------------------------------------
(* The session implements Relay. *)

\* A step that sends nothing and takes nothing stutters or ends the session.
LEMMA SilentStep ==
    ASSUME sent' = sent, cur' = cur,
           Phase' = Phase \/ (Phase # "over" /\ Phase' = "over")
    PROVE  [Promise!Next]_Promise!vars
  BY DEF Promise!Next, Promise!Stop, Promise!vars

\* A write to RPS either reaches it or leaves its history as it was.
LEMMA WriteCases ==
    ASSUME NEW m, NEW ok, Write(m, ok)
    PROVE  sent' = Append(sent, m) \/ sent' = sent
  BY DEF Write

LEMMA RefinementStep == ASSUME IInv, [Next]_vars PROVE [Promise!Next]_Promise!vars
  <1>1. CASE StartSession
    <2>1. Phase = "new" /\ Phase' \in {"idle", "over"} /\ cur' = cur
      BY <1>1 DEF StartSession, Goto, Phase
    <2>2. /\ sent' = Append(sent, InitialMessage) \/ sent' = sent
          /\ Phase' = "over" => sent' = sent
      BY <1>1 DEF StartSession, Write, Goto, Phase
    <2>3. CASE Phase' = "over" BY <2>1, <2>2, <2>3, SilentStep
    <2>4. CASE Phase' = "idle" /\ sent' = sent
      BY <2>1, <2>4 DEF Promise!Next, Promise!OpenLost
    <2>5. CASE Phase' = "idle" /\ sent' = Append(sent, InitialMessage)
      BY <2>1, <2>5 DEF Promise!Next, Promise!Open, Promise!Message, InitialMessage
    <2> QED BY <2>1, <2>2, <2>3, <2>4, <2>5
  <1>2. CASE TakeMessage
    <2>1. Phase = "idle" /\ Phase' \in {"busy", "beat", "over"} /\ sent' = sent
      BY <1>2 DEF TakeMessage, AfterProcessMessage, Goto, Phase
    <2>2. cur' = cur + 1 BY <1>2 DEF TakeMessage, IInv, ReaderInv
    <2> QED BY <2>1, <2>2 DEF Promise!Next, Promise!Take
  <1>3. CASE AnswerHeartbeat
    <2>1. Phase = "beat" /\ Phase' \in {"idle", "over"} /\ cur' = cur
      BY <1>3 DEF AnswerHeartbeat, Goto, Phase
    <2>2. /\ sent' = Append(sent, HeartbeatResponse(cur)) \/ sent' = sent
          /\ Phase' = "over" => sent' = sent
      BY <1>3 DEF AnswerHeartbeat, Write, Goto, Phase
    <2>3. CASE Phase' = "over" BY <2>1, <2>2, <2>3, SilentStep
    <2>4. CASE Phase' = "idle" /\ sent' = sent
      BY <2>1, <2>4 DEF Promise!Next, Promise!Drop
    <2>5. CASE Phase' = "idle" /\ sent' = Append(sent, HeartbeatResponse(cur))
      BY <2>1, <2>5 DEF Promise!Next, Promise!AnswerHeartbeat, Promise!Message, HeartbeatResponse
    <2> QED BY <2>1, <2>2, <2>3, <2>4, <2>5
  <1>4. CASE Forward
    <2>1. Phase = "busy" /\ Phase' = "idle" /\ cur' = cur
      BY <1>4 DEF Forward, Goto, Phase
    <2>2. CASE sent' = sent BY <2>1, <2>2 DEF Promise!Next, Promise!Drop
    <2>3. CASE sent' # sent
      <3>1. data # <<>> /\ sent' = Append(sent, Response(cur, data)) /\ main = "forward"
        BY <1>4, <2>3 DEF Forward, Write, Goto
      <3>2. data = Answer(cur, nxt[cur]) /\ cur \in MsgId
        BY <3>1 DEF IInv, BufferInv, HandlingInv, Handling
      <3>3. nxt[cur] \in 0..Parts BY <3>2, Sockets DEF IInv, TypeOK, LmsTypeOK
      <3>4. Answer(cur, 0) = <<>> BY DEF Answer
      <3>5. nxt[cur] \in 1..Parts BY <3>1, <3>2, <3>3, <3>4
      <3>6. Response(cur, data) = Promise!Message("response", cur, Promise!Answer(cur, nxt[cur]))
        BY <3>2 DEF Response, Promise!Message, Promise!Answer, Answer
      <3> QED BY <2>1, <3>1, <3>5, <3>6 DEF Promise!Next, Promise!AnswerRequest
    <2> QED BY <2>2, <2>3
  <1>5. CASE UNCHANGED <<main, cur, sent>> BY <1>5, SilentStep DEF Phase
  <1>6. CASE OwnStep
    <2>1. CASE sent' = sent /\ cur' = cur /\ (Phase' = Phase \/ (Phase # "over" /\ Phase' = "over"))
      BY <2>1, SilentStep
    <2>2. CASE ProbeLms \/ PrepareInitialMessage \/ DialRps \/ TakeClosed \/ TakeInterrupt \/ Exit \/ CloseChannels \/ CleanUp \/ UserInterrupts
      BY <2>1, <2>2 DEF ProbeLms, PrepareInitialMessage, DialRps, TakeClosed, TakeInterrupt, Exit, CloseChannels, CleanUp, UserInterrupts, Goto, Phase, linkVars
    <2>3. CASE ConnectLms \/ SendLms \/ HangUp \/ \E l \in MsgId : ReceiveFromLms(l)
      BY <2>1, <2>3 DEF ConnectLms, SendLms, HangUp, ReceiveFromLms, Goto, Phase, linkVars
    <2> QED BY <1>1, <1>2, <1>3, <1>4, <1>6, <2>2, <2>3 DEF OwnStep, MainStep, SessionStep
  <1>7. CASE LinkOnly
    BY <1>5, <1>7 DEF LinkOnly, LinkBreaks, ReadMessage, ReadFails, RpsSends, mainVars
  <1> QED BY <1>5, <1>6, <1>7, MainCases DEF vars, linkVars, mainVars

(* Every behaviour of the session is one Relay allows.                       *)
THEOREM Implements == Spec => KeepsPromise
  <1>1. Init => Promise!Init
    BY DEF Init, MainInit, LinkInit, Promise!Init, Phase
  <1>2. IInv /\ [Next]_vars => [Promise!Next]_Promise!vars
    BY RefinementStep
  <1> QED BY <1>1, <1>2, Inductive, PTL DEF Spec, KeepsPromise, Promise!Spec

-----------------------------------------------------------------------------
(* When LMS never refuses, breaks or fails to close a connection, the socket *)
(* is open exactly while a request is handled and no goroutine runs outside  *)
(* of that, so that neither panic can come about.                            *)

Serving == {"send", "wait", "forward", "hangup"}
Quiet ==
    /\ panic = "none" /\ main # "abort"
    /\ main \in Serving => conn # 0 /\ sock[conn] = "open"
    /\ main \notin Serving => conn = 0
    /\ \A l \in MsgId : Live(l) => main \in {"send", "wait"}
    /\ chClosed => main \in {"cleanup", "done", "exited"}

LEMMA QuietInit == Init => Quiet
  BY DEF Init, MainInit, Quiet, Serving, Live

LEMMA QuietStep ==
    ASSUME Faults \subseteq {"short"}, IInv, Quiet, [Next]_vars
    PROVE  Quiet'
  <1>0. LmsTypeOK /\ ListenerInv /\ HandlingInv BY DEF IInv, TypeOK
  <1>1. CASE ConnectLms
    <2>1. conn = 0 /\ cur \in MsgId /\ cur # 0
      BY <1>0, <1>1 DEF ConnectLms, Quiet, Serving, HandlingInv, Handling, MsgId
    <2>2. conn' = cur /\ sock'[cur] = "open" /\ main' = "send"
      BY <1>0, <1>1, <2>1, Sockets DEF ConnectLms, LmsTypeOK
    <2> QED BY <1>1, <2>1, <2>2 DEF ConnectLms, Quiet, Serving
  <1>2. CASE SendLms
    <2>1. sock[conn] = "open" /\ conn # 0 BY <1>2 DEF SendLms, Quiet, Serving
    <2> QED BY <1>2, <2>1 DEF SendLms, Quiet, Serving, Live
  <1>3. ASSUME NEW l \in MsgId, ReceiveFromLms(l) PROVE Quiet'
    <2>1. \A k \in MsgId : lst'[k] \in {"none", "done"}
      BY <1>0, <1>3 DEF ReceiveFromLms, ListenerInv, Live, LmsTypeOK
    <2> QED BY <1>3, <2>1 DEF ReceiveFromLms, Goto, Quiet, Serving, Live
  <1>4. CASE HangUp \/ CleanUp
    <2>1. conn' = 0 /\ main' \notin Serving \cup {"abort"} /\ UNCHANGED <<lst, panic, chClosed>>
      BY <1>4 DEF HangUp, CleanUp, CloseLms, Goto, Quiet, Serving
    <2>2. \A l \in MsgId : ~Live(l)
      BY <1>4 DEF HangUp, CleanUp, Goto, Quiet
    <2>3. chClosed => main' = "done"
      BY <1>4 DEF HangUp, CleanUp, Goto, Quiet
    <2> QED BY <2>1, <2>2, <2>3 DEF Quiet, Serving, Live
  <1>5. ASSUME NEW l \in MsgId, ListenerStep(l) PROVE Quiet'
    <2>1. lst[l] \notin {"none", "done"} BY <1>5
      DEF ListenerStep, ListenStart, ListenCall, ListenRead, ListenBreak, ListenSendFails
    <2>2. main \in {"send", "wait"} /\ conn # 0 /\ ~chClosed
      BY <2>1 DEF Quiet, Serving, Live
    <2>3. UNCHANGED <<panic, main, conn, sock, chClosed>>
      BY <1>5, <2>2 DEF ListenerStep, ListenStart, ListenCall, ListenRead, ListenBreak, ListenSendFails, mainVars
    <2> QED BY <2>2, <2>3 DEF Quiet, Serving
  <1>6. CASE (Forward \/ StartSession \/ TakeMessage \/ AnswerHeartbeat) /\ UNCHANGED lmsVars
    <2>1. /\ UNCHANGED <<conn, sock, lst, panic, chClosed>>
          /\ main \in {"forward", "start", "select", "heartbeat"}
          /\ main' # "abort" /\ (main' \in Serving <=> main \in Serving)
      BY <1>6 DEF Forward, StartSession, TakeMessage, AfterProcessMessage, AnswerHeartbeat, Goto, Serving, lmsVars
    <2> QED BY <2>1 DEF Quiet, Serving, Live
  <1>7. CASE ProbeLms \/ ((PrepareInitialMessage \/ DialRps \/ TakeClosed \/ TakeInterrupt \/ CloseChannels \/ Exit) /\ UNCHANGED lmsVars)
    <2>1. /\ UNCHANGED <<conn, sock, lst, panic>>
          /\ main \notin Serving /\ main' \notin Serving /\ main' # "abort"
      BY <1>7 DEF ProbeLms, PrepareInitialMessage, DialRps, TakeClosed, TakeInterrupt, CloseChannels, Exit, Goto, Serving, lmsVars
    <2>2. CASE TakeInterrupt \/ CloseChannels
      BY <2>1, <2>2 DEF TakeInterrupt, CloseChannels, Goto, Quiet, Serving, Live
    <2>3. CASE ProbeLms \/ PrepareInitialMessage \/ DialRps \/ TakeClosed \/ Exit
      <3>1. chClosed' = chClosed /\ (chClosed => main' \in {"cleanup", "done", "exited"})
        BY <2>3 DEF ProbeLms, PrepareInitialMessage, DialRps, TakeClosed, Exit, Goto, Quiet
      <3> QED BY <2>1, <3>1 DEF Quiet, Serving, Live
    <2> QED BY <1>7, <2>2, <2>3
  <1>8. CASE UNCHANGED <<main, chClosed, panic, conn, sock, lst>> BY <1>8 DEF Quiet, Live
  <1> QED BY <1>1, <1>2, <1>3, <1>4, <1>5, <1>6, <1>7, <1>8, MainCases
    DEF OwnStep, MainStep, SessionStep, UserInterrupts, LinkOnly, vars, mainVars, lmsVars

(* Late and short answers alone never make the process panic, whatever the   *)
(* interleaving of the goroutines, an interrupt and a lost link.             *)
THEOREM LateIsHarmless == ASSUME Faults \subseteq {"short"} PROVE Spec => []NoPanic
  <1>1. IInv /\ Quiet /\ [Next]_vars => Quiet'
    BY QuietStep
  <1>2. Quiet => NoPanic BY DEF Quiet, NoPanic
  <1> QED BY <1>1, <1>2, QuietInit, Inductive, PTL DEF Spec
=============================================================================
