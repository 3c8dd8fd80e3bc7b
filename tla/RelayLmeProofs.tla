--------------------------- MODULE RelayLmeProofs ---------------------------
(***************************************************************************)
(* Theorems about RelayLme, for every number of messages, every number of  *)
(* parts of an answer and every set of faults.  The refinement of Relay    *)
(* and the order of what is forwarded assume that the goroutines are       *)
(* faster than the device and the timers (Slow); the other theorems hold   *)
(* for every order of the goroutines and timers.                           *)
(***************************************************************************)
EXTENDS RelayLme, TLAPS

USE MaxMsgsAssumption, PartsAssumption

-----------------------------------------------------------------------------
(* The inductive invariant. *)

\* What AMT sends: the confirmation of a channel, or a part of an answer.
Confirmations == [channel : MsgId, of : {0}, part : {0}]
AnswerParts == [channel : MsgId, of : MsgId, part : 1..Parts]
Messages == Confirmations \cup AnswerParts

MessagesInv ==
    /\ inbox \in Seq(Messages)
    /\ held \in [MsgId -> Messages \cup {Lme!Apf(0, 0, 0)}]
    /\ \A i \in MsgId : Lme!Processing(i) => held[i] \in Messages
    /\ \A i \in MsgId : reader_[i] = "appending" => held[i].part > 0

\* A handler runs only for a message that was taken.
HandlingInv ==
    /\ reader = "sending" => nread > 0
    /\ main \in Handling => cur \in MsgId

\* Connect's last attempt ends the session.
Over == {"shutdown", "cleanup", "done", "exited"}
RetriesInv ==
    /\ retries <= 3 /\ (retries = 3 => main \in Over)
    /\ retries > 0 => MaxMsgs > 0

(* The confirmation AMT still owes, has sent, or a reader holds, is one, and *)
(* the handler of its message waits for it.                                  *)
Owed(c) == c = cur /\ wg > 0 /\ main = "open"
Asked(i) == amt[i].state = "asked"
Sent(k) == inbox[k].part = 0
Held(i) == reader_[i] = "processing" /\ held[i].part = 0
ConfirmationInv ==
    /\ \A i \in MsgId : Asked(i) =>
        Owed(i) /\ (\A k \in DOMAIN inbox : ~Sent(k)) /\ \A j \in MsgId : ~Held(j)
    /\ \A k \in DOMAIN inbox : Sent(k) =>
        /\ Owed(inbox[k].channel)
        /\ \A l \in DOMAIN inbox : Sent(l) => l = k
        /\ \A j \in MsgId : ~Held(j)
    /\ \A i \in MsgId : Held(i) =>
        Owed(held[i].channel) /\ \A j \in MsgId : Held(j) => j = i

\* Once it was confirmed the channel is the one of the message at hand.
ChannelInv == main = "open" /\ wg = 0 => sender = cur

IInv ==
    /\ TypeOK /\ MessagesInv /\ HandlingInv /\ RetriesInv
    /\ OneHandOver /\ ConfirmationInv /\ ChannelInv /\ OwnChannel

-----------------------------------------------------------------------------
(* Which parts of the state a step may change. *)

LEMMA LmeCases ==
    ASSUME [Next]_vars
    PROVE  \/ UNCHANGED lmeVars
           \/ UseLme \/ ConnectLme \/ SendLme \/ CleanUp
           \/ \E i \in MsgId : ReceiveFromLme(i) \/ LmeReader(i) \/ LmeTimer(i) \/ Device(i)
  BY DEF Next, MainStep, RpsReader, Environment, GoroutinePanics, WaitForChannel, WaitAgain, vars

\* A step of the link leaves the main goroutine where it is.
LinkOnly ==
    /\ UNCHANGED <<mainVars, lmeVars>>
    /\ LinkBreaks \/ ReadMessage \/ ReadFails \/ \E k \in Kinds : RpsSends(k)

\* A step of the main goroutine, the user's signal or the exit.
OwnStep == MainStep \/ ((Exit \/ UserInterrupts) /\ UNCHANGED lmeVars)

\* A step of a goroutine of Listen or of AMT.
LmeStep == \E i \in MsgId : LmeReader(i) \/ LmeTimer(i) \/ Device(i)

LEMMA MainCases ==
    ASSUME [Next]_vars
    PROVE  \/ UNCHANGED vars
           \/ LinkOnly
           \/ LmeStep /\ UNCHANGED <<linkVars, mainVars>>
           \/ (\E i \in MsgId : GoroutinePanics(i)) /\ UNCHANGED <<linkVars, lmeVars, main, cur, data, interrupt, chClosed>>
           \/ OwnStep
  BY DEF Next, RpsReader, ReaderStep, Environment, Peer, OwnStep, LinkOnly, LmeStep, LmeReader, LmeTimer, Device,
     GoroutinePanics

LEMMA LinkCases ==
    ASSUME [Next]_vars
    PROVE  \/ UNCHANGED linkVars
           \/ LinkOnly
           \/ DialRps \/ StartSession \/ TakeMessage \/ TakeInterrupt \/ AnswerHeartbeat \/ Forward
  <1>1. CASE OwnStep
    BY <1>1 DEF OwnStep, MainStep, SessionStep, UseLme, PrepareInitialMessage, TakeClosed, ConnectLme, WaitForChannel,
       SendLme, ReceiveFromLme, WaitAgain, CloseChannels, CleanUp, Exit, UserInterrupts
  <1> QED BY <1>1, MainCases DEF vars

\* Where a timer's goroutine may still have a buffer to hand over.
Expecting == {"open", "send", "wait", "shutdown", "cleanup", "done", "exited"}

\* Which steps start, change or end the handling of a message.
LEMMA MainMoves ==
    ASSUME [Next]_vars
    PROVE  \/ (TakeMessage /\ UNCHANGED lmeVars) \/ ConnectLme \/ WaitForChannel \/ SendLme
           \/ \E i \in MsgId : ReceiveFromLme(i)
           \/ /\ cur' = cur
              /\ UNCHANGED lmeVars \/ LmeStep \/ UseLme \/ CleanUp
              /\ main \in Expecting => main' \in Expecting
              /\ main \in Over => main' \in Over
              /\ main' \in Handling => main \in Handling
              /\ main' \in {"connect", "open", "send", "wait"} => main' = main
              /\ main = "open" => main' = "open"
  <1>1. CASE OwnStep
    BY <1>1 DEF OwnStep, MainStep, SessionStep, Exit, UserInterrupts, UseLme, PrepareInitialMessage, DialRps,
       StartSession, TakeClosed, TakeInterrupt, AnswerHeartbeat, Forward, WaitAgain, CloseChannels, CleanUp, Goto,
       Handling, Over, Expecting
  <1> QED BY <1>1, MainCases DEF vars, linkVars, mainVars, LinkOnly

\* Which steps change who holds which message.
LEMMA ReaderMoves ==
    ASSUME [Next]_vars
    PROVE  TakeMessage \/ LinkOnly \/ StartSession \/ (UNCHANGED <<nread, reader>>)
  BY LinkCases DEF linkVars, DialRps, TakeInterrupt, AnswerHeartbeat, Forward

-----------------------------------------------------------------------------
(* Type correctness. *)

LEMMA CurBound == TypeOK => cur \in 0..MaxMsgs /\ nread \in 0..MaxMsgs
  BY DEF TypeOK, LinkTypeOK, MainTypeOK

\* What a step of the channel may make of its variables.
Channels == [state : {"none", "asked", "open", "closed"}, req : MsgId \cup {0}, given : 0..Parts]
ReaderPcs == {"none", "receiving", "processing", "appending", "done"}

\* LmeTypeOK, with the sets named.
ChannelType ==
    /\ faults \in FaultSets /\ fd \in {"open", "closed"} /\ wg \in Nat
    /\ retries \in Nat /\ \E i \in MsgId \cup {0} : retries <= i + 2
    /\ sender \in MsgId \cup {0} /\ tref \in MsgId \cup {0}
    /\ temp \in Seq(Part) /\ loaded \in [MsgId -> Seq(Part)] /\ raced \in BOOLEAN
    /\ inbox \in Seq([channel : MsgId, of : MsgId \cup {0}, part : 0..Parts])
    /\ reader_ \in [MsgId -> ReaderPcs] /\ timer \in [MsgId -> Lme!TimerPcs]
    /\ snap \in [MsgId -> Seq(Part)] /\ amt \in [MsgId -> Channels]

LEMMA LmeType == Lme!LmeTypeOK <=> ChannelType
  BY Zenon DEF ChannelType, Lme!LmeTypeOK, Part, ReaderPcs, Channels

LEMMA LmeTypeNext == Lme!LmeTypeOK' <=> ChannelType'
  BY Zenon DEF ChannelType, Lme!LmeTypeOK, Part, ReaderPcs, Channels, Lme!TimerPcs

LEMMA TypeInit == Init => TypeOK
  <1> SUFFICES ASSUME Init PROVE TypeOK
    OBVIOUS
  <1>1. LinkTypeOK
    BY DEF Init, MainInit, LinkInit, LinkTypeOK
  <1>2. MainTypeOK
    <2>1. main \in MainPcs /\ data \in Seq(Part) BY DEF Init, MainInit, MainPcs
    <2>2. interrupt \in BOOLEAN /\ chClosed \in BOOLEAN BY DEF Init, MainInit
    <2> QED BY <2>1, <2>2 DEF Init, MainInit, LinkInit, MainTypeOK
  <1>3. Lme!LmeTypeOK
    <2>1. snap \in [MsgId -> Seq(Part)] /\ temp \in Seq(Part) /\ inbox = <<>>
      BY DEF Init, Lme!LmeInit
    <2>8. loaded \in [MsgId -> Seq(Part)]
      BY DEF Init, Lme!LmeInit
    <2>9. raced \in BOOLEAN
      BY Zenon DEF Init, Lme!LmeInit
    <2>2. retries = 0 BY DEF Init, Lme!LmeInit
    <2>3. /\ timer \in [MsgId -> Lme!TimerPcs]
          /\ reader_ \in [MsgId -> {"none", "receiving", "processing", "appending", "done"}]
      BY DEF Init, Lme!LmeInit, Lme!TimerPcs
    <2>4. amt \in [MsgId -> [state : {"none", "asked", "open", "closed"}, req : MsgId \cup {0}, given : 0..Parts]]
      BY DEF Init, Lme!LmeInit, Lme!NoChannel
    <2>5. inbox \in Seq([channel : MsgId, of : MsgId \cup {0}, part : 0..Parts]) BY <2>1
    <2>6. faults \in FaultSets /\ fd = "closed" /\ wg = 0 /\ sender = 0 /\ tref = 0 BY DEF Init, Lme!LmeInit
    <2>7. \E i \in MsgId \cup {0} : retries <= i + 2 BY <2>2
    <2> QED BY <2>1, <2>2, <2>3, <2>4, <2>5, <2>6, <2>7, <2>8, <2>9, LmeType DEF ChannelType, ReaderPcs, Channels
  <1> QED BY <1>1, <1>2, <1>3 DEF TypeOK

LEMMA LinkTypeStep == ASSUME TypeOK, [Next]_vars PROVE LinkTypeOK'
  <1>0. LinkTypeOK BY DEF TypeOK
  <1>1. CASE UNCHANGED linkVars BY <1>0, <1>1 DEF linkVars, LinkTypeOK
  <1>2. CASE DialRps \/ TakeInterrupt
    BY <1>0, <1>2 DEF DialRps, TakeInterrupt, Dial, Disconnect, LinkTypeOK
  <1>3. CASE StartSession \/ TakeMessage \/ AnswerHeartbeat \/ Forward
    BY <1>0, <1>3 DEF StartSession, ListenToRps, TakeMessage, AnswerHeartbeat, Forward, LinkTypeOK
  <1>4. CASE LinkOnly
    BY <1>0, <1>4 DEF LinkOnly, LinkBreaks, ReadMessage, ReadFails, RpsSends, LinkTypeOK
  <1> QED BY <1>1, <1>2, <1>3, <1>4, LinkCases

LEMMA MainTypeStep == ASSUME TypeOK, [Next]_vars PROVE MainTypeOK'
  <1>0. LinkTypeOK /\ MainTypeOK /\ snap \in [MsgId -> Seq(Part)]
    BY DEF TypeOK, Lme!LmeTypeOK, Part
  <1>1. CASE UNCHANGED vars BY <1>0, <1>1 DEF vars, linkVars, mainVars, MainTypeOK
  <1>2. CASE LinkOnly
    <2>1. nread \in Nat /\ nread' \in {nread, nread + 1}
      BY <1>0, <1>2 DEF LinkOnly, LinkBreaks, ReadMessage, ReadFails, RpsSends, LinkTypeOK
    <2>2. UNCHANGED mainVars BY <1>2 DEF LinkOnly
    <2> QED BY <1>0, <2>1, <2>2 DEF mainVars, MainTypeOK
  <1>3. CASE LmeStep /\ UNCHANGED <<linkVars, mainVars>>
    BY <1>0, <1>3 DEF linkVars, mainVars, MainTypeOK
  <1>4. CASE (\E i \in MsgId : GoroutinePanics(i)) /\ UNCHANGED <<linkVars, lmeVars, main, cur, data, interrupt, chClosed>>
    <2>1. panic' \in {"nil_timer", "send_on_closed"} BY <1>4 DEF GoroutinePanics, Crash
    <2> QED BY <1>0, <1>4, <2>1 DEF linkVars, MainTypeOK
  <1>5. CASE OwnStep
    <2>1. main' \in MainPcs
      BY <1>0, <1>5 DEF OwnStep, MainStep, SessionStep, Exit, UserInterrupts, UseLme, PrepareInitialMessage, DialRps,
         StartSession, TakeMessage, AfterProcessMessage, TakeClosed, TakeInterrupt, AnswerHeartbeat, ConnectLme,
         WaitForChannel, SendLme, ReceiveFromLme, Forward, WaitAgain, CloseChannels, CleanUp, Goto, MainTypeOK, MainPcs
    <2>2. nread' = nread /\ cur' \in {cur, nread} /\ (data' = data \/ \E i \in MsgId : data' = snap[i])
      BY <1>0, <1>5 DEF OwnStep, MainStep, SessionStep, Exit, UserInterrupts, UseLme, PrepareInitialMessage, DialRps,
         StartSession, TakeMessage, TakeClosed, TakeInterrupt, AnswerHeartbeat, ConnectLme, WaitForChannel, SendLme,
         ReceiveFromLme, Forward, WaitAgain, CloseChannels, CleanUp, linkVars
    <2>3. panic' = panic /\ interrupt' \in {interrupt, TRUE, FALSE} /\ chClosed' \in {chClosed, TRUE}
      BY <1>5 DEF OwnStep, MainStep, SessionStep, Exit, UserInterrupts, UseLme, PrepareInitialMessage, DialRps,
         StartSession, TakeMessage, TakeClosed, TakeInterrupt, AnswerHeartbeat, ConnectLme, WaitForChannel, SendLme,
         ReceiveFromLme, Forward, WaitAgain, CloseChannels, CleanUp
    <2>4. cur' \in Nat /\ cur' <= nread' BY <1>0, <2>2 DEF LinkTypeOK, MainTypeOK
    <2>5. data' \in Seq(Part) BY <1>0, <2>2 DEF MainTypeOK
    <2>6. interrupt' \in BOOLEAN /\ chClosed' \in BOOLEAN BY <1>0, <2>3 DEF MainTypeOK
    <2> QED BY <1>0, <2>1, <2>3, <2>4, <2>5, <2>6 DEF MainTypeOK
  <1> QED BY <1>1, <1>2, <1>3, <1>4, <1>5, MainCases

(* The types of the channel's variables are kept, action by action.          *)
LEMMA ChannelTypeStep ==
    ASSUME TypeOK, MessagesInv, HandlingInv, RetriesInv, [Next]_vars
    PROVE  ChannelType'
  <1>0. ChannelType /\ (main \in Handling => cur \in MsgId)
    BY LmeType DEF TypeOK, HandlingInv
  <1> USE DEF ChannelType
  <1>a. /\ \A i \in MsgId, s \in {"receiving", "processing", "appending", "done"} :
               [reader_ EXCEPT ![i] = s] \in [MsgId -> ReaderPcs]
        /\ \A i \in MsgId, s \in Lme!TimerPcs : [timer EXCEPT ![i] = s] \in [MsgId -> Lme!TimerPcs]
    BY <1>0 DEF ReaderPcs
  <1>1. CASE UNCHANGED lmeVars BY <1>0, <1>1 DEF lmeVars
  <1>2. CASE UseLme
    BY <1>0, <1>2 DEF UseLme, Lme!Initialize
  <1>3. CASE ConnectLme
    <2>1. cur \in MsgId BY <1>0, <1>3 DEF ConnectLme, Goto, Handling
    <2>2. CASE Lme!OpenChannel(cur)
      <3>0. [Lme!NoChannel EXCEPT !.state = "asked"] \in Channels BY DEF Lme!NoChannel, Channels
      <3>1. amt' \in [MsgId -> Channels]
        BY <1>0, <2>1, <2>2, <3>0 DEF Lme!OpenChannel
      <3>2. reader_' \in [MsgId -> ReaderPcs] /\ timer' \in [MsgId -> Lme!TimerPcs]
        BY <1>a, <2>1, <2>2 DEF Lme!OpenChannel, Lme!Listen, Lme!TimerPcs
      <3>3. retries' = 0 /\ wg' \in Nat BY <1>0, <2>2 DEF Lme!OpenChannel
      <3>4. \E i \in MsgId \cup {0} : retries' <= i + 2 BY <3>3
      <3>5. raced' \in BOOLEAN /\ UNCHANGED <<faults, fd, sender, temp, loaded, tref, inbox, snap>>
        BY <1>0, <2>2 DEF Lme!OpenChannel
      <3> QED BY <1>0, <3>1, <3>2, <3>3, <3>4, <3>5
    <2>3. CASE Lme!RetryOpen
      <3>1. amt' \in [MsgId -> Channels]
        BY <2>3 DEF Lme!RetryOpen, Lme!NoChannel, Channels
      <3>2. reader_' \in [MsgId -> ReaderPcs]
        BY <1>0, <2>3 DEF Lme!RetryOpen, ReaderPcs
      <3>3. retries' \in Nat /\ retries' <= 2 /\ wg' \in Nat BY <1>0, <2>3 DEF Lme!RetryOpen
      <3>4. inbox' = <<>> BY <2>3 DEF Lme!RetryOpen
      <3>5. \E i \in MsgId \cup {0} : retries' <= i + 2 BY <3>3
      <3> QED BY <1>0, <2>3, <3>1, <3>2, <3>3, <3>4, <3>5 DEF Lme!RetryOpen
    <2>4. CASE Lme!FailOpen(cur)
      <3>1. fd' \in {"open", "closed"} BY <1>0, <2>4 DEF Lme!FailOpen
      <3>2. reader_' \in [MsgId -> ReaderPcs] /\ timer' \in [MsgId -> Lme!TimerPcs]
        BY <1>a, <2>1, <2>4 DEF Lme!FailOpen, Lme!Listen, Lme!TimerPcs
      <3>3. retries # 3 BY <1>3, <2>4 DEF RetriesInv, ConnectLme, Goto, Over
      <3>4. retries' \in Nat /\ retries' <= 3 /\ wg' \in Nat
        BY <1>0, <2>4, <3>3 DEF Lme!FailOpen, RetriesInv
      <3>5. 1 \in MsgId BY <2>1 DEF MsgId
      <3> QED BY <1>0, <2>4, <3>1, <3>2, <3>4, <3>5 DEF Lme!FailOpen
    <2> QED BY <1>3, <2>2, <2>3, <2>4 DEF ConnectLme
  <1>4. CASE SendLme
    <2>1. CASE Lme!SendPayload(cur)
      <3>1. cur \in MsgId BY <1>0, <1>4 DEF SendLme, Goto, Handling
      <3>2. sender # 0 => [amt[sender] EXCEPT !.req = cur] \in Channels
        BY <1>0, <3>1 DEF Channels
      <3>3. amt' \in [MsgId -> Channels] BY <1>0, <2>1, <3>2 DEF Lme!SendPayload
      <3> QED BY <1>0, <2>1, <3>3 DEF Lme!SendPayload
    <2>2. CASE Lme!SendPayloadFails
      BY <1>0, <2>2 DEF Lme!SendPayloadFails, Lme!lmeVars
    <2> QED BY <1>4, <2>1, <2>2 DEF SendLme
  <1>5. CASE CleanUp
    <2>1. timer' \in [MsgId -> Lme!TimerPcs]
      BY <1>0, <1>a, <1>5 DEF CleanUp, Lme!CloseLme, Lme!TimerPcs
    <2> QED BY <1>0, <1>5, <2>1 DEF CleanUp, Lme!CloseLme
  <1>6. ASSUME NEW i \in MsgId, ReceiveFromLme(i) PROVE ChannelType'
    BY <1>0, <1>a, <1>6 DEF ReceiveFromLme, Lme!HandOver, Lme!TimerPcs
  <1>7. ASSUME NEW i \in MsgId, LmeReader(i) PROVE ChannelType'
    <2>1. CASE Lme!ReaderReceives(i)
      BY <1>0, <1>a, <2>1 DEF Lme!ReaderReceives
    <2>2. CASE Lme!ReaderEnds(i)
      BY <1>0, <1>a, <2>2 DEF Lme!ReaderEnds
    <2>3. CASE Lme!ProcessConfirmation(i)
      <3>1. held[i].channel \in MsgId
        BY <2>3 DEF MessagesInv, Messages, Confirmations, AnswerParts, Lme!Processing, Lme!ProcessConfirmation
      <3>2. wg' \in Nat BY <1>0, <2>3 DEF Lme!ProcessConfirmation
      <3> QED BY <1>0, <1>a, <2>3, <3>1, <3>2 DEF Lme!ProcessConfirmation
    <2>4. CASE Lme!LoadTempdata(i)
      <3>1. loaded' \in [MsgId -> Seq(Part)] BY <1>0, <2>4 DEF Lme!LoadTempdata
      <3> QED BY <1>0, <1>a, <2>4, <3>1 DEF Lme!LoadTempdata
    <2>5. CASE Lme!ProcessData(i)
      <3>1. <<held[i].of, held[i].part>> \in Part
        BY <2>5 DEF MessagesInv, Messages, Confirmations, AnswerParts, Lme!Processing, Lme!ProcessData, Part
      <3>2. \A e \in Part : Append(loaded[i], e) \in Seq(Part) BY <1>0
      <3>3. temp' \in Seq(Part) BY <2>5, <3>1, <3>2 DEF Lme!ProcessData
      <3>4. loaded' \in [MsgId -> Seq(Part)] BY <1>0, <2>5 DEF Lme!ProcessData
      <3>5. raced' \in BOOLEAN BY <1>0, <2>5 DEF Lme!ProcessData
      <3> QED BY <1>0, <1>a, <2>5, <3>3, <3>4, <3>5 DEF Lme!ProcessData
    <2> QED BY <1>7, <2>1, <2>2, <2>3, <2>4, <2>5 DEF LmeReader, Lme!ReaderGoroutine
  <1>8. ASSUME NEW i \in MsgId, LmeTimer(i) PROVE ChannelType'
    <2> USE DEF Lme!TimerPcs
    <2>1. CASE Lme!TimerStarts(i) BY <1>0, <1>a, <2>1 DEF Lme!TimerStarts
    <2>2. CASE Lme!TimerFires(i, Waiting) BY <1>0, <1>a, <2>2 DEF Lme!TimerFires
    <2>3. CASE Lme!TimerClears(i) BY <1>0, <1>a, <2>3 DEF Lme!TimerClears
    <2>4. CASE Lme!TimerCloses(i)
      <3>1. sender # 0 => [amt[sender] EXCEPT !.state = "closed"] \in Channels
        BY <1>0 DEF Channels
      <3>2. amt' \in [MsgId -> Channels] BY <1>0, <2>4, <3>1 DEF Lme!TimerCloses
      <3> QED BY <1>0, <1>a, <2>4, <3>2 DEF Lme!TimerCloses
    <2> QED BY <1>8, <2>1, <2>2, <2>3, <2>4 DEF LmeTimer, Lme!TimerGoroutine
  <1>9. ASSUME NEW i \in MsgId, Device(i) PROVE ChannelType'
    <2>0. amt[i] \in Channels BY <1>0
    <2>1. CASE Lme!AmtConfirms(i)
      <3>1. [amt[i] EXCEPT !.state = "open"] \in Channels BY <2>0 DEF Channels
      <3>2. amt' \in [MsgId -> Channels] BY <1>0, <2>1, <3>1 DEF Lme!AmtConfirms
      <3>3. Lme!Apf(i, 0, 0) \in [channel : MsgId, of : MsgId \cup {0}, part : 0..Parts] BY DEF Lme!Apf
      <3>4. inbox' \in Seq([channel : MsgId, of : MsgId \cup {0}, part : 0..Parts])
        BY <1>0, <2>1, <3>3 DEF Lme!AmtConfirms
      <3>5. raced' \in BOOLEAN
            /\ UNCHANGED <<faults, fd, wg, retries, sender, temp, loaded, tref, reader_, timer, snap>>
        BY <1>0, <2>1 DEF Lme!AmtConfirms
      <3> QED BY <1>0, <3>2, <3>4, <3>5
    <2>2. CASE Lme!AmtAnswers(i)
      <3>0. amt[i].given \in 0..Parts /\ amt[i].given + 1 \in 0..Parts /\ amt[i].req \in MsgId \cup {0}
        BY <2>0, <2>2 DEF Channels, Lme!AmtAnswers
      <3>1. [amt[i] EXCEPT !.given = @ + 1] \in Channels BY <2>0, <3>0 DEF Channels
      <3>2. amt' \in [MsgId -> Channels] BY <1>0, <2>2, <3>1 DEF Lme!AmtAnswers
      <3>3. Lme!Apf(i, amt[i].req, amt[i].given + 1) \in [channel : MsgId, of : MsgId \cup {0}, part : 0..Parts]
        BY <3>0 DEF Lme!Apf
      <3>4. inbox' \in Seq([channel : MsgId, of : MsgId \cup {0}, part : 0..Parts])
        BY <1>0, <2>2, <3>3 DEF Lme!AmtAnswers
      <3>5. raced' \in BOOLEAN
            /\ UNCHANGED <<faults, fd, wg, retries, sender, temp, loaded, tref, reader_, timer, snap>>
        BY <1>0, <2>2 DEF Lme!AmtAnswers
      <3> QED BY <1>0, <3>2, <3>4, <3>5
    <2> QED BY <1>9, <2>1, <2>2 DEF Device, Lme!Amt
  <1> QED BY <1>1, <1>2, <1>3, <1>4, <1>5, <1>6, <1>7, <1>8, <1>9, LmeCases

LEMMA TypeStep == ASSUME IInv, [Next]_vars PROVE TypeOK'
  BY LinkTypeStep, MainTypeStep, ChannelTypeStep, LmeTypeNext DEF IInv, TypeOK

-----------------------------------------------------------------------------
(* The other conjuncts of the inductive invariant. *)

LEMMA HandlingStep == ASSUME TypeOK, HandlingInv, [Next]_vars PROVE HandlingInv'
  <1>0. nread \in 0..MaxMsgs /\ cur \in 0..MaxMsgs BY CurBound
  <1>1. reader' = "sending" => nread' > 0
    <2>1. CASE UNCHANGED <<nread, reader>> BY <2>1 DEF HandlingInv
    <2>2. CASE TakeMessage \/ StartSession BY <2>2 DEF TakeMessage, StartSession, ListenToRps
    <2>3. CASE LinkOnly
      BY <1>0, <2>3 DEF LinkOnly, HandlingInv, LinkBreaks, ReadMessage, ReadFails, RpsSends
    <2> QED BY <2>1, <2>2, <2>3, ReaderMoves
  <1>2. main' \in Handling => cur' \in MsgId
    <2>1. CASE TakeMessage
      BY <1>0, <2>1 DEF TakeMessage, HandlingInv, MsgId
    <2>2. CASE ConnectLme \/ WaitForChannel \/ SendLme \/ \E i \in MsgId : ReceiveFromLme(i)
      BY <2>2 DEF ConnectLme, WaitForChannel, SendLme, ReceiveFromLme, Goto, HandlingInv, Handling
    <2> QED BY <2>1, <2>2, MainMoves DEF HandlingInv
  <1> QED BY <1>1, <1>2 DEF HandlingInv

\* Only Connect changes the number of retries.
LEMMA RetriesMoves ==
    ASSUME [Next]_vars
    PROVE  ConnectLme \/ (retries' = retries /\ (main \in Over => main' \in Over))
  <1>1. LmeStep => retries' = retries
    BY DEF LmeStep, LmeReader, LmeTimer, Device, Lme!ReaderGoroutine, Lme!TimerGoroutine, Lme!Amt, Lme!ReaderReceives,
       Lme!ReaderEnds, Lme!ProcessConfirmation, Lme!LoadTempdata, Lme!ProcessData, Lme!TimerStarts, Lme!TimerFires,
       Lme!TimerClears, Lme!TimerCloses, Lme!AmtConfirms, Lme!AmtAnswers
  <1>2. UseLme \/ CleanUp \/ UNCHANGED lmeVars => retries' = retries
    BY DEF UseLme, CleanUp, Lme!Initialize, Lme!CloseLme, lmeVars
  <1>3. CASE (TakeMessage /\ UNCHANGED lmeVars) \/ WaitForChannel \/ SendLme \/ \E i \in MsgId : ReceiveFromLme(i)
    BY <1>3 DEF TakeMessage, WaitForChannel, SendLme, ReceiveFromLme, Goto, Over, lmeVars, Lme!SendPayload,
       Lme!SendPayloadFails, Lme!lmeVars, Lme!HandOver
  <1> QED BY <1>1, <1>2, <1>3, MainMoves

LEMMA RetriesStep == ASSUME TypeOK, HandlingInv, RetriesInv, [Next]_vars PROVE RetriesInv'
  <1>0. ChannelType BY LmeType DEF TypeOK
  <1>1. CASE ConnectLme
    <2>1. cur \in MsgId /\ main = "connect" BY <1>1 DEF HandlingInv, ConnectLme, Goto, Handling
    <2>2. MaxMsgs > 0 BY <2>1 DEF MsgId
    <2>3. retries # 3 /\ retries \in Nat BY <1>0, <2>1 DEF RetriesInv, Over, ChannelType
    <2>4. CASE Lme!OpenChannel(cur)
      BY <2>4 DEF RetriesInv, Lme!OpenChannel
    <2>5. CASE Lme!RetryOpen
      BY <2>2, <2>3, <2>5 DEF RetriesInv, Lme!RetryOpen
    <2>6. CASE Goto("connect", "shutdown") /\ Lme!FailOpen(cur)
      BY <2>2, <2>3, <2>6 DEF RetriesInv, Lme!FailOpen, Goto, Over
    <2> QED BY <1>1, <2>4, <2>5, <2>6 DEF ConnectLme
  <1> QED BY <1>1, RetriesMoves DEF RetriesInv

\* Which steps touch the timers.
LEMMA TimerMoves ==
    ASSUME [Next]_vars
    PROVE  \/ ConnectLme \/ CleanUp \/ timer' = timer
           \/ \E i \in MsgId : ReceiveFromLme(i) \/ LmeTimer(i)
  BY LmeCases DEF UseLme, SendLme, LmeReader, Device, Lme!Initialize, Lme!SendPayload, Lme!SendPayloadFails,
     Lme!lmeVars, lmeVars, Lme!ReaderGoroutine, Lme!Amt, Lme!ReaderReceives, Lme!ReaderEnds, Lme!ProcessConfirmation,
     Lme!LoadTempdata, Lme!ProcessData, Lme!AmtConfirms, Lme!AmtAnswers

LEMMA HandOverStep == ASSUME TypeOK, HandlingInv, OneHandOver, [Next]_vars PROVE OneHandOver'
  <1>0. ChannelType /\ timer \in [MsgId -> Lme!TimerPcs] BY LmeType DEF TypeOK, ChannelType
  <1> USE DEF OneHandOver, Lme!Pending
  <1>1. CASE ConnectLme
    <2>1. main = "connect" /\ cur' = cur /\ cur \in MsgId
      BY <1>1 DEF ConnectLme, Goto, HandlingInv, Handling
    <2>2. \A i \in MsgId : ~Lme!Pending(i) BY <2>1
    <2>3. CASE Lme!Listen(cur) /\ main' \in {"open", "shutdown"}
      BY <1>0, <2>1, <2>2, <2>3 DEF Lme!Listen
    <2>4. CASE timer' = timer /\ main' = "connect" BY <2>2, <2>4
    <2> QED BY <1>1, <2>3, <2>4 DEF ConnectLme, Goto, Lme!OpenChannel, Lme!RetryOpen, Lme!FailOpen
  <1>2. CASE CleanUp
    BY <1>0, <1>2 DEF CleanUp, Goto, Lme!CloseLme
  <1>3. ASSUME NEW i \in MsgId, ReceiveFromLme(i) PROVE OneHandOver'
    BY <1>0, <1>3 DEF ReceiveFromLme, Goto, Lme!HandOver
  <1>4. ASSUME NEW i \in MsgId, LmeTimer(i) PROVE OneHandOver'
    <2>1. UNCHANGED <<main, cur>> BY <1>4 DEF LmeTimer, mainVars
    <2>2. \A j \in MsgId : Lme!Pending(j)' <=> Lme!Pending(j)
      BY <1>0, <1>4 DEF LmeTimer, Lme!TimerGoroutine, Lme!TimerStarts, Lme!TimerFires, Lme!TimerClears, Lme!TimerCloses
    <2>3. main \in {"open", "send", "wait"} => cur \in MsgId BY DEF HandlingInv, Handling
    <2> QED BY <2>1, <2>2, <2>3
  <1>5. CASE timer' = timer
    <2>1. CASE TakeMessage BY <1>5, <2>1 DEF TakeMessage, Goto, AfterProcessMessage
    <2>2. CASE ConnectLme BY <1>1, <2>2
    <2>3. CASE WaitForChannel \/ SendLme BY <1>5, <2>3 DEF WaitForChannel, SendLme, Goto
    <2>4. CASE \E i \in MsgId : ReceiveFromLme(i) BY <1>3, <2>4
    <2> QED BY <1>5, <2>1, <2>2, <2>3, <2>4, MainMoves DEF Expecting
  <1> QED BY <1>1, <1>2, <1>3, <1>4, <1>5, TimerMoves

\* Which steps touch what AMT and the readers hold of a confirmation.
LEMMA MessageMoves ==
    ASSUME [Next]_vars
    PROVE  \/ ConnectLme \/ \E i \in MsgId : LmeReader(i) \/ Device(i)
           \/ /\ UNCHANGED <<inbox, reader_, held, wg, sender>>
              /\ SendLme \/ (\E i \in MsgId : LmeTimer(i)) \/ amt' = amt
  BY LmeCases DEF UseLme, SendLme, CleanUp, ReceiveFromLme, LmeTimer, Lme!Initialize, Lme!SendPayload,
     Lme!SendPayloadFails, Lme!lmeVars, Lme!CloseLme, Lme!HandOver, lmeVars, Lme!TimerGoroutine, Lme!TimerStarts,
     Lme!TimerFires, Lme!TimerClears, Lme!TimerCloses

LEMMA MessagesStep == ASSUME TypeOK, MessagesInv, [Next]_vars PROVE MessagesInv'
  <1>0. ChannelType BY LmeType DEF TypeOK
  <1> USE DEF MessagesInv, Lme!Processing
  <1>1. CASE ConnectLme
    <2>1. reader_' \in {reader_, [reader_ EXCEPT ![cur] = "receiving"]} \/ Lme!RetryOpen
      BY <1>1 DEF ConnectLme, Lme!OpenChannel, Lme!FailOpen, Lme!Listen
    <2>2. \A i \in MsgId : reader_'[i] \in {"processing", "appending"} => reader_'[i] = reader_[i]
      BY <1>0, <2>1 DEF Lme!RetryOpen, ChannelType
    <2>3. held' = held /\ (inbox' = inbox \/ inbox' = <<>>)
      BY <1>1 DEF ConnectLme, Lme!OpenChannel, Lme!FailOpen, Lme!RetryOpen
    <2>4. inbox' \in Seq(Messages)
      <3>1. <<>> \in Seq(Messages) OBVIOUS
      <3> QED BY <2>3, <3>1
    <2> QED BY <2>2, <2>3, <2>4
  <1>2. ASSUME NEW i \in MsgId, LmeReader(i) PROVE MessagesInv'
    <2>1. CASE Lme!ReaderReceives(i)
      <3>1. Head(inbox) \in Messages /\ Tail(inbox) \in Seq(Messages)
        BY <2>1 DEF Lme!ReaderReceives
      <3> QED BY <1>0, <2>1, <3>1 DEF Lme!ReaderReceives, ChannelType
    <2>2. CASE Lme!ReaderEnds(i) \/ Lme!ProcessConfirmation(i) \/ Lme!LoadTempdata(i) \/ Lme!ProcessData(i)
      BY <1>0, <2>2 DEF Lme!ReaderEnds, Lme!ProcessConfirmation, Lme!LoadTempdata, Lme!ProcessData, ChannelType
    <2> QED BY <1>2, <2>1, <2>2 DEF LmeReader, Lme!ReaderGoroutine
  <1>3. ASSUME NEW i \in MsgId, Device(i) PROVE MessagesInv'
    <2>0. amt[i] \in Channels BY <1>0 DEF ChannelType
    <2>1. CASE Lme!AmtConfirms(i)
      <3>1. Lme!Apf(i, 0, 0) \in Messages BY DEF Lme!Apf, Messages, Confirmations
      <3> QED BY <2>1, <3>1 DEF Lme!AmtConfirms
    <2>2. CASE Lme!AmtAnswers(i)
      <3>0. amt[i].given + 1 \in 1..Parts /\ amt[i].req \in MsgId
        BY <2>0, <2>2 DEF Channels, Lme!AmtAnswers
      <3>1. Lme!Apf(i, amt[i].req, amt[i].given + 1) \in Messages
        BY <3>0 DEF Lme!Apf, Messages, AnswerParts
      <3> QED BY <2>2, <3>1 DEF Lme!AmtAnswers
    <2> QED BY <1>3, <2>1, <2>2 DEF Device, Lme!Amt
  <1> QED BY <1>1, <1>2, <1>3, MessageMoves

(* A step that adds no confirmation and drops none the handler waits for.    *)
LEMMA ConfirmationKept ==
    ASSUME ChannelType, MessagesInv, ConfirmationInv,
           \A i \in MsgId : Asked(i)' => Asked(i),
           inbox' = inbox, held' = held,
           \A i \in MsgId : reader_'[i] = "processing" => reader_[i] = "processing",
           \A i \in MsgId : Owed(i) => Owed(i)'
    PROVE  ConfirmationInv'
  <1>1. \A k \in DOMAIN inbox : inbox[k].channel \in MsgId
    BY DEF MessagesInv, Messages, Confirmations, AnswerParts
  <1>2. \A i \in MsgId : Held(i) => held[i].channel \in MsgId
    BY DEF MessagesInv, Messages, Confirmations, AnswerParts, Held, Lme!Processing
  <1> QED BY <1>1, <1>2 DEF ConfirmationInv, Sent, Held

LEMMA ConfirmationStep ==
    ASSUME TypeOK, MessagesInv, HandlingInv, ConfirmationInv, [Next]_vars
    PROVE  ConfirmationInv'
  <1>0. ChannelType BY LmeType DEF TypeOK
  <1>a. main # "open" => /\ \A i \in MsgId : ~Asked(i) /\ ~Held(i)
                         /\ \A k \in DOMAIN inbox : ~Sent(k)
    BY DEF ConfirmationInv, Owed
  <1>1. CASE ConnectLme
    <2>1. /\ main = "connect" /\ cur' = cur /\ cur \in MsgId /\ held' = held
          /\ \A i \in MsgId : reader_'[i] = "processing" => reader_[i] = "processing"
      BY <1>0, <1>1 DEF ConnectLme, Goto, HandlingInv, Handling, Lme!OpenChannel, Lme!RetryOpen, Lme!FailOpen,
         Lme!Listen, ChannelType
    <2>2. \A i \in MsgId : ~Held(i)' BY <1>a, <2>1 DEF Held
    <2>3. \A k \in DOMAIN inbox' : ~Sent(k)'
      <3>1. inbox' = inbox \/ inbox' = <<>> BY <1>1 DEF ConnectLme, Lme!OpenChannel, Lme!RetryOpen, Lme!FailOpen
      <3> QED BY <1>a, <2>1, <3>1 DEF Sent
    <2>4. \A i \in MsgId : Asked(i)' => Owed(i)'
      <3>1. CASE Goto("connect", "open") /\ Lme!OpenChannel(cur)
        <4>1. \A i \in MsgId : Asked(i)' => i = cur
          BY <1>0, <1>a, <2>1, <3>1 DEF Lme!OpenChannel, Asked, ChannelType
        <4>2. wg' > 0 /\ main' = "open" BY <1>0, <3>1 DEF Lme!OpenChannel, Goto, ChannelType
        <4> QED BY <2>1, <4>1, <4>2 DEF Owed
      <3>2. CASE Lme!RetryOpen
        BY <3>2 DEF Lme!RetryOpen, Asked, Lme!NoChannel
      <3>3. CASE Lme!FailOpen(cur)
        BY <1>a, <2>1, <3>3 DEF Lme!FailOpen, Asked
      <3> QED BY <1>1, <3>1, <3>2, <3>3 DEF ConnectLme
    <2> QED BY <2>2, <2>3, <2>4 DEF ConfirmationInv
  <1>2. ASSUME NEW i \in MsgId, LmeReader(i) PROVE ConfirmationInv'
    <2>0. cur' = cur /\ main' = main BY <1>2 DEF LmeReader, mainVars
    <2>1. CASE Lme!ReaderReceives(i)
      <3>1. /\ inbox # <<>> /\ inbox \in Seq(Messages) /\ wg' = wg /\ amt' = amt
            /\ inbox' = Tail(inbox) /\ held' = [held EXCEPT ![i] = inbox[1]]
            /\ reader_' = [reader_ EXCEPT ![i] = "processing"]
            /\ reader_[i] = "receiving"
        BY <2>1 DEF Lme!ReaderReceives, MessagesInv
      <3>2. /\ Len(inbox') = Len(inbox) - 1 /\ 1 \in DOMAIN inbox
            /\ \A k \in DOMAIN inbox' : k + 1 \in DOMAIN inbox /\ k \in Nat /\ inbox'[k] = inbox[k + 1]
        BY <3>1
      <3>3. Held(i)' <=> Sent(1)
        BY <1>0, <3>1 DEF Held, Sent, MessagesInv, ChannelType
      <3>4. \A j \in MsgId \ {i} : (Held(j)' <=> Held(j)) /\ held'[j] = held[j]
        BY <1>0, <3>1 DEF Held, MessagesInv, ChannelType
      <3>5. ~Held(i) BY <3>1 DEF Held
      <3>6. \A k \in DOMAIN inbox' : Sent(k)' <=> Sent(k + 1) BY <3>2 DEF Sent
      <3>7. \A c : Owed(c)' <=> Owed(c) BY <2>0, <3>1 DEF Owed
      <3>8. \A j \in MsgId : Asked(j)' <=> Asked(j) BY <3>1 DEF Asked
      <3>9. \A j \in MsgId : Asked(j)' =>
              Owed(j)' /\ (\A k \in DOMAIN inbox' : ~Sent(k)') /\ \A l \in MsgId : ~Held(l)'
        BY <3>2, <3>3, <3>4, <3>6, <3>7, <3>8 DEF ConfirmationInv
      <3>10. \A k \in DOMAIN inbox' : Sent(k)' =>
              /\ Owed(inbox[k].channel)' /\ (\A l \in DOMAIN inbox' : Sent(l)' => l = k)
              /\ \A l \in MsgId : ~Held(l)'
        <4> SUFFICES ASSUME NEW k \in DOMAIN inbox', Sent(k)'
                     PROVE  /\ Owed(inbox[k].channel)' /\ (\A l \in DOMAIN inbox' : Sent(l)' => l = k)
                            /\ \A l \in MsgId : ~Held(l)'
          OBVIOUS
        <4>1. Sent(k + 1) /\ k + 1 \in DOMAIN inbox /\ k \in Nat /\ k + 1 # 1 /\ inbox'[k] = inbox[k + 1]
          <5>1. k >= 1 BY <3>1
          <5> QED BY <3>2, <3>6, <5>1
        <4>2. ~Sent(1) BY <3>2, <4>1 DEF ConfirmationInv
        <4>3. \A l \in MsgId : ~Held(l)' BY <3>3, <3>4, <4>1, <4>2 DEF ConfirmationInv
        <4>4. \A l \in DOMAIN inbox' : Sent(l)' => l = k BY <3>2, <3>6, <4>1 DEF ConfirmationInv
        <4>5. Owed(inbox[k + 1].channel) BY <4>1 DEF ConfirmationInv
        <4>6. Owed(inbox[k].channel)' BY <2>0, <3>1, <4>1, <4>5 DEF Owed
        <4> QED BY <4>3, <4>4, <4>6
      <3>11. \A j \in MsgId : Held(j)' =>
              Owed(held[j].channel)' /\ \A l \in MsgId : Held(l)' => l = j
        <4>1. CASE Sent(1)
          <5>1. Owed(inbox[1].channel) /\ \A l \in MsgId : ~Held(l) BY <3>2, <4>1 DEF ConfirmationInv
          <5>2. held'[i] = inbox[1] BY <3>1 DEF MessagesInv
          <5>3. Owed(held[i].channel)' BY <2>0, <3>1, <5>1, <5>2 DEF Owed
          <5> QED BY <3>4, <5>1, <5>3
        <4>2. CASE ~Sent(1)
          <5>1. \A j \in MsgId : Held(j)' => Held(j) /\ j # i /\ held'[j] = held[j] BY <3>3, <3>4, <4>2
          <5>2. \A j \in MsgId : Held(j) => Owed(held[j].channel) /\ \A l \in MsgId : Held(l) => l = j
            BY DEF ConfirmationInv
          <5>3. \A j \in MsgId : Held(j)' => Owed(held[j].channel)' BY <2>0, <3>1, <5>1, <5>2 DEF Owed
          <5> QED BY <5>1, <5>2, <5>3
        <4> QED BY <4>1, <4>2
      <3> QED BY <3>9, <3>10, <3>11 DEF ConfirmationInv
    <2>2. CASE Lme!ReaderEnds(i) \/ Lme!LoadTempdata(i) \/ Lme!ProcessData(i)
      <3>1. /\ UNCHANGED <<inbox, held, amt, wg>>
            /\ \A j \in MsgId : reader_'[j] = "processing" => reader_[j] = "processing"
        BY <1>0, <2>2 DEF Lme!ReaderEnds, Lme!LoadTempdata, Lme!ProcessData, ChannelType
      <3> QED BY <1>0, <2>0, <3>1, ConfirmationKept DEF Owed, Asked
    <2>3. CASE Lme!ProcessConfirmation(i)
      <3>1. Held(i) BY <2>3 DEF Lme!ProcessConfirmation, Held
      <3>2. /\ \A j \in MsgId : ~Asked(j) /\ (Held(j) => j = i)
            /\ \A k \in DOMAIN inbox : ~Sent(k)
        BY <3>1 DEF ConfirmationInv
      <3>3. /\ \A j \in MsgId : ~Asked(j)' /\ ~Held(j)'
            /\ \A k \in DOMAIN inbox' : ~Sent(k)'
        BY <1>0, <2>3, <3>2 DEF Lme!ProcessConfirmation, Asked, Held, Sent, ChannelType
      <3> QED BY <3>3 DEF ConfirmationInv
    <2> QED BY <1>2, <2>1, <2>2, <2>3 DEF LmeReader, Lme!ReaderGoroutine
  <1>3. ASSUME NEW i \in MsgId, Device(i) PROVE ConfirmationInv'
    <2>0. cur' = cur /\ main' = main /\ UNCHANGED <<wg, reader_, held>>
      BY <1>3 DEF Device, mainVars, Lme!Amt, Lme!AmtConfirms, Lme!AmtAnswers
    <2>1. CASE Lme!AmtConfirms(i)
      <3>1. Asked(i) BY <2>1 DEF Lme!AmtConfirms, Asked
      <3>2. /\ Owed(i) /\ \A j \in MsgId : ~Held(j) /\ (Asked(j) => j = i)
            /\ \A k \in DOMAIN inbox : ~Sent(k)
        BY <3>1 DEF ConfirmationInv, Owed
      <3>3. \A j \in MsgId : ~Asked(j)' /\ ~Held(j)'
        BY <1>0, <2>0, <2>1, <3>2 DEF Lme!AmtConfirms, Asked, Held, ChannelType
      <3>4. inbox' = Append(inbox, Lme!Apf(i, 0, 0)) /\ inbox \in Seq(Messages)
        BY <2>1 DEF Lme!AmtConfirms, MessagesInv
      <3>5. \A k \in DOMAIN inbox' : Sent(k)' => k = Len(inbox) + 1 /\ inbox'[k].channel = i
        BY <3>2, <3>4 DEF Sent, Lme!Apf
      <3>6. Owed(i)' BY <2>0, <3>2 DEF Owed
      <3>7. \A k \in DOMAIN inbox' : Sent(k)' => Owed(inbox[k].channel)' BY <3>5, <3>6 DEF Owed
      <3> QED BY <3>3, <3>5, <3>7 DEF ConfirmationInv
    <2>2. CASE Lme!AmtAnswers(i)
      <3>1. inbox \in Seq(Messages) /\ inbox' = Append(inbox, Lme!Apf(i, amt[i].req, amt[i].given + 1))
        BY <2>2 DEF Lme!AmtAnswers, MessagesInv
      <3>2. amt[i].given + 1 # 0 BY <1>0 DEF ChannelType, Channels
      <3>3. \A k \in DOMAIN inbox' : Sent(k)' => k \in DOMAIN inbox /\ Sent(k) /\ inbox'[k] = inbox[k]
        BY <3>1, <3>2 DEF Sent, Lme!Apf
      <3>4. \A j \in MsgId : Asked(j)' => Asked(j)
        BY <1>0, <2>2 DEF Lme!AmtAnswers, Asked, ChannelType
      <3>5. \A j \in MsgId : Held(j)' <=> Held(j) BY <2>0 DEF Held
      <3>6. \A c : Owed(c)' <=> Owed(c) BY <2>0 DEF Owed
      <3>7. \A j \in MsgId : Asked(j)' =>
              Owed(j)' /\ (\A k \in DOMAIN inbox' : ~Sent(k)') /\ \A l \in MsgId : ~Held(l)'
        BY <3>3, <3>4, <3>5, <3>6 DEF ConfirmationInv
      <3>8. \A k \in DOMAIN inbox' : Sent(k)' =>
              Owed(inbox[k].channel)' /\ (\A l \in DOMAIN inbox' : Sent(l)' => l = k) /\ \A l \in MsgId : ~Held(l)'
        BY <2>0, <3>3, <3>5 DEF ConfirmationInv, Owed
      <3>9. \A j \in MsgId : Held(j)' => Owed(held[j].channel)' /\ \A l \in MsgId : Held(l)' => l = j
        BY <2>0, <3>5 DEF ConfirmationInv, Owed
      <3> QED BY <3>7, <3>8, <3>9 DEF ConfirmationInv
    <2> QED BY <1>3, <2>1, <2>2 DEF Device, Lme!Amt
  <1>4. CASE /\ UNCHANGED <<inbox, reader_, held, wg, sender>>
             /\ SendLme \/ (\E i \in MsgId : LmeTimer(i)) \/ amt' = amt
    <2>1. \A i \in MsgId : Asked(i)' => Asked(i)
      <3>1. CASE amt' = amt BY <3>1 DEF Asked
      <3>2. CASE SendLme
        <4>1. amt' = amt \/ amt' = [amt EXCEPT ![sender] = [amt[sender] EXCEPT !.req = cur]]
          BY <3>2 DEF SendLme, Lme!SendPayload, Lme!SendPayloadFails, Lme!lmeVars
        <4>2. \A j \in MsgId : [amt[j] EXCEPT !.req = cur].state = amt[j].state
          BY <1>0 DEF ChannelType, Channels
        <4>3. \A j \in MsgId : amt'[j] = amt[j] \/ amt'[j] = [amt[j] EXCEPT !.req = cur]
          BY <1>0, <4>1 DEF ChannelType
        <4> QED BY <4>2, <4>3 DEF Asked
      <3>3. ASSUME NEW i \in MsgId, LmeTimer(i) PROVE \A j \in MsgId : Asked(j)' => Asked(j)
        <4>1. amt' = amt \/ amt' = [amt EXCEPT ![sender] = [amt[sender] EXCEPT !.state = "closed"]]
          BY <3>3 DEF LmeTimer, Lme!TimerGoroutine, Lme!TimerStarts, Lme!TimerFires, Lme!TimerClears, Lme!TimerCloses
        <4> QED BY <1>0, <4>1 DEF Asked, ChannelType, Channels
      <3> QED BY <1>4, <3>1, <3>2, <3>3
    <2>2. CASE main' = main /\ cur' = cur
      BY <1>0, <1>4, <2>1, <2>2, ConfirmationKept DEF Owed
    <2>3. CASE main # "open"
      BY <1>0, <1>4, <1>a, <2>1, <2>3, ConfirmationKept DEF Owed
    <2>4. CASE WaitForChannel
      <3>1. wg = 0 BY <2>4 DEF WaitForChannel, Lme!Confirmed
      <3> QED BY <1>0, <1>4, <2>1, <3>1, ConfirmationKept DEF Owed
    <2>5. \/ main' = main /\ cur' = cur
          \/ main # "open" \/ WaitForChannel
      BY MainMoves DEF TakeMessage, ConnectLme, SendLme, ReceiveFromLme, Goto
    <2> QED BY <2>2, <2>3, <2>4, <2>5
  <1> QED BY <1>1, <1>2, <1>3, <1>4, MessageMoves

LEMMA ChannelStep ==
    ASSUME TypeOK, ConfirmationInv, ChannelInv, OwnChannel, [Next]_vars
    PROVE  ChannelInv' /\ OwnChannel'
  <1>0. ChannelType BY LmeType DEF TypeOK
  <1> USE DEF ChannelInv, OwnChannel
  <1>1. CASE ConnectLme
    <2>1. main' \in {"connect", "shutdown"} \/ (main' = "open" /\ wg' = wg + 1)
      BY <1>1 DEF ConnectLme, Goto, Lme!OpenChannel
    <2> QED BY <1>0, <2>1 DEF ChannelType
  <1>2. ASSUME NEW i \in MsgId, LmeReader(i) PROVE ChannelInv' /\ OwnChannel'
    <2>0. cur' = cur /\ main' = main BY <1>2 DEF LmeReader, mainVars
    <2>1. CASE Lme!ProcessConfirmation(i)
      <3>1. Held(i) /\ sender' = held[i].channel BY <2>1 DEF Lme!ProcessConfirmation, Held
      <3>2. sender' = cur /\ main = "open" BY <3>1 DEF ConfirmationInv, Owed
      <3> QED BY <2>0, <3>2
    <2>2. CASE UNCHANGED <<wg, sender>> BY <2>0, <2>2
    <2> QED
      BY <1>2, <2>1, <2>2 DEF LmeReader, Lme!ReaderGoroutine, Lme!ReaderReceives, Lme!ReaderEnds, Lme!LoadTempdata,
         Lme!ProcessData
  <1>3. CASE UNCHANGED <<wg, sender>>
    <2>1. CASE WaitForChannel
      BY <1>3, <2>1 DEF WaitForChannel, Lme!Confirmed, Goto
    <2>2. CASE TakeMessage \/ SendLme \/ \E i \in MsgId : ReceiveFromLme(i)
      BY <2>2 DEF TakeMessage, SendLme, ReceiveFromLme, Goto, AfterProcessMessage
    <2> QED BY <1>1, <1>3, <2>1, <2>2, MainMoves
  <1>4. ASSUME NEW i \in MsgId, Device(i) PROVE UNCHANGED <<wg, sender>>
    BY <1>4 DEF Device, Lme!Amt, Lme!AmtConfirms, Lme!AmtAnswers
  <1> QED BY <1>1, <1>2, <1>3, <1>4, MessageMoves

-----------------------------------------------------------------------------
(* A device that answers in time.  When the goroutines are faster than the   *)
(* device and its timers (Slow) one message is on its way at a time, and the *)
(* buffer holds what AMT has sent for the message at hand.                   *)

\* The reader of RPS is at most one message ahead of the main goroutine.
NumberedInv == nread = IF reader = "sending" THEN cur + 1 ELSE cur

\* AMT is heard: a reader of the handle its channels were opened on is there,
\* as long as no read fails.
Early == {"prepare", "probe"}
HeardInv ==
    /\ "read" \notin faults => \A i \in MsgId : fd = "open" /\ amt[i].state \in {"asked", "open"} =>
        \E j \in MsgId : reader_[j] \in {"receiving", "processing", "appending"}
    /\ main \in Early => \A i \in MsgId : amt[i].state = "none" /\ timer[i] = "none"

\* What AMT knows of a channel: nothing before it is confirmed, then one request.
AmtInv ==
    /\ \A i \in MsgId : amt[i].req \in {0, i} /\ (amt[i].req = 0 => amt[i].given = 0)
    /\ \A i \in MsgId : Asked(i) => amt[i].req = 0 /\ sender < cur
    /\ sender <= cur /\ (main = "connect" => sender < cur)

Busy(i) == Lme!Processing(i)
OneMessage ==
    /\ Len(inbox) <= 1
    /\ Len(inbox) = 1 => \A i \in MsgId : ~Busy(i)
    /\ \A i, j \in MsgId : Busy(i) /\ Busy(j) => i = j

\* While the timer of the request runs its answer is collected.
Serving == {"open", "send", "wait"}
Collecting == main \in Serving /\ timer[cur] \in {"spawned", "armed"}
Finishing == \E i \in MsgId : timer[i] \in {"clearing", "closing"}
Clearing == \E i \in MsgId : timer[i] = "clearing"

\* A part of an answer is on its way.
InInbox == inbox # <<>> /\ inbox[1].part > 0
InHand(i) == Busy(i) /\ held[i].part > 0
Flying == InInbox \/ \E i \in MsgId : InHand(i)
Prefix(n) == [k \in 1..n |-> <<cur, k>>]
Collected == IF Flying THEN amt[cur].given - 1 ELSE amt[cur].given

TimersInv ==
    /\ \A i \in MsgId : Lme!Pending(i) => i = cur /\ main \in Serving
    /\ \A i \in MsgId : timer[i] = "armed" => tref = i
    /\ main \in Serving => fd = "open"
    /\ \A i \in MsgId : i > cur \/ (i = cur /\ main = "connect") => timer[i] = "none"
\* Nothing is owed when the request's timer has run out.
QuietInv ==
    /\ \A i \in MsgId : amt[i].state = "open" /\ amt[i].req # 0 /\ amt[i].given < Parts => i = cur /\ Collecting
    /\ \A i \in MsgId : Asked(i) \/ Busy(i) => Collecting
    /\ inbox # <<>> => Collecting
    /\ main = "send" \/ (main = "open" /\ wg = 0) => Collecting
CollectInv ==
    /\ InInbox => inbox[1].of = cur /\ inbox[1].part = amt[cur].given
    /\ \A i \in MsgId : InHand(i) => held[i].of = cur /\ held[i].part = amt[cur].given
    /\ Collecting => amt[cur].state \in {"asked", "open"} /\ (Finishing => Asked(cur))
    /\ Collecting /\ ~Clearing => temp = Prefix(Collected)
    /\ main \notin Serving => temp = <<>> \/ Clearing
    /\ \A i \in MsgId : timer[i] = "sending" => snap[i] \in {<<>>, Answer(i, Parts)}
ForwardInv == main = "forward" => data \in {<<>>, Answer(cur, Parts)}
\* Nobody has touched Tempdata since a reader loaded it.
LoadedInv == \A i \in MsgId : reader_[i] = "appending" => loaded[i] = temp

\* Until the session ends.
InTime == faults \cap {"read", "late"} = {} /\ main \notin Over
InTimeInv == InTime => TimersInv /\ QuietInv /\ CollectInv /\ ForwardInv /\ LoadedInv

LineInv == NumberedInv /\ HeardInv /\ AmtInv /\ ("read" \notin faults => OneMessage) /\ InTimeInv

\* A step that leaves the request and its channel alone.
Calm ==
    /\ cur' = cur /\ (UNCHANGED lmeVars \/ UseLme)
    /\ main' \in Early => main \in Early
    /\ main' \notin Over => main \notin Over
    /\ \/ UNCHANGED <<main, data>>
       \/ main \notin Serving \cup {"connect"} /\ main' \notin Serving \cup {"connect", "forward"}

LEMMA PlaceMoves ==
    ASSUME [Next]_vars
    PROVE  \/ (TakeMessage /\ UNCHANGED lmeVars) \/ ConnectLme \/ WaitForChannel \/ SendLme \/ CleanUp
           \/ \E i \in MsgId : ReceiveFromLme(i)
           \/ (LmeStep /\ UNCHANGED mainVars)
           \/ Calm
  <1>1. CASE OwnStep
    BY <1>1 DEF OwnStep, MainStep, SessionStep, Exit, UserInterrupts, UseLme, PrepareInitialMessage, DialRps,
       StartSession, TakeClosed, TakeInterrupt, AnswerHeartbeat, Forward, WaitAgain, CloseChannels, Goto, Early, Over,
       Serving, Calm
  <1>2. CASE UNCHANGED <<lmeVars, main, cur, data>>
    BY <1>2 DEF Calm
  <1> QED BY <1>1, <1>2, MainCases DEF vars, linkVars, mainVars, LinkOnly

LEMMA NumberedStep == ASSUME TypeOK, NumberedInv, [Next]_vars PROVE NumberedInv'
  <1>0. cur \in Nat /\ nread \in Nat BY CurBound
  <1>1. TakeMessage \/ cur' = cur
    BY MainMoves DEF ConnectLme, WaitForChannel, SendLme, ReceiveFromLme
  <1>2. CASE TakeMessage BY <1>0, <1>2 DEF TakeMessage, NumberedInv
  <1>3. CASE LinkOnly
    BY <1>0, <1>3 DEF LinkOnly, LinkBreaks, ReadMessage, ReadFails, RpsSends, NumberedInv, mainVars
  <1>4. CASE StartSession BY <1>0, <1>4 DEF StartSession, ListenToRps, NumberedInv
  <1>5. CASE UNCHANGED <<nread, reader, cur>> BY <1>0, <1>5 DEF NumberedInv
  <1> QED BY <1>1, <1>2, <1>3, <1>4, <1>5, ReaderMoves

LEMMA FaultsStay == ASSUME [Next]_vars PROVE faults' = faults
  <1>1. LmeStep => faults' = faults
    BY DEF LmeStep, LmeReader, LmeTimer, Device, Lme!ReaderGoroutine, Lme!TimerGoroutine, Lme!Amt, Lme!ReaderReceives,
       Lme!ReaderEnds, Lme!ProcessConfirmation, Lme!LoadTempdata, Lme!ProcessData, Lme!TimerStarts, Lme!TimerFires,
       Lme!TimerClears, Lme!TimerCloses, Lme!AmtConfirms, Lme!AmtAnswers
  <1>2. UseLme \/ CleanUp \/ UNCHANGED lmeVars => faults' = faults
    BY DEF UseLme, CleanUp, Lme!Initialize, Lme!CloseLme, lmeVars
  <1>3. CASE ConnectLme \/ SendLme \/ \E i \in MsgId : ReceiveFromLme(i)
    BY <1>3 DEF ConnectLme, SendLme, ReceiveFromLme, Lme!OpenChannel, Lme!RetryOpen, Lme!FailOpen, Lme!SendPayload,
       Lme!SendPayloadFails, Lme!lmeVars, Lme!HandOver
  <1> QED BY <1>1, <1>2, <1>3, LmeCases DEF LmeStep

-----------------------------------------------------------------------------
(* One message at a time. *)

LEMMA HeardStep == ASSUME TypeOK, HandlingInv, HeardInv, [Next]_vars PROVE HeardInv'
  <1>0. ChannelType BY LmeType DEF TypeOK
  <1>n. main' \in Early => main \in Early /\ UNCHANGED <<amt, timer>>
    <2>1. main' \in Early => main \in Early
      BY PlaceMoves DEF TakeMessage, AfterProcessMessage, ConnectLme, WaitForChannel, SendLme, CleanUp, ReceiveFromLme,
         mainVars, Goto, Early, Calm
    <2>2. ASSUME main \in Early, LmeStep PROVE UNCHANGED <<amt, timer>>
      BY <2>2, <1>0 DEF HeardInv, LmeStep, LmeReader, LmeTimer, Device, Lme!ReaderGoroutine, Lme!ReaderReceives,
         Lme!ReaderEnds, Lme!ProcessConfirmation, Lme!LoadTempdata, Lme!ProcessData, Lme!TimerGoroutine,
         Lme!TimerStarts, Lme!TimerFires, Lme!TimerClears, Lme!TimerCloses, Lme!Amt, Lme!AmtConfirms, Lme!AmtAnswers
    <2> QED BY <2>1, <2>2, PlaceMoves
      DEF TakeMessage, AfterProcessMessage, ConnectLme, WaitForChannel, SendLme, CleanUp, ReceiveFromLme, Goto, Early, Calm,
          lmeVars, UseLme, Lme!Initialize
  <1>f. faults' = faults BY FaultsStay
  <1> USE <1>f DEF HeardInv
  <1>1. CASE ConnectLme
    <2>1. main' \notin Early /\ cur \in MsgId BY <1>1 DEF ConnectLme, Goto, HandlingInv, Handling, Early
    <2>2. CASE Lme!OpenChannel(cur) \/ Lme!FailOpen(cur)
      <3>1. reader_'[cur] = "receiving"
        BY <1>0, <2>1, <2>2 DEF Lme!OpenChannel, Lme!FailOpen, Lme!Listen, ChannelType
      <3> QED BY <2>1, <3>1
    <2>3. CASE Lme!RetryOpen
      BY <2>1, <2>3 DEF Lme!RetryOpen, Lme!NoChannel
    <2> QED BY <1>1, <2>2, <2>3 DEF ConnectLme
  <1>2. CASE UseLme
    <2>1. amt' = amt /\ main \in Early /\ main' \notin Early BY <1>2 DEF UseLme, Goto, Lme!Initialize, Early
    <2> QED BY <2>1
  <1>3. ASSUME NEW i \in MsgId, LmeReader(i) PROVE HeardInv'
    <2>1. \/ reader_'[i] \in {"receiving", "processing", "appending"}
          \/ fd' = "closed" \/ "read" \in faults
      BY <1>0, <1>3 DEF LmeReader, Lme!ReaderGoroutine, Lme!ReaderReceives, Lme!ReaderEnds, Lme!ProcessConfirmation,
         Lme!LoadTempdata, Lme!ProcessData, ChannelType
    <2> QED BY <1>n, <2>1
  <1>4. ASSUME NEW i \in MsgId, Device(i) PROVE HeardInv'
    <2>1. UNCHANGED <<fd, reader_>> /\ amt[i].state \in {"asked", "open"} /\ fd = "open"
      BY <1>4 DEF Device, Lme!Amt, Lme!AmtConfirms, Lme!AmtAnswers
    <2> QED BY <1>n, <2>1
  <1>5. ASSUME UNCHANGED <<fd, reader_>>,
               \A j \in MsgId : amt'[j].state \in {"asked", "open"} => amt[j].state \in {"asked", "open"}
        PROVE  HeardInv'
    BY <1>n, <1>5
  <1>6. CASE SendLme
    <2>1. UNCHANGED <<fd, reader_>> BY <1>6 DEF SendLme, Lme!SendPayload, Lme!SendPayloadFails, Lme!lmeVars
    <2>2. amt' = amt \/ amt' = [amt EXCEPT ![sender] = [amt[sender] EXCEPT !.req = cur]]
      BY <1>6 DEF SendLme, Lme!SendPayload, Lme!SendPayloadFails, Lme!lmeVars
    <2>3. \A j \in MsgId : [amt[j] EXCEPT !.req = cur].state = amt[j].state
      BY <1>0 DEF ChannelType, Channels
    <2>4. \A j \in MsgId : amt'[j] = amt[j] \/ amt'[j] = [amt[j] EXCEPT !.req = cur]
      BY <1>0, <2>2 DEF ChannelType
    <2> QED BY <1>5, <2>1, <2>3, <2>4
  <1>7. ASSUME NEW i \in MsgId, LmeTimer(i) PROVE HeardInv'
    <2>1. UNCHANGED <<fd, reader_>>
      BY <1>7 DEF LmeTimer, Lme!TimerGoroutine, Lme!TimerStarts, Lme!TimerFires, Lme!TimerClears, Lme!TimerCloses
    <2>2. amt' = amt \/ amt' = [amt EXCEPT ![sender] = [amt[sender] EXCEPT !.state = "closed"]]
      BY <1>7 DEF LmeTimer, Lme!TimerGoroutine, Lme!TimerStarts, Lme!TimerFires, Lme!TimerClears, Lme!TimerCloses
    <2>3. \A j \in MsgId : [amt[j] EXCEPT !.state = "closed"].state = "closed" BY <1>0 DEF ChannelType, Channels
    <2>4. \A j \in MsgId : amt'[j] = amt[j] \/ amt'[j] = [amt[j] EXCEPT !.state = "closed"]
      BY <1>0, <2>2 DEF ChannelType
    <2> QED BY <1>5, <2>1, <2>3, <2>4
  <1>8. CASE UNCHANGED lmeVars \/ \E i \in MsgId : ReceiveFromLme(i)
    BY <1>5, <1>8 DEF lmeVars, ReceiveFromLme, Lme!HandOver
  <1>9. CASE CleanUp
    <2>1. fd' = "closed" /\ main' \notin Early BY <1>9 DEF CleanUp, Goto, Lme!CloseLme, Early
    <2> QED BY <2>1
  <1> QED BY <1>1, <1>2, <1>3, <1>4, <1>6, <1>7, <1>8, <1>9, LmeCases

LEMMA OneMessageStep ==
    ASSUME Slow, "read" \notin faults, TypeOK, MessagesInv, HeardInv, OneMessage, [Next]_vars
    PROVE  OneMessage'
  <1>0. ChannelType BY LmeType DEF TypeOK
  <1> USE DEF OneMessage, MessagesInv
  <1>1. CASE ConnectLme
    <2>1. inbox' = inbox \/ inbox' = <<>> BY <1>1 DEF ConnectLme, Lme!OpenChannel, Lme!RetryOpen, Lme!FailOpen
    <2>2. \A i \in MsgId : Busy(i)' => Busy(i)
      BY <1>0, <1>1 DEF ConnectLme, Lme!OpenChannel, Lme!RetryOpen, Lme!FailOpen, Lme!Listen, Busy, Lme!Processing,
         ChannelType
    <2>3. Len(inbox') <= 1 /\ (Len(inbox') = 1 => inbox' = inbox)
      <3>1. Len(<<>>) = 0 OBVIOUS
      <3> QED BY <2>1, <3>1
    <2> QED BY <2>2, <2>3
  <1>2. ASSUME NEW i \in MsgId, LmeReader(i) PROVE OneMessage'
    <2>1. CASE Lme!ReaderReceives(i)
      <3>1. inbox # <<>> /\ inbox' = Tail(inbox) /\ reader_' = [reader_ EXCEPT ![i] = "processing"]
        BY <2>1 DEF Lme!ReaderReceives
      <3>2. Len(inbox) = 1 /\ Len(inbox') = 0
        <4>1. inbox \in Seq(Messages) /\ Len(inbox) \in Nat /\ Len(inbox) # 0 BY <3>1
        <4>0. \A n \in Nat : n # 0 /\ n <= 1 => n = 1 OBVIOUS
        <4>2. Len(inbox) = 1 BY <4>0, <4>1, Zenon DEF OneMessage
        <4> QED BY <3>1, <4>1, <4>2
      <3>3. \A j \in MsgId : Busy(j)' => j = i BY <1>0, <3>1, <3>2 DEF Busy, Lme!Processing, ChannelType
      <3> QED BY <3>2, <3>3
    <2>2. CASE Lme!ReaderEnds(i) \/ Lme!ProcessConfirmation(i) \/ Lme!LoadTempdata(i) \/ Lme!ProcessData(i)
      BY <1>0, <2>2 DEF Lme!ReaderEnds, Lme!ProcessConfirmation, Lme!LoadTempdata, Lme!ProcessData, Busy,
         Lme!Processing, ChannelType
    <2> QED BY <1>2, <2>1, <2>2 DEF LmeReader, Lme!ReaderGoroutine
  <1>3. ASSUME NEW i \in MsgId, Device(i) PROVE OneMessage'
    <2>1. Lme!Settled /\ reader_' = reader_ /\ (\E m : inbox' = Append(inbox, m)) /\ fd = "open" /\ amt[i].state \in {"asked", "open"}
      BY <1>3 DEF Device, Lme!Amt, Lme!AmtConfirms, Lme!AmtAnswers
    <2>2. \A j \in MsgId : ~Busy(j) /\ ~Busy(j)' BY <2>1 DEF Lme!Settled, Busy, Lme!Processing
    <2>3. inbox = <<>>
      <3>1. PICK j \in MsgId : reader_[j] \in {"receiving", "processing", "appending"} BY <2>1 DEF HeardInv
      <3> QED BY <2>1, <3>1 DEF Lme!Settled, Lme!Processing
    <2>4. Len(inbox') = 1 BY <2>1, <2>3
    <2> QED BY <2>2, <2>4
  <1> QED BY <1>1, <1>2, <1>3, MessageMoves DEF Busy, Lme!Processing

LEMMA AmtStep ==
    ASSUME TypeOK, MessagesInv, HandlingInv, ConfirmationInv, OwnChannel, NumberedInv, AmtInv, [Next]_vars
    PROVE  AmtInv'
  <1>0. ChannelType /\ cur \in 0..MaxMsgs BY LmeType, CurBound DEF TypeOK
  <1> USE DEF AmtInv
  <1>1. CASE ConnectLme
    <2>1. main = "connect" /\ cur' = cur /\ cur \in MsgId BY <1>1 DEF ConnectLme, Goto, HandlingInv, Handling
    <2>2. sender' = sender /\ sender < cur BY <1>1, <2>1 DEF ConnectLme, Lme!OpenChannel, Lme!RetryOpen, Lme!FailOpen
    <2>3. amt' = amt \/ Lme!RetryOpen \/ Lme!OpenChannel(cur) BY <1>1 DEF ConnectLme, Lme!FailOpen
    <2>4. \A i \in MsgId : amt'[i] = amt[i] \/ (amt'[i].req = 0 /\ amt'[i].given = 0)
      <3>1. CASE Lme!RetryOpen BY <3>1 DEF Lme!RetryOpen, Lme!NoChannel
      <3>2. CASE Lme!OpenChannel(cur)
        BY <1>0, <3>2 DEF Lme!OpenChannel, Lme!NoChannel, ChannelType
      <3> QED BY <2>3, <3>1, <3>2
    <2> QED BY <1>0, <2>1, <2>2, <2>4 DEF Asked, ChannelType, Channels
  <1>2. ASSUME NEW i \in MsgId, LmeReader(i) PROVE AmtInv'
    <2>0. main' = main /\ cur' = cur /\ amt' = amt
      BY <1>2 DEF LmeReader, mainVars, Lme!ReaderGoroutine, Lme!ReaderReceives, Lme!ReaderEnds,
         Lme!ProcessConfirmation, Lme!LoadTempdata, Lme!ProcessData
    <2>1. CASE Lme!ProcessConfirmation(i)
      <3>1. Held(i) /\ sender' = held[i].channel BY <2>1 DEF Lme!ProcessConfirmation, Held
      <3>2. sender' = cur /\ main = "open" /\ \A j \in MsgId : ~Asked(j) BY <3>1 DEF ConfirmationInv, Owed
      <3> QED BY <1>0, <2>0, <3>2 DEF Asked
    <2>2. CASE sender' = sender BY <2>0, <2>2 DEF Asked
    <2> QED
      BY <1>2, <2>1, <2>2 DEF LmeReader, Lme!ReaderGoroutine, Lme!ReaderReceives, Lme!ReaderEnds, Lme!LoadTempdata,
         Lme!ProcessData
  <1>3. ASSUME NEW i \in MsgId, Device(i) PROVE AmtInv'
    <2>0. main' = main /\ cur' = cur /\ sender' = sender /\ amt[i] \in Channels
      BY <1>0, <1>3 DEF Device, mainVars, Lme!Amt, Lme!AmtConfirms, Lme!AmtAnswers, ChannelType
    <2>1. CASE Lme!AmtConfirms(i)
      <3>1. amt' = [amt EXCEPT ![i] = [amt[i] EXCEPT !.state = "open"]] BY <2>1 DEF Lme!AmtConfirms
      <3>2. /\ [amt[i] EXCEPT !.state = "open"].req = amt[i].req
            /\ [amt[i] EXCEPT !.state = "open"].given = amt[i].given
            /\ [amt[i] EXCEPT !.state = "open"].state = "open"
        BY <2>0 DEF Channels
      <3>3. \A j \in MsgId : amt'[j] = amt[j] \/ (j = i /\ amt'[j] = [amt[i] EXCEPT !.state = "open"])
        BY <1>0, <3>1 DEF ChannelType
      <3> QED BY <2>0, <3>2, <3>3 DEF Asked
    <2>2. CASE Lme!AmtAnswers(i)
      <3>1. amt' = [amt EXCEPT ![i] = [amt[i] EXCEPT !.given = amt[i].given + 1]] /\ amt[i].req # 0 /\ amt[i].state = "open"
        BY <2>2 DEF Lme!AmtAnswers
      <3>2. /\ [amt[i] EXCEPT !.given = amt[i].given + 1].req = amt[i].req
            /\ [amt[i] EXCEPT !.given = amt[i].given + 1].state = "open"
        BY <2>0, <3>1 DEF Channels
      <3>3. \A j \in MsgId : amt'[j] = amt[j] \/ (j = i /\ amt'[j] = [amt[i] EXCEPT !.given = amt[i].given + 1])
        BY <1>0, <3>1 DEF ChannelType
      <3> QED BY <2>0, <3>1, <3>2, <3>3 DEF Asked
    <2> QED BY <1>3, <2>1, <2>2 DEF Device, Lme!Amt
  <1>4. CASE SendLme
    <2>1. cur' = cur /\ main = "send" /\ main' # "connect" /\ sender' = sender /\ sender = cur /\ cur \in MsgId
      BY <1>4 DEF SendLme, Goto, Lme!SendPayload, Lme!SendPayloadFails, Lme!lmeVars, OwnChannel, HandlingInv, Handling
    <2>2. amt' = amt \/ (amt' = [amt EXCEPT ![cur] = [amt[cur] EXCEPT !.req = cur]] /\ amt[cur].state = "open")
      BY <1>4, <2>1 DEF SendLme, Lme!SendPayload, Lme!SendPayloadFails, Lme!lmeVars
    <2>3. /\ [amt[cur] EXCEPT !.req = cur].state = amt[cur].state
          /\ [amt[cur] EXCEPT !.req = cur].req = cur /\ cur # 0
      BY <1>0, <2>1 DEF ChannelType, Channels, MsgId
    <2>4. \A j \in MsgId : amt'[j] = amt[j] \/ (j = cur /\ amt[cur].state = "open" /\ amt'[j] = [amt[cur] EXCEPT !.req = cur])
      BY <1>0, <2>1, <2>2 DEF ChannelType
    <2> QED BY <2>1, <2>3, <2>4 DEF Asked
  <1>5. ASSUME NEW i \in MsgId, LmeTimer(i) PROVE AmtInv'
    <2>1. main' = main /\ cur' = cur /\ sender' = sender
      BY <1>5 DEF LmeTimer, mainVars, Lme!TimerGoroutine, Lme!TimerStarts, Lme!TimerFires, Lme!TimerClears,
         Lme!TimerCloses
    <2>2. amt' = amt \/ amt' = [amt EXCEPT ![sender] = [amt[sender] EXCEPT !.state = "closed"]]
      BY <1>5 DEF LmeTimer, Lme!TimerGoroutine, Lme!TimerStarts, Lme!TimerFires, Lme!TimerClears, Lme!TimerCloses
    <2>3. \A j \in MsgId : /\ [amt[j] EXCEPT !.state = "closed"].state = "closed"
                           /\ [amt[j] EXCEPT !.state = "closed"].req = amt[j].req
                           /\ [amt[j] EXCEPT !.state = "closed"].given = amt[j].given
      BY <1>0 DEF ChannelType, Channels
    <2>4. \A j \in MsgId : amt'[j] = amt[j] \/ amt'[j] = [amt[j] EXCEPT !.state = "closed"]
      BY <1>0, <2>2 DEF ChannelType
    <2>5. \A j \in MsgId : /\ amt'[j].req = amt[j].req /\ amt'[j].given = amt[j].given
                           /\ Asked(j)' => Asked(j)
      BY <2>3, <2>4 DEF Asked
    <2> QED BY <2>1, <2>5
  <1>6. CASE UNCHANGED <<amt, sender>>
    <2>1. CASE TakeMessage
      <3>1. cur' = cur + 1 /\ cur \in Nat /\ sender \in Nat
        BY <1>0, <2>1 DEF TakeMessage, NumberedInv, ChannelType, MsgId
      <3>2. sender < cur + 1 /\ sender <= cur + 1 BY <3>1
      <3> QED BY <1>6, <3>1, <3>2 DEF Asked
    <2>2. CASE ConnectLme \/ SendLme BY <1>1, <1>4, <2>2
    <2>3. CASE cur' = cur /\ (main' = "connect" => main = "connect")
      BY <1>6, <2>3 DEF Asked
    <2> QED BY <2>1, <2>2, <2>3, MainMoves DEF WaitForChannel, ReceiveFromLme, Goto
  <1> QED BY <1>1, <1>2, <1>3, <1>4, <1>5, <1>6, MessageMoves

-----------------------------------------------------------------------------
(* The wait group, without retries: one Add, and one confirmation for it.    *)

CountInv ==
    "nodevice" \notin faults =>
        /\ main \notin {"open"} \cup Over => wg = 0
        /\ main = "open" /\ wg > 0 => wg = 1 /\ Underway(cur)
AwaitInv == NumberedInv /\ AmtInv /\ CountInv

LEMMA CountStep ==
    ASSUME TypeOK, MessagesInv, HandlingInv, ConfirmationInv, AmtInv, CountInv, [Next]_vars
    PROVE  CountInv'
  <1> SUFFICES ASSUME "nodevice" \notin faults
               PROVE  /\ main' \notin {"open"} \cup Over => wg' = 0
                      /\ main' = "open" /\ wg' > 0 => wg' = 1 /\ Underway(cur)'
    BY FaultsStay DEF CountInv
  <1>0. /\ ChannelType /\ (main = "open" => cur \in MsgId)
        /\ main \notin {"open"} \cup Over => wg = 0
        /\ main = "open" /\ wg > 0 => wg = 1 /\ Underway(cur)
    BY LmeType DEF TypeOK, CountInv, HandlingInv, Handling
  <1>1. CASE ConnectLme
    <2>1. main = "connect" /\ cur' = cur /\ cur \in MsgId
      BY <1>1 DEF ConnectLme, Goto, HandlingInv, Handling
    <2>2. ~Lme!RetryOpen BY DEF Lme!RetryOpen
    <2>3. CASE main' = "open" /\ Lme!OpenChannel(cur)
      <3>1. wg = 0 /\ wg' = 1 BY <1>0, <2>1, <2>3 DEF Lme!OpenChannel, Over
      <3>2. Underway(cur)' BY <1>0, <2>1, <2>3 DEF Lme!OpenChannel, Underway, Lme!NoChannel, ChannelType
      <3> QED BY <2>3, <3>1, <3>2
    <2> QED BY <1>1, <2>2, <2>3 DEF ConnectLme, Goto, Over
  <1>2. ASSUME NEW i \in MsgId, LmeReader(i)
        PROVE  /\ main' \notin {"open"} \cup Over => wg' = 0
               /\ main' = "open" /\ wg' > 0 => wg' = 1 /\ Underway(cur)'
    <2>0. main' = main /\ cur' = cur BY <1>2 DEF LmeReader, mainVars
    <2>1. CASE Lme!ProcessConfirmation(i)
      <3>1. Held(i) /\ wg' = wg - 1 BY <2>1 DEF Lme!ProcessConfirmation, Held
      <3>2. main = "open" /\ wg > 0 BY <3>1 DEF ConfirmationInv, Owed
      <3> QED BY <1>0, <2>0, <3>1, <3>2
    <2>2. CASE Lme!ReaderReceives(i)
      <3>1. /\ inbox # <<>> /\ inbox \in Seq(Messages) /\ wg' = wg /\ amt' = amt /\ reader_[i] = "receiving"
            /\ inbox' = Tail(inbox) /\ held' = [held EXCEPT ![i] = inbox[1]]
            /\ reader_' = [reader_ EXCEPT ![i] = "processing"]
        BY <2>2 DEF Lme!ReaderReceives, MessagesInv
      <3>2. \A k \in DOMAIN inbox : k = 1 \/ (k - 1 \in DOMAIN inbox' /\ inbox'[k - 1] = inbox[k])
        BY <3>1
      <3>3. reader_'[i] = "processing" /\ held'[i] = inbox[1]
        BY <1>0, <3>1 DEF MessagesInv, ChannelType
      <3>4. \A j \in MsgId : reader_[j] = "processing" => reader_'[j] = "processing" /\ held'[j] = held[j]
        BY <1>0, <3>1 DEF MessagesInv, ChannelType
      <3>5. ASSUME main = "open", Underway(cur) PROVE Underway(cur)'
        <4>1. CASE amt[cur].state = "asked" BY <2>0, <3>1, <4>1 DEF Underway
        <4>2. CASE \E k \in DOMAIN inbox : inbox[k].part = 0 /\ inbox[k].channel = cur
          <5>1. PICK k \in DOMAIN inbox : inbox[k].part = 0 /\ inbox[k].channel = cur BY <4>2
          <5>2. CASE k = 1
            <6>1. reader_'[i] = "processing" /\ held'[i].part = 0 /\ held'[i].channel = cur' BY <2>0, <3>3, <5>1, <5>2
            <6> QED BY <6>1 DEF Underway
          <5>3. CASE k - 1 \in DOMAIN inbox' /\ inbox'[k - 1] = inbox[k]
            <6>1. inbox'[k - 1].part = 0 /\ inbox'[k - 1].channel = cur' BY <2>0, <5>1, <5>3
            <6> QED BY <5>3, <6>1 DEF Underway
          <5> QED BY <3>2, <5>2, <5>3
        <4>3. CASE \E j \in MsgId : reader_[j] = "processing" /\ held[j].part = 0 /\ held[j].channel = cur
          <5>1. PICK j \in MsgId : reader_[j] = "processing" /\ held[j].part = 0 /\ held[j].channel = cur BY <4>3
          <5>2. reader_'[j] = "processing" /\ held'[j].part = 0 /\ held'[j].channel = cur' BY <2>0, <3>4, <5>1
          <5> QED BY <5>2 DEF Underway
        <4> QED BY <3>5, <4>1, <4>2, <4>3 DEF Underway
      <3> QED BY <1>0, <2>0, <3>1, <3>5
    <2>3. CASE Lme!ReaderEnds(i) \/ Lme!LoadTempdata(i) \/ Lme!ProcessData(i)
      <3>1. UNCHANGED <<wg, amt, inbox, held>> BY <2>3 DEF Lme!ReaderEnds, Lme!LoadTempdata, Lme!ProcessData
      <3>2. \A j \in MsgId : reader_[j] = "processing" /\ held[j].part = 0 => reader_'[j] = "processing"
        BY <1>0, <2>3 DEF Lme!ReaderEnds, Lme!LoadTempdata, Lme!ProcessData, ChannelType
      <3>3. Underway(cur) => Underway(cur)' BY <2>0, <3>1, <3>2 DEF Underway
      <3> QED BY <1>0, <2>0, <3>1, <3>3
    <2> QED BY <1>2, <2>1, <2>2, <2>3 DEF LmeReader, Lme!ReaderGoroutine
  <1>3. ASSUME NEW i \in MsgId, Device(i)
        PROVE  /\ main' \notin {"open"} \cup Over => wg' = 0
               /\ main' = "open" /\ wg' > 0 => wg' = 1 /\ Underway(cur)'
    <2>0. main' = main /\ cur' = cur /\ UNCHANGED <<wg, reader_, held>> /\ inbox \in Seq(Messages)
      BY <1>3 DEF Device, mainVars, Lme!Amt, Lme!AmtConfirms, Lme!AmtAnswers, MessagesInv
    <2>1. PICK m : inbox' = Append(inbox, m) /\ (Lme!AmtConfirms(i) => m.part = 0 /\ m.channel = i)
      BY <1>3 DEF Device, Lme!Amt, Lme!AmtConfirms, Lme!AmtAnswers, Lme!Apf
    <2>2. /\ \A k \in DOMAIN inbox : k \in DOMAIN inbox' /\ inbox'[k] = inbox[k]
          /\ Len(inbox) + 1 \in DOMAIN inbox' /\ inbox'[Len(inbox) + 1] = m
      BY <2>0, <2>1
    <2>3. \A j \in MsgId : j # i => amt'[j] = amt[j]
      BY <1>0, <1>3 DEF Device, Lme!Amt, Lme!AmtConfirms, Lme!AmtAnswers, ChannelType
    <2>4. Lme!AmtConfirms(i) \/ amt[i].state = "open" BY <1>3 DEF Device, Lme!Amt, Lme!AmtAnswers
    <2>5. main = "open" /\ Underway(cur) => Underway(cur)'
      BY <1>0, <2>0, <2>1, <2>2, <2>3, <2>4 DEF Underway
    <2> QED BY <1>0, <2>0, <2>5
  <1>4. CASE UNCHANGED <<inbox, reader_, held, wg>> /\ (\A j \in MsgId : Asked(j) => Asked(j)') /\ ~ConnectLme
    <2>1. CASE cur' = cur /\ (main' = "open" => main = "open") /\ (main \in {"open"} \cup Over => main' = main \/ main' \in Over)
      <3>1. main = "open" /\ Underway(cur) => Underway(cur)' BY <1>0, <1>4, <2>1 DEF Underway, Asked
      <3> QED BY <1>0, <1>4, <2>1, <3>1
    <2>2. CASE TakeMessage
      BY <1>0, <1>4, <2>2 DEF TakeMessage, Goto, AfterProcessMessage, Over
    <2>3. CASE WaitForChannel
      BY <1>4, <2>3 DEF WaitForChannel, Lme!Confirmed, Goto
    <2>4. CASE SendLme \/ \E i \in MsgId : ReceiveFromLme(i)
      BY <1>0, <1>4, <2>4 DEF SendLme, ReceiveFromLme, Goto, Over
    <2> QED BY <1>4, <2>1, <2>2, <2>3, <2>4, MainMoves
  <1>5. \A j \in MsgId : SendLme \/ (\E i \in MsgId : LmeTimer(i)) \/ amt' = amt => (Asked(j) => Asked(j)')
    <2>1. CASE SendLme
      <3>1. amt' = amt \/ amt' = [amt EXCEPT ![sender] = [amt[sender] EXCEPT !.req = cur]]
        BY <2>1 DEF SendLme, Lme!SendPayload, Lme!SendPayloadFails, Lme!lmeVars
      <3>2. \A j \in MsgId : [amt[j] EXCEPT !.req = cur].state = amt[j].state
        BY <1>0 DEF ChannelType, Channels
      <3>3. \A j \in MsgId : amt'[j] = amt[j] \/ amt'[j] = [amt[j] EXCEPT !.req = cur]
        BY <1>0, <3>1 DEF ChannelType
      <3> QED BY <3>2, <3>3 DEF Asked
    <2>2. ASSUME NEW i \in MsgId, LmeTimer(i) PROVE \A j \in MsgId : Asked(j) => Asked(j)'
      <3>1. amt' = amt \/ amt' = [amt EXCEPT ![sender] = [amt[sender] EXCEPT !.state = "closed"]]
        BY <2>2 DEF LmeTimer, Lme!TimerGoroutine, Lme!TimerStarts, Lme!TimerFires, Lme!TimerClears, Lme!TimerCloses
      <3>2. \A j \in MsgId : Asked(j) => j = cur /\ sender < cur BY DEF ConfirmationInv, Owed, AmtInv
      <3>3. ASSUME NEW j \in MsgId, Asked(j) PROVE amt'[j] = amt[j]
        <4>0. \A m, n \in 0..MaxMsgs : m < n => m # n OBVIOUS
        <4>1. j = cur /\ sender < j BY <3>2, <3>3
        <4>2. sender \in 0..MaxMsgs /\ j \in 0..MaxMsgs BY <1>0 DEF ChannelType, MsgId
        <4>3. j # sender BY <4>0, <4>1, <4>2, Zenon
        <4> QED BY <1>0, <3>1, <4>3 DEF ChannelType
      <3> QED BY <3>3 DEF Asked
    <2> QED BY <2>1, <2>2 DEF Asked
  <1> QED BY <1>1, <1>2, <1>3, <1>4, <1>5, MessageMoves

LEMMA AwaitInit == Init => AwaitInv
  BY DEF Init, MainInit, LinkInit, Lme!LmeInit, Lme!NoChannel, AwaitInv, NumberedInv, AmtInv, Asked, CountInv

LEMMA AwaitStep == ASSUME IInv, AwaitInv, [Next]_vars PROVE AwaitInv'
  BY NumberedStep, AmtStep, CountStep DEF IInv, AwaitInv

-----------------------------------------------------------------------------
(* The buffer. *)

LEMMA PrefixFacts ==
    /\ Prefix(0) = <<>>
    /\ \A n \in Nat : Append(Prefix(n), <<cur, n + 1>>) = Prefix(n + 1)
    /\ Prefix(Parts) = Answer(cur, Parts)
  <1>1. Prefix(0) = <<>> BY DEF Prefix
  <1>2. \A n \in Nat : Append(Prefix(n), <<cur, n + 1>>) = Prefix(n + 1)
    BY DEF Prefix
  <1> QED BY <1>1, <1>2 DEF Prefix, Answer

\* What is known before the step.
LEMMA Known ==
    ASSUME Slow, IInv, LineInv, InTime
    PROVE  /\ ChannelType /\ cur \in 0..MaxMsgs /\ (main \in Handling => cur \in MsgId)
           /\ TimersInv /\ QuietInv /\ CollectInv /\ OneMessage /\ AmtInv /\ MessagesInv /\ HeardInv
           /\ ~Collecting => /\ inbox = <<>> /\ ~Flying
                             /\ \A i \in MsgId : ~Asked(i) /\ ~Busy(i)
           /\ Flying => amt[cur].given > 0 /\ Collecting /\ ~Finishing
           /\ \A i \in MsgId : reader_[i] = "appending" => Busy(i) /\ InHand(i) /\ Flying
           /\ faults \cap {"read", "late"} = {} /\ LoadedInv
  <1>1. /\ ChannelType /\ cur \in 0..MaxMsgs /\ (main \in Handling => cur \in MsgId)
        /\ TimersInv /\ QuietInv /\ CollectInv /\ OneMessage /\ AmtInv /\ MessagesInv /\ HeardInv
    BY LmeType, CurBound DEF IInv, HandlingInv, LineInv, InTimeInv, InTime, TypeOK
  <1>2. Flying => Collecting BY <1>1 DEF QuietInv, Flying, InInbox, InHand
  <1>3. Flying => amt[cur].given > 0 BY <1>1 DEF CollectInv, Flying, InInbox, InHand
  <1>4. Collecting => cur \in MsgId BY <1>1 DEF Collecting, Serving, Handling
  <1>5. Collecting /\ Finishing => ~Flying BY <1>1, <1>3, <1>4 DEF CollectInv, AmtInv
  <1>6. \A i \in MsgId : reader_[i] = "appending" => Busy(i) /\ InHand(i) /\ Flying
    BY <1>1 DEF MessagesInv, Busy, Lme!Processing, InHand, Flying
  <1>7. faults \cap {"read", "late"} = {} /\ LoadedInv BY DEF InTime, LineInv, InTimeInv
  <1> QED BY <1>1, <1>2, <1>3, <1>5, <1>6, <1>7 DEF QuietInv

LEMMA InTimeConnect ==
    ASSUME Slow, IInv, LineInv, InTime, InTime', ConnectLme
    PROVE  TimersInv' /\ QuietInv' /\ CollectInv'
  <1> USE Known DEF Serving
  <1>0. main = "connect" /\ cur' = cur /\ cur \in MsgId /\ ~Collecting
    BY DEF ConnectLme, Goto, Handling, Serving, Collecting
  <1>t. timer[cur] = "none" /\ \A i \in MsgId : ~Lme!Pending(i) BY <1>0 DEF TimersInv
  <1>1. CASE Goto("connect", "open") /\ Lme!OpenChannel(cur)
    <2>1. /\ main' = "open" /\ fd' = "open" /\ UNCHANGED <<temp, inbox, held, snap, sender>>
          /\ timer' = [timer EXCEPT ![cur] = "spawned"] /\ reader_' = [reader_ EXCEPT ![cur] = "receiving"]
          /\ amt' = [amt EXCEPT ![cur] = [Lme!NoChannel EXCEPT !.state = "asked"]]
      BY <1>1 DEF Goto, Lme!OpenChannel, Lme!Listen
    <2>2. timer'[cur] = "spawned" /\ \A i \in MsgId : i # cur => timer'[i] = timer[i]
      BY <1>0, <2>1 DEF ChannelType
    <2>3. Collecting' BY <1>0, <2>1, <2>2 DEF Collecting
    <2>4. \A i \in MsgId : ~Busy(i)' BY <1>0, <2>1 DEF Busy, Lme!Processing, ChannelType
    <2>5. ~InInbox' /\ (\A i \in MsgId : ~InHand(i)') /\ ~Flying' BY <1>0, <2>1, <2>4 DEF InInbox, InHand, Flying
    <2>6. Clearing' <=> Clearing BY <1>0, <1>t, <2>2 DEF Clearing
    <2>7. amt'[cur].state = "asked" /\ amt'[cur].given = 0 /\ \A i \in MsgId : i # cur => amt'[i] = amt[i]
      BY <1>0, <2>1 DEF ChannelType, Lme!NoChannel
    <2>8. TimersInv' BY <1>0, <1>t, <2>1, <2>2 DEF TimersInv, Lme!Pending
    <2>9. QuietInv' BY <1>0, <2>3, <2>7 DEF QuietInv
    <2>10. temp' = temp /\ (temp = <<>> \/ Clearing) /\ Collected' = 0 /\ Asked(cur)'
      BY <1>0, <2>1, <2>5, <2>7 DEF CollectInv, Collected, Asked
    <2>11. Prefix(0)' = <<>> BY DEF Prefix
    <2>12. Collecting' /\ ~Clearing' => temp' = Prefix(Collected)' BY <2>6, <2>10, <2>11 DEF Prefix
    <2>13. \A i \in MsgId : timer'[i] # "sending" BY <1>t, <2>2 DEF Lme!Pending
    <2> QED BY <1>0, <2>1, <2>5, <2>7, <2>8, <2>9, <2>10, <2>12, <2>13 DEF CollectInv
  <1>2. CASE Goto("connect", "connect") /\ Lme!RetryOpen
    <2>1. /\ main' = "connect" /\ inbox' = <<>> /\ UNCHANGED <<temp, timer, tref, fd, snap>>
          /\ \A i \in MsgId : amt'[i].state = "none"
      BY <1>2 DEF Goto, Lme!RetryOpen, Lme!NoChannel
    <2>2. \A i \in MsgId : ~Busy(i)' BY <1>0, <1>2 DEF Lme!RetryOpen, Busy, Lme!Processing
    <2>3. ~InInbox' /\ (\A i \in MsgId : ~InHand(i)') /\ ~Collecting' BY <2>1, <2>2 DEF InInbox, InHand, Collecting
    <2>4. TimersInv' BY <1>0, <2>1 DEF TimersInv, Lme!Pending
    <2>5. QuietInv' BY <2>1, <2>2 DEF QuietInv, Asked
    <2> QED BY <1>0, <2>1, <2>3, <2>4, <2>5 DEF CollectInv, Clearing
  <1>3. CASE Goto("connect", "shutdown")
    BY <1>3 DEF Goto, InTime, Over
  <1> QED BY <1>1, <1>2, <1>3 DEF ConnectLme

\* The line to AMT is as it was.
LEMMA SameLine ==
    ASSUME UNCHANGED <<inbox, held, reader_>>
    PROVE  /\ InInbox' <=> InInbox
           /\ \A i \in MsgId : (Busy(i)' <=> Busy(i)) /\ (InHand(i)' <=> InHand(i))
           /\ Flying' <=> Flying
  BY DEF InInbox, Busy, Lme!Processing, InHand, Flying

LEMMA InTimeCaller ==
    ASSUME Slow, IInv, LineInv, InTime, InTime',
           (TakeMessage /\ UNCHANGED lmeVars) \/ WaitForChannel \/ SendLme \/ (\E i \in MsgId : ReceiveFromLme(i)) \/ Calm
    PROVE  TimersInv' /\ QuietInv' /\ CollectInv'
  <1> USE Known DEF Serving
  <1>1. CASE TakeMessage /\ UNCHANGED lmeVars
    <2>0. main = "select" /\ main' \notin Serving /\ cur' = nread /\ reader = "sending"
      BY <1>1 DEF TakeMessage, Goto, AfterProcessMessage
    <2>1. cur' = cur + 1 /\ ~Collecting /\ ~Collecting'
      BY <2>0 DEF LineInv, NumberedInv, Collecting
    <2>2. UNCHANGED <<fd, temp, timer, tref, snap, amt, inbox, held, reader_>> BY <1>1 DEF lmeVars
    <2>3. TimersInv'
      <3>1. \A i \in MsgId : timer'[i] = timer[i] /\ ~Lme!Pending(i)' BY <2>0, <2>1, <2>2 DEF TimersInv, Lme!Pending
      <3>2. \A i \in MsgId : i > cur' \/ i = cur' => i > cur BY <2>1 DEF MsgId
      <3> QED BY <2>0, <2>2, <3>1, <3>2 DEF TimersInv, Lme!Pending
    <2>4. QuietInv' BY <2>0, <2>1, <2>2 DEF QuietInv, Asked, Busy, Lme!Processing
    <2> QED BY <2>0, <2>1, <2>2, <2>3, <2>4, SameLine DEF CollectInv, Clearing, TimersInv, Lme!Pending, Flying
  <1>2. CASE WaitForChannel
    <2>1. /\ main = "open" /\ wg = 0 /\ main' = "send" /\ cur' = cur
          /\ UNCHANGED <<fd, temp, timer, tref, snap, amt, inbox, held, reader_>>
      BY <1>2 DEF WaitForChannel, Goto, Lme!Confirmed, lmeVars
    <2>2. Collecting /\ Collecting' BY <2>1 DEF QuietInv, Collecting
    <2>3. TimersInv' BY <2>1 DEF TimersInv, Lme!Pending
    <2>4. QuietInv' BY <2>1, <2>2 DEF QuietInv
    <2> QED BY <2>1, <2>2, <2>3, <2>4, SameLine DEF CollectInv, Clearing, Finishing, Asked, Collected, Prefix
  <1>3. CASE SendLme
    <2>1. /\ main = "send" /\ main' = "wait" /\ cur' = cur /\ Lme!SendPayload(cur)
          /\ UNCHANGED <<fd, temp, timer, tref, snap, inbox, held, reader_>>
      BY <1>3 DEF SendLme, Goto, Lme!SendPayload, InTime, Over
    <2>2. Collecting /\ Collecting' /\ cur \in MsgId /\ sender = cur
      BY <2>1 DEF QuietInv, Collecting, Serving, Handling, IInv, OwnChannel
    <2>3. amt' = amt \/ amt' = [amt EXCEPT ![cur] = [amt[cur] EXCEPT !.req = cur]]
      BY <2>1, <2>2 DEF Lme!SendPayload
    <2>4. [amt[cur] EXCEPT !.req = cur].state = amt[cur].state /\ [amt[cur] EXCEPT !.req = cur].given = amt[cur].given
      BY <2>2 DEF ChannelType, Channels
    <2>5. /\ \A i \in MsgId : i # cur => amt'[i] = amt[i]
          /\ amt'[cur].state = amt[cur].state /\ amt'[cur].given = amt[cur].given
      BY <2>2, <2>3, <2>4 DEF ChannelType
    <2>6. TimersInv' BY <2>1 DEF TimersInv, Lme!Pending
    <2>7. QuietInv' BY <2>1, <2>2, <2>5 DEF QuietInv
    <2> QED BY <2>1, <2>2, <2>5, <2>6, <2>7, SameLine DEF CollectInv, Clearing, Finishing, Asked, Collected, Prefix
  <1>4. ASSUME NEW i \in MsgId, ReceiveFromLme(i) PROVE TimersInv' /\ QuietInv' /\ CollectInv'
    <2>1. /\ main = "wait" /\ main' = "forward" /\ cur' = cur /\ timer[i] = "sending"
          /\ timer' = [timer EXCEPT ![i] = "clearing"]
          /\ UNCHANGED <<fd, temp, tref, snap, amt, inbox, held, reader_>>
      BY <1>4 DEF ReceiveFromLme, Goto, Lme!HandOver
    <2>2. i = cur /\ ~Collecting BY <2>1 DEF TimersInv, Lme!Pending, Collecting
    <2>3. timer'[i] = "clearing" /\ \A j \in MsgId : j # i => timer'[j] = timer[j] BY <2>1 DEF ChannelType
    <2>4. ~Collecting' /\ Clearing' BY <2>1, <2>2, <2>3 DEF Collecting, Clearing
    <2>5. TimersInv' BY <2>1, <2>2, <2>3 DEF TimersInv, Lme!Pending
    <2>6. QuietInv' BY <2>1, <2>2 DEF QuietInv, Asked, Busy, Lme!Processing
    <2> QED BY <2>1, <2>2, <2>3, <2>4, <2>5, <2>6, SameLine DEF CollectInv, TimersInv, Lme!Pending, Flying
  <1>5. CASE Calm /\ UNCHANGED <<main, data>>
    <2>1. UNCHANGED <<temp, timer, tref, snap, amt, inbox, held, reader_, wg>> /\ cur' = cur /\ main' = main
          /\ (main \in Serving => fd' = fd)
      BY <1>5 DEF Calm, UseLme, Goto, Lme!Initialize, lmeVars
    <2>2. TimersInv' BY <2>1 DEF TimersInv, Lme!Pending
    <2>3. QuietInv' BY <2>1, SameLine DEF QuietInv, Asked, Collecting
    <2> QED BY <2>1, <2>2, <2>3, SameLine DEF CollectInv, Collecting, Clearing, Finishing, Asked, Collected, Prefix
  <1>6. CASE Calm /\ main \notin Serving \cup {"connect"} /\ main' \notin Serving \cup {"connect", "forward"}
    <2>1. UNCHANGED <<temp, timer, tref, snap, amt, inbox, held, reader_>> /\ cur' = cur
      BY <1>6 DEF Calm, UseLme, Lme!Initialize, lmeVars
    <2>2. ~Collecting /\ ~Collecting' BY <1>6 DEF Collecting
    <2>3. TimersInv' BY <1>6, <2>1 DEF TimersInv, Lme!Pending
    <2>4. QuietInv' BY <1>6, <2>1, <2>2, SameLine DEF QuietInv, Asked
    <2> QED BY <1>6, <2>1, <2>2, <2>3, <2>4, SameLine DEF CollectInv, Clearing, Flying
  <1> QED BY <1>1, <1>2, <1>3, <1>4, <1>5, <1>6 DEF Calm

LEMMA InTimeReader ==
    ASSUME Slow, IInv, LineInv, InTime, NEW i \in MsgId, LmeReader(i)
    PROVE  TimersInv' /\ QuietInv' /\ CollectInv'
  <1> USE Known DEF Serving
  <1>0. UNCHANGED <<main, cur, fd, timer, tref, snap, amt>>
    BY DEF LmeReader, mainVars, Lme!ReaderGoroutine, Lme!ReaderReceives, Lme!ReaderEnds, Lme!ProcessConfirmation,
       Lme!LoadTempdata, Lme!ProcessData
  <1>a. TimersInv' /\ (Collecting' <=> Collecting) /\ (Clearing' <=> Clearing) /\ (Finishing' <=> Finishing)
        /\ \A j \in MsgId : Asked(j)' <=> Asked(j)
    BY <1>0 DEF TimersInv, Lme!Pending, Collecting, Clearing, Finishing, Asked
  <1>b. \A n : Prefix(n)' = Prefix(n) BY <1>0 DEF Prefix
  <1>1. CASE Lme!ReaderReceives(i)
    <2>1. /\ inbox # <<>> /\ inbox' = Tail(inbox) /\ reader_' = [reader_ EXCEPT ![i] = "processing"]
          /\ held' = [held EXCEPT ![i] = Head(inbox)] /\ UNCHANGED <<temp, wg>>
      BY <1>1 DEF Lme!ReaderReceives
    <2>2. Collecting BY <2>1 DEF QuietInv
    <2>3. Len(inbox) = 1 /\ \A j \in MsgId : ~Busy(j)
      <3>0. \A n \in Nat : n # 0 /\ n <= 1 => n = 1 OBVIOUS
      <3>1. Len(inbox) \in Nat /\ Len(inbox) # 0 BY <2>1 DEF MessagesInv
      <3>2. Len(inbox) = 1 BY <3>0, <3>1, Zenon DEF OneMessage
      <3> QED BY <3>2 DEF OneMessage
    <2>4. inbox' = <<>> /\ Head(inbox) = inbox[1]
      <3>1. inbox \in Seq(Messages) BY DEF MessagesInv
      <3> QED BY <2>1, <2>3, <3>1
    <2>5. Busy(i)' /\ held'[i] = inbox[1] /\ \A j \in MsgId : j # i => ~Busy(j)'
      BY <2>1, <2>3, <2>4 DEF Busy, Lme!Processing, ChannelType, MessagesInv
    <2>6. ~InInbox' /\ (\A j \in MsgId : InHand(j)' <=> (j = i /\ InInbox)) /\ (Flying' <=> Flying)
      BY <2>1, <2>3, <2>4, <2>5 DEF InInbox, InHand, Flying
    <2>7. QuietInv' BY <1>0, <1>a, <2>1, <2>2 DEF QuietInv
    <2>8. Collected' = Collected BY <1>0, <2>6 DEF Collected
    <2>9. Prefix(Collected)' = Prefix(Collected) BY <1>0, <2>8 DEF Prefix
    <2>10. Asked(cur)' <=> Asked(cur) BY <1>0 DEF Asked
    <2> QED BY <1>0, <1>a, <2>1, <2>5, <2>6, <2>7, <2>9, <2>10 DEF CollectInv
  <1>2. CASE Lme!ReaderEnds(i)
    <2>0. "read" \notin faults OBVIOUS
    <2>1. fd = "closed" /\ reader_' = [reader_ EXCEPT ![i] = "done"] /\ UNCHANGED <<temp, inbox, held, wg>> /\ reader_[i] = "receiving"
      BY <1>2, <2>0 DEF Lme!ReaderEnds
    <2>2. ~Collecting BY <2>1 DEF TimersInv, Collecting
    <2>3. \A j \in MsgId : ~Busy(j)' BY <2>1, <2>2 DEF Busy, Lme!Processing, ChannelType
    <2>4. ~InInbox' /\ \A j \in MsgId : ~InHand(j)' BY <2>1, <2>2, <2>3 DEF InInbox, InHand
    <2>5. QuietInv' BY <1>0, <1>a, <2>1, <2>2, <2>3 DEF QuietInv
    <2> QED BY <1>0, <1>a, <2>1, <2>2, <2>4, <2>5 DEF CollectInv
  <1>3. CASE Lme!ProcessConfirmation(i)
    <2>1. /\ reader_[i] = "processing" /\ held[i].part = 0 /\ UNCHANGED <<temp, inbox, held>>
          /\ reader_' = [reader_ EXCEPT ![i] = "receiving"]
      BY <1>3 DEF Lme!ProcessConfirmation
    <2>2. Collecting BY <2>1 DEF QuietInv, Busy, Lme!Processing
    <2>3. \A j \in MsgId : InHand(j)' <=> InHand(j) BY <2>1 DEF InHand, Busy, Lme!Processing, ChannelType
    <2>4. (InInbox' <=> InInbox) /\ (Flying' <=> Flying) BY <2>1, <2>3 DEF InInbox, Flying
    <2>5. QuietInv' BY <1>0, <1>a, <2>1, <2>2 DEF QuietInv
    <2>6. Collected' = Collected BY <1>0, <2>4 DEF Collected
    <2>7. Prefix(Collected)' = Prefix(Collected) BY <1>0, <2>6 DEF Prefix
    <2>8. Asked(cur)' <=> Asked(cur) BY <1>0 DEF Asked
    <2> QED BY <1>0, <1>a, <2>1, <2>3, <2>4, <2>5, <2>7, <2>8 DEF CollectInv
  <1>4. CASE Lme!ProcessData(i)
    <2>1. /\ Busy(i) /\ InHand(i) /\ UNCHANGED <<inbox, held, wg>> /\ reader_' = [reader_ EXCEPT ![i] = "receiving"]
      BY <1>4 DEF Lme!ProcessData
    <2>2. Flying /\ Collecting /\ ~Finishing /\ ~Clearing BY <2>1 DEF Flying, Finishing, Clearing
    <2>3. \A j \in MsgId : Busy(j) => j = i BY <2>1 DEF OneMessage
    <2>4. inbox = <<>>
      <3>0. \A n \in Nat : n # 1 /\ n <= 1 => n = 0 OBVIOUS
      <3>1. Len(inbox) \in Nat /\ Len(inbox) # 1 BY <2>1 DEF MessagesInv, OneMessage
      <3>2. Len(inbox) = 0 BY <3>0, <3>1, Zenon DEF OneMessage
      <3>3. inbox \in Seq(Messages) BY DEF MessagesInv
      <3> QED BY <3>2, <3>3
    <2>5. temp' = Append(temp, <<held[i].of, held[i].part>>)
      BY <1>4 DEF Lme!ProcessData, LoadedInv
    <2>6. temp = Prefix(amt[cur].given - 1) /\ held[i].of = cur /\ held[i].part = amt[cur].given
      BY <2>1, <2>2 DEF CollectInv, Collected
    <2>7. cur \in MsgId /\ amt[cur].given \in Nat /\ amt[cur].given - 1 \in Nat
      <3>1. cur \in MsgId /\ amt[cur].given > 0 BY <2>2 DEF Collecting, Serving, Handling
      <3>2. amt[cur].given \in Nat BY <3>1 DEF ChannelType, Channels
      <3> QED BY <3>1, <3>2
    <2>8. temp' = Prefix(amt[cur].given)
      <3>1. Append(Prefix(amt[cur].given - 1), <<cur, amt[cur].given - 1 + 1>>) = Prefix(amt[cur].given - 1 + 1)
        BY <2>7, PrefixFacts
      <3>2. amt[cur].given - 1 + 1 = amt[cur].given BY <2>7
      <3> QED BY <2>5, <2>6, <3>1, <3>2
    <2>9. \A j \in MsgId : ~Busy(j)' BY <2>1, <2>3 DEF Busy, Lme!Processing, ChannelType
    <2>10. ~InInbox' /\ (\A j \in MsgId : ~InHand(j)') /\ ~Flying' BY <2>1, <2>4, <2>9 DEF InInbox, InHand, Flying
    <2>11. QuietInv' BY <1>0, <1>a, <2>1, <2>2 DEF QuietInv
    <2>12. Collected' = amt[cur].given BY <1>0, <2>10 DEF Collected
    <2>13. Prefix(Collected)' = temp' BY <1>0, <2>8, <2>12 DEF Prefix
    <2> QED BY <1>0, <1>a, <2>2, <2>10, <2>11, <2>13 DEF CollectInv, Collecting
  <1>5. CASE Lme!LoadTempdata(i)
    <2>1. /\ reader_[i] = "processing" /\ UNCHANGED <<temp, inbox, held, wg>>
          /\ reader_' = [reader_ EXCEPT ![i] = "appending"]
      BY <1>5 DEF Lme!LoadTempdata
    <2>2. \A j \in MsgId : (Busy(j)' <=> Busy(j)) /\ (InHand(j)' <=> InHand(j))
      BY <2>1 DEF InHand, Busy, Lme!Processing, ChannelType
    <2>4. (InInbox' <=> InInbox) /\ (Flying' <=> Flying) BY <2>1, <2>2 DEF InInbox, Flying
    <2>5. QuietInv' BY <1>0, <1>a, <2>1, <2>2 DEF QuietInv
    <2>6. Collected' = Collected BY <1>0, <2>4 DEF Collected
    <2>7. Prefix(Collected)' = Prefix(Collected) BY <1>0, <2>6 DEF Prefix
    <2>8. Asked(cur)' <=> Asked(cur) BY <1>0 DEF Asked
    <2> QED BY <1>0, <1>a, <2>1, <2>2, <2>4, <2>5, <2>7, <2>8 DEF CollectInv
  <1> QED BY <1>1, <1>2, <1>3, <1>4, <1>5 DEF LmeReader, Lme!ReaderGoroutine

LEMMA LoadedStep ==
    ASSUME Slow, IInv, LineInv, InTime, [Next]_vars
    PROVE  LoadedInv'
  <1> USE Known DEF LoadedInv
  <1>1. CASE ConnectLme
    <2>1. UNCHANGED <<temp, loaded>> BY <1>1 DEF ConnectLme, Lme!OpenChannel, Lme!RetryOpen, Lme!FailOpen
    <2>2. reader_' \in {reader_, [reader_ EXCEPT ![cur] = "receiving"]} \/ Lme!RetryOpen
      BY <1>1 DEF ConnectLme, Lme!OpenChannel, Lme!FailOpen, Lme!Listen
    <2>3. \A j \in MsgId : reader_'[j] = "appending" => reader_[j] = "appending"
      BY <2>2 DEF Lme!RetryOpen, ChannelType
    <2> QED BY <2>1, <2>3
  <1>2. ASSUME NEW i \in MsgId, LmeReader(i) PROVE LoadedInv'
    <2>1. CASE Lme!ReaderReceives(i) \/ Lme!ReaderEnds(i) \/ Lme!ProcessConfirmation(i)
      BY <2>1 DEF Lme!ReaderReceives, Lme!ReaderEnds, Lme!ProcessConfirmation, ChannelType
    <2>2. CASE Lme!LoadTempdata(i)
      BY <2>2 DEF Lme!LoadTempdata, ChannelType
    <2>3. CASE Lme!ProcessData(i)
      <3>1. \A j \in MsgId : reader_[j] = "appending" => j = i
        BY <2>3 DEF Lme!ProcessData, OneMessage
      <3>2. \A j \in MsgId : reader_'[j] # "appending" BY <2>3, <3>1 DEF Lme!ProcessData, ChannelType
      <3> QED BY <3>2
    <2> QED BY <1>2, <2>1, <2>2, <2>3 DEF LmeReader, Lme!ReaderGoroutine
  <1>3. ASSUME NEW i \in MsgId, LmeTimer(i) PROVE LoadedInv'
    <2>1. UNCHANGED <<reader_, loaded>>
      BY <1>3 DEF LmeTimer, Lme!TimerGoroutine, Lme!TimerStarts, Lme!TimerFires, Lme!TimerClears, Lme!TimerCloses
    <2>2. temp' = temp \/ Finishing
      BY <1>3 DEF LmeTimer, Lme!TimerGoroutine, Lme!TimerStarts, Lme!TimerFires, Lme!TimerClears, Lme!TimerCloses,
         Finishing
    <2> QED BY <2>1, <2>2
  <1>4. CASE UNCHANGED <<reader_, temp, loaded>> BY <1>4
  <1>5. UseLme \/ SendLme \/ CleanUp \/ UNCHANGED lmeVars => UNCHANGED <<reader_, temp, loaded>>
    BY DEF UseLme, SendLme, CleanUp, lmeVars, Lme!Initialize, Lme!SendPayload, Lme!SendPayloadFails, Lme!lmeVars,
       Lme!CloseLme
  <1>6. \A i \in MsgId : ReceiveFromLme(i) \/ Device(i) => UNCHANGED <<reader_, temp, loaded>>
    BY DEF ReceiveFromLme, Lme!HandOver, Device, Lme!Amt, Lme!AmtConfirms, Lme!AmtAnswers
  <1> QED BY <1>1, <1>2, <1>3, <1>4, <1>5, <1>6, LmeCases

LEMMA InTimeTimer ==
    ASSUME Slow, IInv, LineInv, InTime, NEW i \in MsgId, LmeTimer(i)
    PROVE  TimersInv' /\ QuietInv' /\ CollectInv'
  <1> USE Known DEF Serving
  <1>0. UNCHANGED <<main, cur, fd, wg, inbox, held, reader_>>
    BY DEF LmeTimer, mainVars, Lme!TimerGoroutine, Lme!TimerStarts, Lme!TimerFires, Lme!TimerClears, Lme!TimerCloses
  <1>a. /\ (InInbox' <=> InInbox) /\ (Flying' <=> Flying)
        /\ \A j \in MsgId : (Busy(j)' <=> Busy(j)) /\ (InHand(j)' <=> InHand(j))
    BY <1>0, SameLine
  <1>b. \A n : Prefix(n)' = Prefix(n) BY <1>0 DEF Prefix
  <1>1. CASE Lme!TimerStarts(i)
    <2>1. /\ timer[i] = "spawned" /\ timer' = [timer EXCEPT ![i] = "armed"] /\ tref' = i /\ UNCHANGED <<temp, snap, amt>>
      BY <1>1 DEF Lme!TimerStarts
    <2>2. i = cur /\ Collecting /\ \A j \in MsgId : j # i => ~Lme!Pending(j)
      BY <2>1 DEF TimersInv, Lme!Pending, Collecting
    <2>3. timer'[i] = "armed" /\ \A j \in MsgId : j # i => timer'[j] = timer[j] BY <2>1 DEF ChannelType
    <2>4. Collecting' /\ (Clearing' <=> Clearing) /\ (Finishing' <=> Finishing) /\ (Asked(cur)' <=> Asked(cur))
      BY <1>0, <2>1, <2>2, <2>3 DEF Collecting, Clearing, Finishing, Asked
    <2>5. TimersInv' BY <1>0, <2>1, <2>2, <2>3 DEF TimersInv, Lme!Pending
    <2>6. QuietInv' BY <1>0, <2>1, <2>2, <2>4 DEF QuietInv
    <2>7. Collected' = Collected BY <1>0, <1>a, <2>1 DEF Collected
    <2>8. \A j \in MsgId : timer'[j] # "sending" BY <2>2, <2>3 DEF Lme!Pending
    <2> QED BY <1>0, <1>a, <1>b, <2>1, <2>2, <2>4, <2>5, <2>6, <2>7, <2>8 DEF CollectInv
  <1>2. CASE Lme!TimerFires(i, Waiting)
    <2>1. /\ timer[i] = "armed" /\ timer' = [timer EXCEPT ![i] = "sending"] /\ UNCHANGED <<temp, tref, amt>>
          /\ snap' = [snap EXCEPT ![i] = temp] /\ Lme!Settled
          /\ "late" \in faults \/ fd = "closed" \/ tref # i \/ (Waiting /\ (Lme!Delivered \/ Lme!Deaf))
      BY <1>2 DEF Lme!TimerFires
    <2>2. i = cur /\ Collecting /\ (\A j \in MsgId : j # i => ~Lme!Pending(j)) /\ tref = i /\ fd = "open"
      BY <2>1 DEF TimersInv, Lme!Pending, Collecting
    <2>3. "late" \notin faults /\ "read" \notin faults BY DEF InTime
    <2>d. ~Lme!Deaf
      <3>1. cur \in MsgId /\ amt[cur].state \in {"asked", "open"}
        BY <2>2 DEF CollectInv, Collecting, Handling
      <3>2. \E j \in MsgId : reader_[j] \in {"receiving", "processing", "appending"}
        BY <2>2, <2>3, <3>1 DEF HeardInv
      <3> QED BY <3>2 DEF Lme!Deaf
    <2>4. Waiting /\ Lme!Delivered BY <2>1, <2>2, <2>3, <2>d
    <2>5. /\ inbox = <<>> /\ \A j \in MsgId : ~Busy(j) /\ ~Asked(j)
          /\ \A j \in MsgId : amt[j].state = "open" /\ amt[j].req # 0 => amt[j].given = Parts
      BY <2>4 DEF Lme!Delivered, Busy, Lme!Processing, Asked
    <2>6. ~Flying /\ ~InInbox /\ \A j \in MsgId : ~InHand(j) BY <2>5 DEF Flying, InInbox, InHand
    <2>7. ~Clearing BY <2>1 DEF Lme!Settled, Lme!Processing, Clearing
    <2>8. temp = Prefix(amt[cur].given) /\ amt[cur].state = "open" /\ cur \in MsgId
      BY <2>2, <2>5, <2>6, <2>7 DEF CollectInv, Collected, Asked
    <2>9. amt[cur].given \in {0, Parts} BY <2>5, <2>8 DEF AmtInv
    <2>10. temp \in {<<>>, Answer(cur, Parts)} BY <2>8, <2>9, PrefixFacts
    <2>11. timer'[i] = "sending" /\ snap'[i] = temp /\ \A j \in MsgId : j # i => timer'[j] = timer[j]
      BY <2>1 DEF ChannelType
    <2>12. \A j \in MsgId : timer'[j] = "sending" => snap'[j] \in {<<>>, Answer(j, Parts)}
      BY <2>2, <2>10, <2>11 DEF Lme!Pending
    <2>13. ~Collecting' BY <1>0, <2>2, <2>11 DEF Collecting
    <2>14. TimersInv' BY <1>0, <2>1, <2>2, <2>11 DEF TimersInv, Lme!Pending, Collecting
    <2>15. QuietInv'
      <3>1. main # "send" /\ ~(main = "open" /\ wg = 0) BY <2>4 DEF Waiting, Lme!Confirmed
      <3>2. \A j \in MsgId : ~(amt[j].state = "open" /\ amt[j].req # 0 /\ amt[j].given < Parts) BY <2>5
      <3> QED BY <1>0, <1>a, <2>1, <2>5, <3>1, <3>2 DEF QuietInv, Asked
    <2>16. main \in Serving BY <2>2 DEF Collecting
    <2> QED BY <1>0, <1>a, <2>6, <2>12, <2>13, <2>14, <2>15, <2>16 DEF CollectInv
  <1>3. CASE Lme!TimerClears(i)
    <2>1. /\ timer[i] = "clearing" /\ timer' = [timer EXCEPT ![i] = "closing"] /\ temp' = <<>> /\ UNCHANGED <<tref, snap, amt>>
      BY <1>3 DEF Lme!TimerClears
    <2>2. timer'[i] = "closing" /\ \A j \in MsgId : j # i => timer'[j] = timer[j] BY <2>1 DEF ChannelType
    <2>3. Collecting' <=> Collecting BY <1>0, <2>1, <2>2 DEF Collecting
    <2>4. Finishing BY <2>1 DEF Finishing
    <2>5. Collecting => Asked(cur) /\ ~Flying /\ amt[cur].given = 0
      <3>1. Collecting => Asked(cur) /\ ~Flying /\ cur \in MsgId BY <2>4 DEF CollectInv, Collecting, Serving, Handling
      <3> QED BY <3>1 DEF AmtInv
    <2>6. TimersInv' BY <1>0, <2>1, <2>2 DEF TimersInv, Lme!Pending
    <2>7. QuietInv' BY <1>0, <1>a, <2>1, <2>3 DEF QuietInv, Asked
    <2>8. Collecting => Prefix(Collected)' = <<>>
      <3>1. Collecting => Collected' = 0 BY <1>0, <1>a, <2>1, <2>5 DEF Collected
      <3> QED BY <3>1 DEF Prefix
    <2>9. \A j \in MsgId : timer'[j] = "sending" => timer[j] = "sending" BY <2>2
    <2>10. Asked(cur)' <=> Asked(cur) BY <1>0, <2>1 DEF Asked
    <2> QED BY <1>0, <1>a, <2>1, <2>3, <2>5, <2>6, <2>7, <2>8, <2>9, <2>10 DEF CollectInv
  <1>4. CASE Lme!TimerCloses(i)
    <2>1. /\ timer[i] = "closing" /\ timer' = [timer EXCEPT ![i] = "done"] /\ UNCHANGED <<temp, tref, snap>>
          /\ amt' = amt \/ amt' = [amt EXCEPT ![sender] = [amt[sender] EXCEPT !.state = "closed"]]
      BY <1>4 DEF Lme!TimerCloses
    <2>2. timer'[i] = "done" /\ \A j \in MsgId : j # i => timer'[j] = timer[j] BY <2>1 DEF ChannelType
    <2>3. (Collecting' <=> Collecting) /\ (Clearing' <=> Clearing) /\ (Finishing' => Finishing) /\ Finishing
      BY <1>0, <2>1, <2>2 DEF Collecting, Clearing, Finishing
    <2>4. \A j \in MsgId : amt'[j] = amt[j] \/ (j = sender /\ amt'[j] = [amt[j] EXCEPT !.state = "closed"])
      BY <2>1 DEF ChannelType
    <2>5. \A j \in MsgId : [amt[j] EXCEPT !.state = "closed"].state = "closed" BY DEF ChannelType, Channels
    <2>6. Collecting => amt'[cur] = amt[cur]
      <3>1. Collecting => Asked(cur) /\ cur \in MsgId BY <2>3 DEF CollectInv, Collecting, Serving, Handling
      <3>2. Collecting => sender # cur BY <3>1 DEF AmtInv, ChannelType, MsgId
      <3> QED BY <2>4, <3>1, <3>2
    <2>7. TimersInv' BY <1>0, <2>1, <2>2 DEF TimersInv, Lme!Pending
    <2>8. QuietInv'
      <3>1. \A j \in MsgId : amt'[j].state \in {"open", "asked"} => amt'[j] = amt[j] BY <2>4, <2>5
      <3> QED BY <1>0, <1>a, <2>3, <3>1 DEF QuietInv, Asked
    <2>9. Collecting => Collected' = Collected /\ (Asked(cur)' <=> Asked(cur)) BY <1>0, <1>a, <2>6 DEF Collected, Asked
    <2>10. \A j \in MsgId : timer'[j] = "sending" => timer[j] = "sending" BY <2>2
    <2>11. InInbox \/ (\E j \in MsgId : InHand(j)) => Collecting BY DEF Flying
    <2> QED BY <1>0, <1>a, <1>b, <2>1, <2>3, <2>6, <2>7, <2>8, <2>9, <2>10, <2>11 DEF CollectInv
  <1> QED BY <1>1, <1>2, <1>3, <1>4 DEF LmeTimer, Lme!TimerGoroutine

LEMMA InTimeDevice ==
    ASSUME Slow, IInv, LineInv, InTime, NEW i \in MsgId, Device(i)
    PROVE  TimersInv' /\ QuietInv' /\ CollectInv'
  <1> USE Known DEF Serving
  <1>0. /\ UNCHANGED <<main, cur, fd, wg, timer, tref, temp, snap, held, reader_, sender>>
        /\ Lme!Settled /\ fd = "open" /\ amt[i].state \in {"asked", "open"}
    BY DEF Device, mainVars, Lme!Amt, Lme!AmtConfirms, Lme!AmtAnswers
  <1>1. (\A j \in MsgId : ~Busy(j) /\ ~Busy(j)') /\ ~Finishing /\ ~Clearing /\ ~Finishing'
    BY <1>0 DEF Lme!Settled, Busy, Lme!Processing, Finishing, Clearing
  <1>2. inbox = <<>>
    <2>1. PICK j \in MsgId : reader_[j] \in {"receiving", "processing", "appending"} BY <1>0 DEF HeardInv
    <2> QED BY <1>0, <2>1 DEF Lme!Settled, Lme!Processing
  <1>3. ~Flying /\ ~InInbox /\ \A j \in MsgId : ~InHand(j) /\ ~InHand(j)'
    BY <1>1, <1>2 DEF Flying, InInbox, InHand
  <1>4. TimersInv' /\ (Collecting' <=> Collecting) BY <1>0 DEF TimersInv, Lme!Pending, Collecting
  <1>5. i = cur /\ Collecting
    <2>1. Lme!AmtConfirms(i) => Asked(i) BY DEF Lme!AmtConfirms, Asked
    <2>2. Asked(i) => i = cur BY DEF IInv, ConfirmationInv, Owed
    <2>3. Lme!AmtAnswers(i) => i = cur /\ Collecting BY DEF Lme!AmtAnswers, QuietInv
    <2>4. Asked(i) => Collecting BY DEF QuietInv
    <2> QED BY <2>1, <2>2, <2>3, <2>4 DEF Device, Lme!Amt
  <1>6. temp = Prefix(amt[cur].given) BY <1>1, <1>3, <1>5 DEF CollectInv, Collected
  <1>7. ASSUME amt'[i].state = "open", \A j \in MsgId : j # i => amt'[j] = amt[j],
               InInbox' => inbox'[1].of = cur /\ inbox'[1].part = amt'[cur].given,
               Flying' => amt'[cur].given = amt[cur].given + 1,
               ~Flying' => amt'[cur].given = amt[cur].given
        PROVE  TimersInv' /\ QuietInv' /\ CollectInv'
    <2>1. QuietInv' BY <1>0, <1>4, <1>5, <1>7 DEF QuietInv
    <2>2. Collected' = amt[cur].given
      <3>1. amt[cur].given \in Nat BY <1>5 DEF ChannelType, Channels
      <3>2. Flying' => amt'[cur].given - 1 = amt[cur].given BY <1>7, <3>1
      <3> QED BY <1>0, <1>7, <3>2 DEF Collected
    <2>3. Prefix(Collected)' = Prefix(amt[cur].given) BY <1>0, <2>2 DEF Prefix
    <2> QED BY <1>0, <1>1, <1>3, <1>4, <1>5, <1>6, <1>7, <2>1, <2>3 DEF CollectInv, Collecting
  <1>8. CASE Lme!AmtConfirms(i)
    <2>1. amt' = [amt EXCEPT ![i] = [amt[i] EXCEPT !.state = "open"]] /\ inbox' = Append(inbox, Lme!Apf(i, 0, 0))
      BY <1>8 DEF Lme!AmtConfirms
    <2>2. amt'[i] = [amt[i] EXCEPT !.state = "open"] /\ \A j \in MsgId : j # i => amt'[j] = amt[j]
      BY <2>1 DEF ChannelType
    <2>3. amt'[i].state = "open" /\ amt'[i].given = amt[i].given BY <2>2 DEF ChannelType, Channels
    <2>4. inbox'[1].part = 0 BY <1>2, <2>1 DEF Lme!Apf
    <2>5. ~InInbox' /\ ~Flying' BY <1>3, <2>4 DEF InInbox, Flying
    <2> QED BY <1>5, <1>7, <2>2, <2>3, <2>5
  <1>9. CASE Lme!AmtAnswers(i)
    <2>1. /\ amt' = [amt EXCEPT ![i] = [amt[i] EXCEPT !.given = amt[i].given + 1]]
          /\ inbox' = Append(inbox, Lme!Apf(i, amt[i].req, amt[i].given + 1))
          /\ amt[i].state = "open" /\ amt[i].req # 0
      BY <1>9 DEF Lme!AmtAnswers
    <2>2. amt'[i] = [amt[i] EXCEPT !.given = amt[i].given + 1] /\ \A j \in MsgId : j # i => amt'[j] = amt[j]
      BY <2>1 DEF ChannelType
    <2>3. amt'[i].state = "open" /\ amt'[i].given = amt[i].given + 1 BY <2>1, <2>2 DEF ChannelType, Channels
    <2>4. amt[i].req = cur BY <1>5, <2>1 DEF AmtInv
    <2>5. inbox' # <<>> /\ inbox'[1].of = amt[i].req /\ inbox'[1].part = amt[i].given + 1 BY <1>2, <2>1 DEF Lme!Apf
    <2>6. amt[i].given \in Nat BY DEF ChannelType, Channels
    <2>7. Flying' BY <2>5, <2>6 DEF Flying, InInbox
    <2> QED BY <1>5, <1>7, <2>2, <2>3, <2>4, <2>5, <2>7
  <1> QED BY <1>8, <1>9 DEF Device, Lme!Amt

LEMMA InTimeStep == ASSUME Slow, IInv, LineInv, [Next]_vars PROVE InTimeInv'
  <1> SUFFICES ASSUME InTime' PROVE TimersInv' /\ QuietInv' /\ CollectInv' /\ ForwardInv' /\ LoadedInv'
    BY DEF InTimeInv
  <1>1. InTime
    <2>1. main' \notin Over => main \notin Over
      BY PlaceMoves DEF TakeMessage, ConnectLme, WaitForChannel, SendLme, CleanUp, ReceiveFromLme, mainVars, Goto,
         Over, Calm
    <2>2. faults' = faults BY FaultsStay
    <2> QED BY <2>1, <2>2 DEF InTime
  <1>2. TimersInv' /\ QuietInv' /\ CollectInv'
    <2>1. CASE LmeStep BY <1>1, <2>1, InTimeReader, InTimeTimer, InTimeDevice DEF LmeStep
    <2>2. CASE CleanUp BY <2>2 DEF CleanUp, Goto, InTime, Over
    <2> QED BY <1>1, <2>1, <2>2, InTimeCaller, InTimeConnect, PlaceMoves
  <1>3. ForwardInv'
    <2>1. ASSUME NEW i \in MsgId, ReceiveFromLme(i) PROVE ForwardInv'
      <3>1. timer[i] = "sending" /\ data' = snap[i] /\ cur' = cur
        BY <2>1 DEF ReceiveFromLme, Lme!HandOver
      <3>2. i = cur /\ snap[i] \in {<<>>, Answer(i, Parts)}
        BY <1>1, <3>1, Known DEF TimersInv, Lme!Pending, CollectInv
      <3> QED BY <3>1, <3>2 DEF ForwardInv, Answer
    <2>2. CASE UNCHANGED <<main, cur, data>>
      BY <1>1, <2>2 DEF LineInv, InTimeInv, ForwardInv, Answer
    <2>3. CASE main' # "forward" BY <2>3 DEF ForwardInv
    <2> QED BY <2>1, <2>2, <2>3, PlaceMoves
      DEF TakeMessage, AfterProcessMessage, ConnectLme, WaitForChannel, SendLme, CleanUp, Goto, mainVars, Calm
  <1> QED BY <1>1, <1>2, <1>3, LoadedStep

LEMMA LineInit == Init => LineInv
  <1> SUFFICES ASSUME Init PROVE LineInv
    OBVIOUS
  <1>1. NumberedInv BY DEF Init, MainInit, LinkInit, NumberedInv
  <1>2. HeardInv /\ AmtInv
    BY DEF Init, MainInit, Lme!LmeInit, Lme!NoChannel, HeardInv, AmtInv, Asked
  <1>3. OneMessage BY DEF Init, Lme!LmeInit, OneMessage, Busy, Lme!Processing
  <1>4. TimersInv BY DEF Init, MainInit, Lme!LmeInit, TimersInv, Lme!Pending, Serving
  <1>5. QuietInv BY DEF Init, MainInit, Lme!LmeInit, Lme!NoChannel, QuietInv, Asked, Busy, Lme!Processing
  <1>6. CollectInv /\ ForwardInv /\ LoadedInv
    BY DEF Init, MainInit, Lme!LmeInit, CollectInv, ForwardInv, LoadedInv, InInbox, InHand, Busy, Lme!Processing,
       Collecting, Serving
  <1> QED BY <1>1, <1>2, <1>3, <1>4, <1>5, <1>6 DEF LineInv, InTimeInv

LEMMA LineStep == ASSUME Slow, IInv, LineInv, [Next]_vars PROVE LineInv'
  <1>1. "read" \notin faults' => OneMessage' BY OneMessageStep, FaultsStay DEF IInv, LineInv
  <1> QED BY <1>1, NumberedStep, HeardStep, AmtStep, InTimeStep DEF IInv, LineInv

-----------------------------------------------------------------------------
(* The session implements Relay. *)

\* A step that sends nothing and takes nothing stutters or ends the session.
LEMMA SilentStep ==
    ASSUME sent' = sent, cur' = cur,
           Phase' = Phase \/ (Phase # "over" /\ Phase' = "over")
    PROVE  [Promise!Next]_Promise!vars
  BY DEF Promise!Next, Promise!Stop, Promise!vars

LEMMA RefinementStep ==
    ASSUME IInv, LineInv, faults \cap {"read", "late"} = {}, [Next]_vars
    PROVE  [Promise!Next]_Promise!vars
  <1>1. CASE StartSession
    <2>1. Phase = "new" /\ Phase' \in {"idle", "over"} /\ cur' = cur
      BY <1>1 DEF StartSession, Goto, Phase
    <2>2. /\ sent' = Append(sent, InitialMessage) \/ sent' = sent
          /\ Phase' = "over" => sent' = sent
      BY <1>1 DEF StartSession, Write, Goto, Phase
    <2>3. CASE Phase' = "over" BY <2>1, <2>2, <2>3, SilentStep
    <2>4. CASE Phase' = "idle" /\ sent' = sent
      BY <2>1, <2>4 DEF Promise!Next, Promise!OpenLost
    <2>5. CASE Phase' = "idle" /\ sent' = Append(sent, InitialMessage)
      BY <2>1, <2>5 DEF Promise!Next, Promise!Open, Promise!Message, InitialMessage
    <2> QED BY <2>1, <2>2, <2>3, <2>4, <2>5
  <1>2. CASE TakeMessage
    <2>1. Phase = "idle" /\ Phase' \in {"busy", "beat", "over"} /\ sent' = sent
      BY <1>2 DEF TakeMessage, AfterProcessMessage, Goto, Phase
    <2>2. cur' = cur + 1 BY <1>2 DEF TakeMessage, LineInv, NumberedInv
    <2> QED BY <2>1, <2>2 DEF Promise!Next, Promise!Take
  <1>3. CASE AnswerHeartbeat
    <2>1. Phase = "beat" /\ Phase' \in {"idle", "over"} /\ cur' = cur
      BY <1>3 DEF AnswerHeartbeat, Goto, Phase
    <2>2. /\ sent' = Append(sent, HeartbeatResponse(cur)) \/ sent' = sent
          /\ Phase' = "over" => sent' = sent
      BY <1>3 DEF AnswerHeartbeat, Write, Goto, Phase
    <2>3. CASE Phase' = "over" BY <2>1, <2>2, <2>3, SilentStep
    <2>4. CASE Phase' = "idle" /\ sent' = sent
      BY <2>1, <2>4 DEF Promise!Next, Promise!Drop
    <2>5. CASE Phase' = "idle" /\ sent' = Append(sent, HeartbeatResponse(cur))
      BY <2>1, <2>5 DEF Promise!Next, Promise!AnswerHeartbeat, Promise!Message, HeartbeatResponse
    <2> QED BY <2>1, <2>2, <2>3, <2>4, <2>5
  <1>4. CASE Forward
    <2>1. Phase = "busy" /\ Phase' = "idle" /\ cur' = cur
      BY <1>4 DEF Forward, Goto, Phase
    <2>2. CASE sent' = sent BY <2>1, <2>2 DEF Promise!Next, Promise!Drop
    <2>3. CASE sent' # sent
      <3>1. data # <<>> /\ sent' = Append(sent, Response(cur, data)) /\ main = "forward"
        BY <1>4, <2>3 DEF Forward, Write, Goto
      <3>2. data = Answer(cur, Parts)
        BY <3>1 DEF LineInv, InTimeInv, InTime, Over, ForwardInv
      <3>3. Response(cur, data) = Promise!Message("response", cur, Promise!Answer(cur, Parts))
        BY <3>2 DEF Response, Promise!Message, Promise!Answer, Answer
      <3> QED BY <2>1, <3>1, <3>3 DEF Promise!Next, Promise!AnswerRequest
    <2> QED BY <2>2, <2>3
  <1>5. CASE UNCHANGED <<main, cur, sent>> BY <1>5, SilentStep DEF Phase
  <1>6. CASE OwnStep
    <2>1. CASE sent' = sent /\ cur' = cur /\ (Phase' = Phase \/ (Phase # "over" /\ Phase' = "over"))
      BY <2>1, SilentStep
    <2>2. CASE \/ UseLme \/ PrepareInitialMessage \/ DialRps \/ TakeClosed \/ TakeInterrupt \/ Exit \/ CloseChannels
               \/ CleanUp \/ UserInterrupts
      BY <2>1, <2>2 DEF UseLme, PrepareInitialMessage, DialRps, TakeClosed, TakeInterrupt, Exit, CloseChannels,
         CleanUp, UserInterrupts, Goto, Phase, linkVars
    <2>3. CASE ConnectLme \/ WaitForChannel \/ SendLme \/ WaitAgain \/ \E i \in MsgId : ReceiveFromLme(i)
      BY <2>1, <2>3 DEF ConnectLme, WaitForChannel, SendLme, WaitAgain, ReceiveFromLme, Goto, Phase, linkVars
    <2> QED BY <1>1, <1>2, <1>3, <1>4, <1>6, <2>2, <2>3 DEF OwnStep, MainStep, SessionStep
  <1>7. CASE LinkOnly
    BY <1>5, <1>7 DEF LinkOnly, LinkBreaks, ReadMessage, ReadFails, RpsSends, mainVars
  <1> QED BY <1>5, <1>6, <1>7, MainCases DEF vars, linkVars, mainVars

-----------------------------------------------------------------------------
(* The order of what AMT answered, however late: what was forwarded, what    *)
(* the handler holds, what Tempdata holds and what is on its way to a reader *)
(* follow each other, and AMT has given all of it.  That is as long as no    *)
(* append to Tempdata undoes what another goroutine did, every reader goes   *)
(* on and every channel is closed.                                           *)

Sound == faults \cap {"read", "write"} = {}

InSent(p) == \E i \in DOMAIN sent : \E k \in DOMAIN sent[i].body : p = sent[i].body[k]
InData(p) == main = "forward" /\ \E k \in DOMAIN data : p = data[k]
InTemp(p) == ~Clearing /\ \E k \in DOMAIN temp : p = temp[k]
InFlight(p) ==
    \/ InInbox /\ p = <<inbox[1].of, inbox[1].part>>
    \/ \E i \in MsgId : InHand(i) /\ p = <<held[i].of, held[i].part>>
Increasing(s) == \A k, l \in DOMAIN s : k < l => Before(s[k], s[l])

\* AMT has given the part, and on the open channel it gives later ones.
Given(p) ==
    \/ p[1] < sender
    \/ p[1] = sender /\ (amt[sender].state = "open" => p[2] <= amt[sender].given)

\* What was sent is in the order AMT gave it in.
SentInOrder ==
    \A i, j \in DOMAIN sent : \A k \in DOMAIN sent[i].body, l \in DOMAIN sent[j].body :
        i < j \/ (i = j /\ k < l) => Before(sent[i].body[k], sent[j].body[l])

FlowInv ==
    /\ SentInOrder
    /\ main = "forward" => Increasing(data)
    /\ ~Clearing => Increasing(temp)
    /\ \A p, q \in Part : InSent(p) /\ (InData(q) \/ InTemp(q) \/ InFlight(q)) => Before(p, q)
    /\ \A p, q \in Part : InData(p) /\ (InTemp(q) \/ InFlight(q)) => Before(p, q)
    /\ \A p, q \in Part : InTemp(p) /\ InFlight(q) => Before(p, q)
    /\ \A p \in Part : InSent(p) \/ InData(p) \/ InTemp(p) \/ InFlight(p) => Given(p)

\* What RPS has received.
Outgoing == [kind : {"initial", "heartbeat", "response"}, of : MsgId \cup {0}, body : Seq(Part)]

\* What a timer hands over is what Tempdata began with, and is still there.
SnapInv ==
    \A i \in MsgId : timer[i] = "sending" =>
        /\ ~Clearing /\ Len(snap[i]) <= Len(temp)
        /\ \A k \in DOMAIN snap[i] : snap[i][k] = temp[k]

\* A request that has no channel yet has no timer.
FreshInv == \A i \in MsgId : i > cur \/ (i = cur /\ main = "connect") => timer[i] = "none"

(* One channel is open at a time: the last confirmed, or the one whose       *)
(* confirmation is on its way; and no longer than until its timer closed it. *)
Confirming(c) ==
    \/ inbox # <<>> /\ inbox[1].part = 0 /\ inbox[1].channel = c
    \/ \E i \in MsgId : Held(i) /\ held[i].channel = c
Open(j) == amt[j].state = "open"
OpenInv ==
    /\ \A j \in MsgId : Open(j) => j = sender \/ Confirming(j)
    /\ \A c \in MsgId : Confirming(c) => ~Finishing /\ \A j \in MsgId : Open(j) => j = c
    /\ \A j \in MsgId : Open(j) /\ fd = "open" /\ main \notin Over =>
        (j = cur /\ main \in Serving) \/ Finishing

OrderInv == sent \in Seq(Outgoing) /\ FreshInv /\ OpenInv /\ (~raced => SnapInv /\ FlowInv)
QueueInv == NumberedInv /\ HeardInv /\ AmtInv /\ OneMessage

\* What is known before the step.
LEMMA OrderKnown ==
    ASSUME Slow, Sound, IInv, QueueInv
    PROVE  /\ ChannelType /\ cur \in 0..MaxMsgs /\ (main \in Handling => cur \in MsgId)
           /\ data \in Seq(Part)
           /\ OneMessage /\ AmtInv /\ MessagesInv /\ HeardInv
           /\ \A c \in MsgId : Confirming(c) => c = cur /\ main = "open"
           /\ \A i \in MsgId : Asked(i) => i = cur /\ main = "open" /\ sender < cur
           /\ \A i \in MsgId : timer[i] = "sending" => i = cur /\ main # "forward"
  <1>1. /\ ChannelType /\ cur \in 0..MaxMsgs /\ (main \in Handling => cur \in MsgId)
        /\ OneMessage /\ AmtInv /\ MessagesInv /\ HeardInv
    BY LmeType, CurBound DEF IInv, HandlingInv, QueueInv, TypeOK
  <1>2. data \in Seq(Part) BY DEF IInv, TypeOK, MainTypeOK
  <1>3. \A c \in MsgId : Confirming(c) => c = cur /\ main = "open"
    <2>1. ConfirmationInv BY DEF IInv
    <2>2. inbox # <<>> => 1 \in DOMAIN inbox BY <1>1 DEF MessagesInv
    <2> QED BY <2>1, <2>2 DEF ConfirmationInv, Confirming, Sent, Owed
  <1>4. \A i \in MsgId : Asked(i) => i = cur /\ main = "open" /\ sender < cur
    BY <1>1 DEF IInv, ConfirmationInv, Owed, AmtInv
  <1>5. \A i \in MsgId : timer[i] = "sending" => i = cur /\ main # "forward"
    BY DEF IInv, OneHandOver, Lme!Pending
  <1> QED BY <1>1, <1>2, <1>3, <1>4, <1>5

\* When AMT sends something, nothing else is on its way.
LEMMA DeviceAlone ==
    ASSUME Slow, Sound, HeardInv, NEW i \in MsgId, Device(i)
    PROVE  /\ inbox = <<>> /\ \A j \in MsgId : ~Busy(j)
           /\ ~Finishing /\ fd = "open" /\ UNCHANGED <<timer, temp, snap, sender, reader_, held, fd>>
           /\ amt[i].state \in {"asked", "open"}
  <1>0. "read" \notin faults BY DEF Sound
  <1>1. /\ Lme!Settled /\ fd = "open" /\ amt[i].state \in {"asked", "open"}
        /\ UNCHANGED <<timer, temp, snap, sender, reader_, held, fd>>
    BY DEF Device, Lme!Amt, Lme!AmtConfirms, Lme!AmtAnswers
  <1>2. PICK j \in MsgId : reader_[j] \in {"receiving", "processing", "appending"} BY <1>0, <1>1 DEF HeardInv
  <1> QED BY <1>1, <1>2 DEF Lme!Settled, Busy, Lme!Processing, Finishing

LEMMA FreshStep ==
    ASSUME Slow, Sound, IInv, QueueInv, FreshInv, [Next]_vars
    PROVE  FreshInv'
  <1>0. ChannelType /\ cur \in 0..MaxMsgs BY OrderKnown
  <1> USE DEF FreshInv
  <1>1. CASE TakeMessage /\ UNCHANGED lmeVars
    <2>1. cur' = cur + 1 /\ timer' = timer BY <1>1 DEF TakeMessage, QueueInv, NumberedInv, lmeVars
    <2>2. \A i \in MsgId : i > cur + 1 \/ i = cur + 1 => i > cur BY <1>0 DEF MsgId
    <2> QED BY <2>1, <2>2
  <1>2. CASE ConnectLme
    <2>1. main = "connect" /\ cur' = cur BY <1>2 DEF ConnectLme, Goto
    <2>2. timer' = timer \/ (main' # "connect" /\ timer' = [timer EXCEPT ![cur] = "spawned"])
      BY <1>2 DEF ConnectLme, Goto, Lme!OpenChannel, Lme!RetryOpen, Lme!FailOpen, Lme!Listen
    <2>3. \A i \in MsgId : i > cur => i # cur BY <1>0 DEF MsgId
    <2> QED BY <1>0, <2>1, <2>2, <2>3 DEF ChannelType
  <1>3. ASSUME cur' = cur, main' = "connect" => main = "connect",
               \A i \in MsgId : timer[i] = "none" => timer'[i] = "none"
        PROVE  FreshInv'
    BY <1>3
  <1>4. CASE CleanUp
    BY <1>0, <1>3, <1>4 DEF CleanUp, Goto, Lme!CloseLme, ChannelType
  <1>5. ASSUME NEW i \in MsgId, ReceiveFromLme(i) PROVE FreshInv'
    BY <1>0, <1>3, <1>5 DEF ReceiveFromLme, Goto, Lme!HandOver, ChannelType
  <1>6. ASSUME NEW i \in MsgId, LmeTimer(i), UNCHANGED mainVars PROVE FreshInv'
    BY <1>0, <1>3, <1>6 DEF LmeTimer, mainVars, Lme!TimerGoroutine, Lme!TimerStarts, Lme!TimerFires, Lme!TimerClears,
       Lme!TimerCloses, ChannelType
  <1>7. CASE timer' = timer /\ cur' = cur /\ (main' = "connect" => main = "connect") BY <1>3, <1>7
  <1>8. ASSUME NEW i \in MsgId, LmeReader(i) \/ Device(i) PROVE timer' = timer
    BY <1>8 DEF LmeReader, Device, Lme!ReaderGoroutine, Lme!ReaderReceives, Lme!ReaderEnds, Lme!ProcessConfirmation,
       Lme!LoadTempdata, Lme!ProcessData, Lme!Amt, Lme!AmtConfirms, Lme!AmtAnswers
  <1>9. CASE WaitForChannel \/ SendLme
    BY <1>7, <1>9 DEF WaitForChannel, SendLme, Goto, lmeVars, Lme!SendPayload, Lme!SendPayloadFails, Lme!lmeVars
  <1>10. CASE Calm
    BY <1>7, <1>10 DEF Calm, lmeVars, UseLme, Lme!Initialize
  <1> QED BY <1>1, <1>2, <1>4, <1>5, <1>6, <1>7, <1>8, <1>9, <1>10, PlaceMoves DEF LmeStep, mainVars

\* Which channels AMT has open is up to AMT, Connect and the timers.
LEMMA OpenMoves ==
    ASSUME ChannelType, NEW i \in MsgId, LmeTimer(i) \/ SendLme
    PROVE  /\ \A j \in MsgId : Open(j)' => Open(j)
           /\ \A j \in MsgId : amt'[j].given = amt[j].given
           /\ UNCHANGED <<inbox, reader_, held, sender, fd>>
           /\ ~Lme!TimerCloses(i) => \A j \in MsgId : Open(j) => Open(j)'
  <1>1. UNCHANGED <<inbox, reader_, held, sender, fd>>
    BY DEF LmeTimer, Lme!TimerGoroutine, Lme!TimerStarts, Lme!TimerFires, Lme!TimerClears, Lme!TimerCloses, SendLme,
       Lme!SendPayload, Lme!SendPayloadFails, Lme!lmeVars
  <1>2. \/ amt' = amt
        \/ amt' = [amt EXCEPT ![sender] = [amt[sender] EXCEPT !.req = cur]]
        \/ Lme!TimerCloses(i) /\ amt' = [amt EXCEPT ![sender] = [amt[sender] EXCEPT !.state = "closed"]]
    BY DEF LmeTimer, Lme!TimerGoroutine, Lme!TimerStarts, Lme!TimerFires, Lme!TimerClears, Lme!TimerCloses, SendLme,
       Lme!SendPayload, Lme!SendPayloadFails, Lme!lmeVars
  <1>3. \A j \in MsgId : /\ [amt[j] EXCEPT !.req = cur].state = amt[j].state
                         /\ [amt[j] EXCEPT !.req = cur].given = amt[j].given
                         /\ [amt[j] EXCEPT !.state = "closed"].state = "closed"
                         /\ [amt[j] EXCEPT !.state = "closed"].given = amt[j].given
    BY DEF ChannelType, Channels
  <1>4. \A j \in MsgId : \/ amt'[j] = amt[j]
                         \/ amt'[j] = [amt[j] EXCEPT !.req = cur]
                         \/ Lme!TimerCloses(i) /\ amt'[j] = [amt[j] EXCEPT !.state = "closed"]
    BY <1>2 DEF ChannelType
  <1> QED BY <1>1, <1>3, <1>4 DEF Open

\* A step that leaves the channels, and what confirms them, as they are.
LEMMA OpenKept ==
    ASSUME OpenInv, sender' = sender,
           \A j \in MsgId : Open(j)' => Open(j),
           \A c \in MsgId : Confirming(c)' <=> Confirming(c),
           (\E c \in MsgId : Confirming(c)) => (Finishing' => Finishing),
           \A j \in MsgId : Open(j)' /\ fd' = "open" /\ main' \notin Over =>
               (j = cur' /\ main' \in Serving) \/ Finishing'
    PROVE  OpenInv'
  BY DEF OpenInv

LEMMA OpenCaller ==
    ASSUME Slow, Sound, IInv, QueueInv, FreshInv, OpenInv,
           \/ (TakeMessage /\ UNCHANGED lmeVars) \/ ConnectLme \/ WaitForChannel \/ SendLme \/ CleanUp
           \/ (\E i \in MsgId : ReceiveFromLme(i)) \/ Calm
    PROVE  OpenInv'
  <1> USE OrderKnown
  <1>1. CASE UNCHANGED <<amt, inbox, reader_, held, sender, timer>> /\ fd' = fd /\ cur' = cur
             /\ (main \in Serving => main' \in Serving)
    <2>1. Finishing' <=> Finishing BY <1>1 DEF Finishing
    <2>2. \A c \in MsgId : Confirming(c)' <=> Confirming(c) BY <1>1 DEF Confirming, Held
    <2>3. \A j \in MsgId : Open(j)' <=> Open(j) BY <1>1 DEF Open
    <2>4. main' \notin Over /\ main \in Over => FALSE
      BY DEF TakeMessage, ConnectLme, WaitForChannel, SendLme, CleanUp, ReceiveFromLme, Calm, Goto, Over
    <2> QED BY <1>1, <2>1, <2>2, <2>3, <2>4, OpenKept DEF OpenInv
  <1>2. CASE TakeMessage /\ UNCHANGED lmeVars
    <2>0. main = "select" /\ UNCHANGED <<amt, inbox, reader_, held, sender, timer, fd>>
      BY <1>2 DEF TakeMessage, Goto, lmeVars
    <2>1. Finishing' <=> Finishing BY <2>0 DEF Finishing
    <2>2. \A c \in MsgId : Confirming(c)' <=> Confirming(c) BY <2>0 DEF Confirming, Held
    <2>3. \A j \in MsgId : Open(j)' <=> Open(j) BY <2>0 DEF Open
    <2>4. main \notin Over \cup Serving BY <2>0 DEF Over, Serving
    <2> QED BY <2>0, <2>1, <2>2, <2>3, <2>4, OpenKept DEF OpenInv
  <1>3. CASE ConnectLme
    <2>0. main = "connect" /\ cur' = cur /\ cur \in MsgId /\ \A c \in MsgId : ~Confirming(c)
      BY <1>3 DEF ConnectLme, Goto, Handling
    <2>1. CASE Lme!RetryOpen
      <3>1. \A j \in MsgId : ~Open(j)' BY <2>1 DEF Lme!RetryOpen, Lme!NoChannel, Open
      <3>2. inbox' = <<>> /\ held' = held /\ \A j \in MsgId : reader_'[j] = "processing" => reader_[j] = "processing"
        BY <2>1 DEF Lme!RetryOpen, ChannelType
      <3>3. \A c \in MsgId : Confirming(c)' => Confirming(c) BY <3>2 DEF Confirming, Held
      <3> QED BY <2>0, <3>1, <3>3 DEF OpenInv
    <2>2. CASE Lme!OpenChannel(cur) \/ Lme!FailOpen(cur)
      <3>1. UNCHANGED <<inbox, held, sender>> /\ reader_' = [reader_ EXCEPT ![cur] = "receiving"]
            /\ timer' = [timer EXCEPT ![cur] = "spawned"]
        BY <2>2 DEF Lme!OpenChannel, Lme!FailOpen, Lme!Listen
      <3>2. \A j \in MsgId : reader_'[j] = "processing" => reader_[j] = "processing"
        BY <2>0, <3>1 DEF ChannelType
      <3>3. \A c \in MsgId : ~Confirming(c)' BY <2>0, <3>1, <3>2 DEF Confirming, Held
      <3>4. timer[cur] = "none" BY <2>0 DEF FreshInv
      <3>5. Finishing' <=> Finishing BY <2>0, <3>1, <3>4 DEF Finishing, ChannelType
      <3>6. \A j \in MsgId : Open(j)' => Open(j)
        BY <2>0, <2>2 DEF Lme!OpenChannel, Lme!FailOpen, Lme!NoChannel, Open, ChannelType
      <3>7. fd' = fd \/ main' \in Over
        BY <1>3, <2>2 DEF ConnectLme, Goto, Lme!OpenChannel, Lme!FailOpen, Lme!RetryOpen, Over
      <3>8. main \notin Over \cup Serving BY <2>0 DEF Over, Serving
      <3> QED BY <2>0, <3>1, <3>3, <3>5, <3>6, <3>7, <3>8, OpenKept DEF OpenInv
    <2> QED BY <1>3, <2>1, <2>2 DEF ConnectLme
  <1>4. CASE WaitForChannel
    BY <1>1, <1>4 DEF WaitForChannel, Goto, lmeVars, Serving
  <1>5. CASE SendLme
    <2>0. main = "send" /\ main' \in {"wait", "shutdown"} /\ cur' = cur /\ cur \in MsgId /\ timer' = timer
      BY <1>5 DEF SendLme, Goto, Handling, Lme!SendPayload, Lme!SendPayloadFails, Lme!lmeVars
    <2>1. UNCHANGED <<inbox, reader_, held, sender, fd>> /\ \A j \in MsgId : Open(j)' => Open(j)
      BY <1>5, <2>0, OpenMoves
    <2>2. Finishing' <=> Finishing BY <2>0 DEF Finishing
    <2>3. \A c \in MsgId : Confirming(c)' <=> Confirming(c) BY <2>1 DEF Confirming, Held
    <2>4. main \notin Over /\ main \in Serving BY <2>0 DEF Over, Serving
    <2>5. main' \in Over \/ main' \in Serving BY <2>0 DEF Over, Serving
    <2> QED BY <2>0, <2>1, <2>2, <2>3, <2>4, <2>5, OpenKept DEF OpenInv
  <1>6. CASE CleanUp
    <2>0. main' = "done" /\ UNCHANGED <<amt, inbox, reader_, held, sender>> BY <1>6 DEF CleanUp, Goto, Lme!CloseLme
    <2>1. Finishing' => Finishing BY <1>6 DEF CleanUp, Lme!CloseLme, Finishing, ChannelType
    <2>2. \A c \in MsgId : Confirming(c)' <=> Confirming(c) BY <2>0 DEF Confirming, Held
    <2>3. \A j \in MsgId : Open(j)' <=> Open(j) BY <2>0 DEF Open
    <2> QED BY <2>0, <2>1, <2>2, <2>3, OpenKept DEF Over
  <1>7. ASSUME NEW i \in MsgId, ReceiveFromLme(i) PROVE OpenInv'
    <2>0. main = "wait" /\ UNCHANGED <<amt, inbox, reader_, held, sender, fd>> /\ timer' = [timer EXCEPT ![i] = "clearing"]
      BY <1>7 DEF ReceiveFromLme, Goto, Lme!HandOver
    <2>1. Finishing' BY <2>0 DEF Finishing, ChannelType
    <2>2. \A c \in MsgId : Confirming(c)' <=> Confirming(c) BY <2>0 DEF Confirming, Held
    <2>3. \A j \in MsgId : Open(j)' <=> Open(j) BY <2>0 DEF Open
    <2> QED BY <2>0, <2>1, <2>2, <2>3, OpenKept
  <1>8. CASE Calm
    <2>1. CASE UNCHANGED lmeVars
      <3>1. UNCHANGED <<amt, inbox, reader_, held, sender, timer, fd>> BY <2>1 DEF lmeVars
      <3> QED BY <1>1, <1>8, <3>1 DEF Calm
    <2>2. CASE UseLme
      <3>1. UNCHANGED <<amt, inbox, reader_, held, sender, timer>> /\ main \in Early
        BY <2>2 DEF UseLme, Goto, Lme!Initialize, Early
      <3>2. \A j \in MsgId : ~Open(j) BY <3>1 DEF HeardInv, Open
      <3>3. \A j \in MsgId : ~Open(j)' BY <3>1, <3>2 DEF Open
      <3>4. Finishing' <=> Finishing BY <3>1 DEF Finishing
      <3>5. \A c \in MsgId : Confirming(c)' <=> Confirming(c) BY <3>1 DEF Confirming, Held
      <3> QED BY <3>1, <3>3, <3>4, <3>5, OpenKept
    <2> QED BY <1>8, <2>1, <2>2 DEF Calm
  <1> QED BY <1>2, <1>3, <1>4, <1>5, <1>6, <1>7, <1>8

LEMMA OpenReader ==
    ASSUME Slow, Sound, IInv, QueueInv, OpenInv, NEW i \in MsgId, LmeReader(i)
    PROVE  OpenInv'
  <1> USE OrderKnown
  <1>0. UNCHANGED <<main, cur, amt, timer, fd>>
    BY DEF LmeReader, mainVars, Lme!ReaderGoroutine, Lme!ReaderReceives, Lme!ReaderEnds, Lme!ProcessConfirmation,
       Lme!LoadTempdata, Lme!ProcessData
  <1>a. /\ Finishing' <=> Finishing
        /\ \A j \in MsgId : Open(j)' <=> Open(j)
    BY <1>0 DEF Finishing, Open
  <1>1. ASSUME sender' = sender, \A c \in MsgId : Confirming(c)' <=> Confirming(c) PROVE OpenInv'
    BY <1>0, <1>a, <1>1, OpenKept DEF OpenInv
  <1>2. CASE Lme!ReaderReceives(i)
    <2>1. /\ inbox # <<>> /\ inbox \in Seq(Messages) /\ sender' = sender /\ reader_[i] = "receiving"
          /\ inbox' = Tail(inbox) /\ held' = [held EXCEPT ![i] = inbox[1]]
          /\ reader_' = [reader_ EXCEPT ![i] = "processing"]
      BY <1>2 DEF Lme!ReaderReceives, MessagesInv
    <2>2. inbox' = <<>>
      <3>1. \A n \in Nat : n # 0 /\ n <= 1 => n = 1 OBVIOUS
      <3>2. Len(inbox) \in Nat /\ Len(inbox) # 0 BY <2>1
      <3>3. Len(inbox) = 1 BY <3>1, <3>2, Zenon DEF OneMessage
      <3> QED BY <2>1, <3>3
    <2>3. reader_'[i] = "processing" /\ held'[i] = inbox[1] BY <2>1 DEF MessagesInv, ChannelType
    <2>4. \A j \in MsgId : reader_[j] = "processing" => reader_'[j] = "processing" /\ held'[j] = held[j]
      BY <2>1 DEF MessagesInv, ChannelType
    <2>5. \A j \in MsgId : reader_'[j] = "processing" => j = i \/ (reader_[j] = "processing" /\ held'[j] = held[j])
      BY <2>1 DEF MessagesInv, ChannelType
    <2>6. \A c \in MsgId : Confirming(c) => Confirming(c)' BY <2>1, <2>3, <2>4 DEF Confirming, Held
    <2>7. \A c \in MsgId : Confirming(c)' => Confirming(c) BY <2>1, <2>2, <2>3, <2>5 DEF Confirming, Held
    <2> QED BY <1>1, <2>1, <2>6, <2>7
  <1>3. CASE Lme!ReaderEnds(i) \/ Lme!LoadTempdata(i) \/ Lme!ProcessData(i)
    <2>1. UNCHANGED <<sender, inbox, held>> BY <1>3 DEF Lme!ReaderEnds, Lme!LoadTempdata, Lme!ProcessData
    <2>2. \A j \in MsgId : (reader_'[j] = "processing" /\ held[j].part = 0) <=> (reader_[j] = "processing" /\ held[j].part = 0)
      BY <1>3 DEF Lme!ReaderEnds, Lme!LoadTempdata, Lme!ProcessData, ChannelType
    <2>3. \A j \in MsgId : Held(j)' <=> Held(j) BY <2>1, <2>2 DEF Held
    <2> QED BY <1>1, <2>1, <2>3 DEF Confirming
  <1>4. CASE Lme!ProcessConfirmation(i)
    <2>1. /\ Busy(i) /\ Held(i) /\ sender' = held[i].channel /\ UNCHANGED <<inbox, held>>
          /\ reader_' = [reader_ EXCEPT ![i] = "receiving"]
      BY <1>4 DEF Lme!ProcessConfirmation, Busy, Lme!Processing, Held
    <2>2. held[i].channel \in MsgId /\ Confirming(held[i].channel)
      BY <2>1 DEF MessagesInv, Lme!Processing, Messages, Confirmations, AnswerParts, Confirming, Held
    <2>3. inbox = <<>>
      <3>1. \A n \in Nat : n <= 1 /\ n # 1 => n = 0 OBVIOUS
      <3>2. inbox \in Seq(Messages) /\ Len(inbox) \in Nat BY DEF MessagesInv
      <3>3. Len(inbox) = 0 BY <2>1, <3>1, <3>2, Zenon DEF OneMessage
      <3> QED BY <3>2, <3>3
    <2>4. \A j \in MsgId : ~Held(j)' BY <2>1 DEF OneMessage, Busy, Lme!Processing, Held, ChannelType
    <2>5. \A c \in MsgId : ~Confirming(c)' BY <2>1, <2>3, <2>4 DEF Confirming
    <2>6. \A j \in MsgId : Open(j)' => j = sender' BY <1>a, <2>1, <2>2 DEF OpenInv
    <2> QED BY <1>0, <1>a, <2>5, <2>6 DEF OpenInv
  <1> QED BY <1>2, <1>3, <1>4 DEF LmeReader, Lme!ReaderGoroutine

LEMMA OpenTimer ==
    ASSUME Slow, Sound, IInv, QueueInv, OpenInv, NEW i \in MsgId, LmeTimer(i)
    PROVE  OpenInv'
  <1> USE OrderKnown
  <1>0. UNCHANGED <<main, cur>> BY DEF LmeTimer, mainVars
  <1>1. /\ UNCHANGED <<inbox, reader_, held, sender, fd>>
        /\ \A j \in MsgId : Open(j)' => Open(j)
    BY OpenMoves
  <1>2. \A c \in MsgId : Confirming(c)' <=> Confirming(c) BY <1>1 DEF Confirming, Held
  <1>3. Finishing' => Finishing
    BY DEF LmeTimer, Lme!TimerGoroutine, Lme!TimerStarts, Lme!TimerFires, Lme!TimerClears, Lme!TimerCloses, Finishing,
       ChannelType
  <1>4. CASE Lme!TimerCloses(i)
    <2>1. timer[i] = "closing" /\ Finishing BY <1>4 DEF Lme!TimerCloses, Finishing
    <2>2. \A j \in MsgId : Open(j) => j = sender BY <2>1 DEF OpenInv
    <2>3. ASSUME NEW j \in MsgId, Open(j)', fd = "open" PROVE FALSE
      <3>1. j = sender /\ sender # 0 BY <1>1, <2>2, <2>3 DEF MsgId
      <3>2. amt' = [amt EXCEPT ![sender] = [amt[sender] EXCEPT !.state = "closed"]]
        BY <1>4, <2>3, <3>1 DEF Lme!TimerCloses, Sound
      <3>3. [amt[j] EXCEPT !.state = "closed"].state = "closed" BY DEF ChannelType, Channels
      <3> QED BY <2>3, <3>1, <3>2, <3>3 DEF Open, ChannelType
    <2> QED BY <1>1, <1>2, <1>3, <2>3, OpenKept
  <1>5. CASE Finishing => Finishing'
    BY <1>0, <1>1, <1>2, <1>3, <1>5, OpenKept DEF OpenInv
  <1>6. Finishing => Finishing' \/ Lme!TimerCloses(i)
    <2>1. SUFFICES ASSUME NEW j \in MsgId, timer[j] \in {"clearing", "closing"}, ~Lme!TimerCloses(i)
                   PROVE  timer'[j] \in {"clearing", "closing"}
      BY DEF Finishing
    <2> QED BY <2>1 DEF LmeTimer, Lme!TimerGoroutine, Lme!TimerStarts, Lme!TimerFires, Lme!TimerClears, ChannelType
  <1> QED BY <1>4, <1>5, <1>6

LEMMA OpenDevice ==
    ASSUME Slow, Sound, IInv, QueueInv, OpenInv, NEW i \in MsgId, Device(i)
    PROVE  OpenInv'
  <1> USE OrderKnown
  <1>0. UNCHANGED <<main, cur>> BY DEF Device, mainVars
  <1>1. /\ inbox = <<>> /\ (\A j \in MsgId : ~Busy(j)) /\ ~Finishing /\ fd = "open"
        /\ UNCHANGED <<timer, temp, snap, sender, reader_, held, fd>>
    BY DeviceAlone
  <1>2. ~Finishing' BY <1>1 DEF Finishing
  <1>3. \A c \in MsgId : ~Confirming(c) BY <1>1 DEF Confirming, Held, Busy, Lme!Processing
  <1>4. \A j \in MsgId : ~Held(j)' BY <1>1 DEF Held, Busy, Lme!Processing
  <1>5. CASE Lme!AmtConfirms(i)
    <2>1. /\ Asked(i) /\ inbox' = Append(inbox, Lme!Apf(i, 0, 0))
          /\ amt' = [amt EXCEPT ![i] = [amt[i] EXCEPT !.state = "open"]]
      BY <1>5 DEF Lme!AmtConfirms, Asked
    <2>2. i = cur /\ main = "open" BY <2>1
    <2>3. \A j \in MsgId : ~Open(j) BY <1>1, <2>1, <2>2 DEF OpenInv, Open, Asked, Over
    <2>4. \A j \in MsgId : j # i => ~Open(j)' BY <2>1, <2>3 DEF Open, ChannelType
    <2>5. inbox'[1] = Lme!Apf(i, 0, 0) /\ inbox' # <<>> BY <1>1, <2>1
    <2>6. Confirming(i)' /\ \A c \in MsgId : Confirming(c)' => c = i BY <1>4, <2>5 DEF Confirming, Lme!Apf
    <2> QED BY <1>0, <1>2, <2>2, <2>4, <2>6 DEF OpenInv, Serving
  <1>6. CASE Lme!AmtAnswers(i)
    <2>1. /\ inbox' = Append(inbox, Lme!Apf(i, amt[i].req, amt[i].given + 1))
          /\ amt' = [amt EXCEPT ![i] = [amt[i] EXCEPT !.given = amt[i].given + 1]]
      BY <1>6 DEF Lme!AmtAnswers
    <2>2. [amt[i] EXCEPT !.given = amt[i].given + 1].state = amt[i].state /\ amt[i].given + 1 # 0
      BY DEF ChannelType, Channels
    <2>3. \A j \in MsgId : Open(j)' <=> Open(j) BY <2>1, <2>2 DEF Open, ChannelType
    <2>4. inbox'[1] = Lme!Apf(i, amt[i].req, amt[i].given + 1) BY <1>1, <2>1
    <2>5. \A c \in MsgId : ~Confirming(c)' BY <1>4, <2>2, <2>4 DEF Confirming, Lme!Apf
    <2> QED BY <1>0, <1>1, <1>2, <1>3, <2>3, <2>5, OpenKept DEF OpenInv
  <1> QED BY <1>5, <1>6 DEF Device, Lme!Amt

LEMMA SnapStep ==
    ASSUME Slow, Sound, IInv, QueueInv, SnapInv, ~raced', [Next]_vars
    PROVE  SnapInv'
  <1> USE OrderKnown
  <1>1. ASSUME \A j \in MsgId : timer'[j] = "sending" => timer[j] = "sending" /\ snap'[j] = snap[j],
               Clearing' => Clearing, temp' = temp
        PROVE  SnapInv'
    BY <1>1 DEF SnapInv
  <1>2. CASE UNCHANGED <<timer, snap, temp>> BY <1>1, <1>2 DEF Clearing
  <1>3. CASE ConnectLme
    <2>1. UNCHANGED <<snap, temp>> /\ (timer' = timer \/ timer' = [timer EXCEPT ![cur] = "spawned"])
      BY <1>3 DEF ConnectLme, Lme!OpenChannel, Lme!RetryOpen, Lme!FailOpen, Lme!Listen
    <2> QED BY <1>1, <2>1 DEF Clearing, ChannelType
  <1>4. CASE CleanUp
    BY <1>1, <1>4 DEF CleanUp, Lme!CloseLme, Clearing, ChannelType
  <1>5. ASSUME NEW i \in MsgId, ReceiveFromLme(i) PROVE SnapInv'
    <2>1. timer[i] = "sending" /\ timer' = [timer EXCEPT ![i] = "clearing"]
      BY <1>5 DEF ReceiveFromLme, Lme!HandOver
    <2>2. \A j \in MsgId : timer'[j] # "sending" BY <2>1 DEF ChannelType
    <2> QED BY <2>2 DEF SnapInv
  <1>6. ASSUME NEW i \in MsgId, LmeTimer(i) PROVE SnapInv'
    <2>1. CASE Lme!TimerFires(i, Waiting)
      <3>1. /\ timer' = [timer EXCEPT ![i] = "sending"] /\ snap' = [snap EXCEPT ![i] = temp] /\ temp' = temp
            /\ Lme!Settled
        BY <2>1 DEF Lme!TimerFires
      <3>2. ~Clearing' BY <3>1 DEF Lme!Settled, Lme!Processing, Clearing, ChannelType
      <3>3. \A j \in MsgId : timer'[j] = "sending" => j = i \/ (timer[j] = "sending" /\ snap'[j] = snap[j])
        BY <3>1 DEF ChannelType
      <3>4. snap'[i] = temp /\ DOMAIN temp = 1..Len(temp) /\ Len(temp) <= Len(temp) BY <3>1 DEF ChannelType
      <3> QED BY <3>1, <3>2, <3>3, <3>4 DEF SnapInv
    <2>2. CASE Lme!TimerClears(i)
      <3>1. Clearing /\ timer' = [timer EXCEPT ![i] = "closing"] BY <2>2 DEF Lme!TimerClears, Clearing
      <3>2. \A j \in MsgId : timer'[j] # "sending" BY <3>1 DEF SnapInv, ChannelType
      <3> QED BY <3>2 DEF SnapInv
    <2>3. CASE Lme!TimerStarts(i) \/ Lme!TimerCloses(i)
      BY <1>1, <2>3 DEF Lme!TimerStarts, Lme!TimerCloses, Clearing, ChannelType
    <2> QED BY <1>6, <2>1, <2>2, <2>3 DEF LmeTimer, Lme!TimerGoroutine
  <1>7. ASSUME NEW i \in MsgId, LmeReader(i) PROVE SnapInv'
    <2>1. UNCHANGED <<timer, snap>>
      BY <1>7 DEF LmeReader, Lme!ReaderGoroutine, Lme!ReaderReceives, Lme!ReaderEnds, Lme!ProcessConfirmation,
         Lme!LoadTempdata, Lme!ProcessData
    <2>2. temp' = temp \/ \E p \in Part : temp' = Append(temp, p)
      <3>1. CASE Lme!ProcessData(i)
        <4>1. <<held[i].of, held[i].part>> \in Part
          BY <3>1 DEF Lme!ProcessData, Lme!Processing, MessagesInv, Messages, Confirmations, AnswerParts, Part
        <4>2. temp = loaded[i] BY <3>1 DEF Lme!ProcessData
        <4> QED BY <3>1, <4>1, <4>2 DEF Lme!ProcessData
      <3> QED BY <1>7, <3>1 DEF LmeReader, Lme!ReaderGoroutine, Lme!ReaderReceives, Lme!ReaderEnds,
           Lme!ProcessConfirmation, Lme!LoadTempdata
    <2>3. temp \in Seq(Part) BY DEF ChannelType
    <2>4. Len(temp) \in Nat /\ Len(temp) <= Len(temp') /\ \A k \in 1..Len(temp) : temp'[k] = temp[k] BY <2>2, <2>3
    <2>5. \A j \in MsgId : Len(snap[j]) \in Nat /\ DOMAIN snap[j] = 1..Len(snap[j]) BY DEF ChannelType
    <2>6. Clearing' <=> Clearing BY <2>1 DEF Clearing
    <2>7. ASSUME NEW j \in MsgId, timer'[j] = "sending"
          PROVE  ~Clearing' /\ Len(snap'[j]) <= Len(temp') /\ \A k \in DOMAIN snap'[j] : snap'[j][k] = temp'[k]
      <3>1. ~Clearing /\ Len(snap[j]) <= Len(temp) /\ \A k \in DOMAIN snap[j] : snap[j][k] = temp[k]
        BY <2>1, <2>7 DEF SnapInv
      <3>2. \A k \in DOMAIN snap[j] : k \in 1..Len(temp) BY <2>3, <2>5, <3>1
      <3>3. Len(temp') \in Nat BY <2>2, <2>3
      <3> QED BY <2>1, <2>4, <2>5, <2>6, <3>1, <3>2, <3>3
    <2> QED BY <2>7 DEF SnapInv
  <1>8. ASSUME NEW i \in MsgId, Device(i) PROVE SnapInv'
    BY <1>2, <1>8, DeviceAlone
  <1>9. CASE UseLme \/ SendLme \/ UNCHANGED lmeVars
    BY <1>2, <1>9 DEF UseLme, SendLme, lmeVars, Lme!Initialize, Lme!SendPayload, Lme!SendPayloadFails, Lme!lmeVars
  <1> QED BY <1>3, <1>4, <1>5, <1>6, <1>7, <1>8, <1>9, LmeCases

LEMMA PartFacts ==
    \A p \in Part : p[1] \in MsgId /\ p[1] \in Nat /\ p[2] \in Nat /\ p = <<p[1], p[2]>>
  BY DEF Part, MsgId

\* What is on its way, or kept, is a part of an answer.
LEMMA PlaceTypes ==
    ASSUME MessagesInv, ChannelType
    PROVE  /\ \A i \in MsgId : InHand(i) => <<held[i].of, held[i].part>> \in Part
           /\ InInbox => <<inbox[1].of, inbox[1].part>> \in Part
           /\ \A k \in DOMAIN temp : temp[k] \in Part
  <1>1. \A m \in Messages : m.part > 0 => <<m.of, m.part>> \in Part
    BY DEF Messages, Confirmations, AnswerParts, Part
  <1>2. InInbox => inbox[1] \in Messages BY DEF InInbox, MessagesInv
  <1> QED BY <1>1, <1>2 DEF InHand, Busy, Lme!Processing, InInbox, MessagesInv, ChannelType

\* Parts AMT has given stay given.
LEMMA GivenKept ==
    ASSUME ChannelType, ChannelType', sender' = sender,
           \A j \in MsgId : j = sender /\ Open(j)' => Open(j) /\ amt'[j].given >= amt[j].given
    PROVE  \A p \in Part : Given(p) => Given(p)'
  <1> SUFFICES ASSUME NEW p \in Part, Given(p), p[1] = sender, Open(sender)' PROVE p[2] <= amt'[sender].given
    BY DEF Given, Open
  <1>1. sender \in MsgId /\ p[2] \in Nat BY PartFacts
  <1>2. amt[sender].given \in Nat /\ amt'[sender].given \in Nat BY <1>1 DEF ChannelType, Channels
  <1>3. p[2] <= amt[sender].given /\ amt[sender].given <= amt'[sender].given
    BY <1>1, <1>2, PartFacts DEF Given, Open, ChannelType
  <1> QED BY <1>1, <1>2, <1>3

\* A step that moves parts no further than from the handler to RPS.
LEMMA FlowKept ==
    ASSUME FlowInv, SentInOrder',
           \A p \in Part : InSent(p)' => InSent(p) \/ (InData(p) /\ main' # "forward"),
           \A p \in Part : InData(p)' => InData(p),
           \A p \in Part : InTemp(p)' => InTemp(p),
           \A p \in Part : InFlight(p)' => InFlight(p),
           \A p \in Part : Given(p) => Given(p)',
           main' = "forward" => Increasing(data)',
           ~Clearing' => Increasing(temp)'
    PROVE  FlowInv'
  <1> USE DEF FlowInv
  <1>1. \A p, q \in Part : InSent(p)' /\ (InData(q)' \/ InTemp(q)' \/ InFlight(q)') => Before(p, q)
    <2>1. \A q \in Part : InData(q)' => main' = "forward" BY DEF InData
    <2> QED BY <2>1
  <1>2. \A p, q \in Part : InData(p)' /\ (InTemp(q)' \/ InFlight(q)') => Before(p, q) OBVIOUS
  <1>3. \A p, q \in Part : InTemp(p)' /\ InFlight(q)' => Before(p, q) OBVIOUS
  <1>4. \A p \in Part : InSent(p)' \/ InData(p)' \/ InTemp(p)' \/ InFlight(p)' => Given(p)' OBVIOUS
  <1> QED BY <1>1, <1>2, <1>3, <1>4 DEF Before

\* What a step that adds to sent adds.
LEMMA SentMoves ==
    ASSUME TypeOK, HandlingInv, [Next]_vars
    PROVE  \/ sent' = sent
           \/ /\ main # "forward" /\ main' # "forward" /\ UNCHANGED lmeVars
              /\ \E m \in Outgoing : m.body = <<>> /\ sent' = Append(sent, m)
           \/ /\ main = "forward" /\ main' # "forward" /\ UNCHANGED lmeVars
              /\ Response(cur, data) \in Outgoing /\ sent' = Append(sent, Response(cur, data))
  <1>0. cur \in MsgId \cup {0} /\ data \in Seq(Part) /\ (main \in Handling => cur \in MsgId)
    BY CurBound DEF TypeOK, MainTypeOK, HandlingInv, MsgId
  <1>1. CASE StartSession /\ UNCHANGED lmeVars
    <2>1. InitialMessage \in Outgoing /\ InitialMessage.body = <<>>
      BY DEF InitialMessage, Outgoing
    <2> QED BY <1>1, <2>1 DEF StartSession, Write, Goto
  <1>2. CASE AnswerHeartbeat /\ UNCHANGED lmeVars
    <2>1. HeartbeatResponse(cur) \in Outgoing /\ HeartbeatResponse(cur).body = <<>>
      BY <1>0 DEF HeartbeatResponse, Outgoing
    <2> QED BY <1>2, <2>1 DEF AnswerHeartbeat, Write, Goto
  <1>3. CASE Forward /\ UNCHANGED lmeVars
    <2>1. Response(cur, data) \in Outgoing BY <1>0 DEF Response, Outgoing
    <2> QED BY <1>3, <2>1 DEF Forward, Write, Goto
  <1>4. CASE OwnStep
    BY <1>1, <1>2, <1>3, <1>4 DEF OwnStep, MainStep, SessionStep, UseLme, PrepareInitialMessage, DialRps, TakeMessage,
       TakeClosed, TakeInterrupt, ConnectLme, WaitForChannel, SendLme, ReceiveFromLme, WaitAgain, CloseChannels,
       CleanUp, Exit, UserInterrupts, linkVars
  <1>5. CASE LinkOnly
    BY <1>5 DEF LinkOnly, LinkBreaks, ReadMessage, ReadFails, RpsSends
  <1> QED BY <1>4, <1>5, MainCases DEF vars, linkVars

\* Appending a message whose parts, in order, follow all that were sent.
LEMMA SentAppend ==
    ASSUME sent \in Seq(Outgoing), SentInOrder, NEW m \in Outgoing, sent' = Append(sent, m),
           Increasing(m.body),
           \A p \in Part : \A l \in DOMAIN m.body : InSent(p) => Before(p, m.body[l])
    PROVE  /\ SentInOrder'
           /\ \A p \in Part : InSent(p)' => InSent(p) \/ \E l \in DOMAIN m.body : p = m.body[l]
  <1>1. Len(sent) \in Nat /\ DOMAIN sent = 1..Len(sent) /\ DOMAIN sent' = 1..(Len(sent) + 1) OBVIOUS
  <1>2. sent'[Len(sent) + 1] = m /\ \A i \in DOMAIN sent : sent'[i] = sent[i] OBVIOUS
  <1>3. \A i \in DOMAIN sent' : i \in DOMAIN sent \/ i = Len(sent) + 1 BY <1>1
  <1>4. \A i \in DOMAIN sent : \A k \in DOMAIN sent[i].body : sent[i].body[k] \in Part /\ InSent(sent[i].body[k])
    <2>0. \A i \in DOMAIN sent : sent[i] \in Outgoing OBVIOUS
    <2>1. \A i \in DOMAIN sent : sent[i].body \in Seq(Part) BY <2>0 DEF Outgoing
    <2>2. \A s \in Seq(Part) : \A k \in DOMAIN s : s[k] \in Part OBVIOUS
    <2> QED BY <2>1, <2>2 DEF InSent
  <1>5. SentInOrder'
    <2> SUFFICES ASSUME NEW i \in DOMAIN sent', NEW j \in DOMAIN sent',
                        NEW k \in DOMAIN sent'[i].body, NEW l \in DOMAIN sent'[j].body,
                        i < j \/ (i = j /\ k < l)
                 PROVE  Before(sent'[i].body[k], sent'[j].body[l])
      BY DEF SentInOrder, Before
    <2>1. CASE i \in DOMAIN sent /\ j \in DOMAIN sent
      BY <1>2, <2>1 DEF SentInOrder
    <2>2. CASE i \in DOMAIN sent /\ j = Len(sent) + 1
      <3>1. sent'[i].body[k] \in Part /\ InSent(sent'[i].body[k]) BY <1>2, <1>4, <2>2
      <3> QED BY <1>2, <2>2, <3>1
    <2>3. CASE i = Len(sent) + 1 /\ j = Len(sent) + 1
      BY <1>1, <1>2, <2>3 DEF Increasing
    <2>4. CASE i = Len(sent) + 1 /\ j \in DOMAIN sent
      BY <1>1, <2>4
    <2> QED BY <1>3, <2>1, <2>2, <2>3, <2>4
  <1>6. ASSUME NEW p \in Part, InSent(p)' PROVE InSent(p) \/ \E l \in DOMAIN m.body : p = m.body[l]
    <2>1. PICK i \in DOMAIN sent' : \E k \in DOMAIN sent'[i].body : p = sent'[i].body[k] BY <1>6 DEF InSent
    <2> QED BY <1>2, <1>3, <2>1 DEF InSent
  <1> QED BY <1>5, <1>6

LEMMA FlowCaller ==
    ASSUME Slow, Sound, IInv, QueueInv, OrderInv, ~raced, ~raced', ChannelType', [Next]_vars,
           \/ (TakeMessage /\ UNCHANGED lmeVars) \/ ConnectLme \/ WaitForChannel \/ SendLme \/ CleanUp \/ Calm
    PROVE  FlowInv'
  <1> USE OrderKnown
  <1>0. FlowInv /\ FreshInv BY DEF OrderInv
  <1>1. main' = "forward" => main = "forward" /\ data' = data
    BY DEF TakeMessage, AfterProcessMessage, ConnectLme, WaitForChannel, SendLme, CleanUp, Calm, Goto
  <1>2. \A p \in Part : InData(p)' => InData(p) BY <1>1 DEF InData
  <1>3. main' = "forward" => Increasing(data)'
    BY <1>0, <1>1 DEF FlowInv, Increasing
  <1>4. temp' = temp /\ (Clearing' <=> Clearing)
    <2>1. CASE ConnectLme
      <3>0. main = "connect" BY <2>1 DEF ConnectLme, Goto
      <3>1. timer[cur] = "none" BY <1>0, <3>0 DEF FreshInv, Handling
      <3>2. temp' = temp /\ (timer' = timer \/ timer' = [timer EXCEPT ![cur] = "spawned"])
        BY <2>1 DEF ConnectLme, Lme!OpenChannel, Lme!RetryOpen, Lme!FailOpen, Lme!Listen
      <3> QED BY <3>1, <3>2 DEF Clearing, ChannelType
    <2>2. CASE CleanUp
      BY <2>2 DEF CleanUp, Lme!CloseLme, Clearing, ChannelType
    <2>3. CASE WaitForChannel \/ SendLme \/ Calm \/ UNCHANGED lmeVars
      BY <2>3 DEF WaitForChannel, SendLme, Calm, UseLme, lmeVars, Clearing, Lme!Initialize, Lme!SendPayload,
         Lme!SendPayloadFails, Lme!lmeVars
    <2> QED BY <2>1, <2>2, <2>3
  <1>5. \A p \in Part : InTemp(p)' => InTemp(p) BY <1>4 DEF InTemp
  <1>6. ~Clearing' => Increasing(temp)' BY <1>0, <1>4 DEF FlowInv, Increasing
  <1>7. held' = held /\ sender' = sender /\ (inbox' = inbox \/ inbox' = <<>>) /\ \A j \in MsgId : Busy(j)' => Busy(j)
    <2>1. CASE ConnectLme
      <3>1. reader_' \in {reader_, [reader_ EXCEPT ![cur] = "receiving"]} \/ Lme!RetryOpen
        BY <2>1 DEF ConnectLme, Lme!OpenChannel, Lme!FailOpen, Lme!Listen
      <3>2. \A j \in MsgId : Busy(j)' => Busy(j) BY <3>1 DEF Lme!RetryOpen, Busy, Lme!Processing, ChannelType
      <3> QED BY <2>1, <3>2 DEF ConnectLme, Lme!OpenChannel, Lme!RetryOpen, Lme!FailOpen
    <2>2. CASE CleanUp \/ WaitForChannel \/ SendLme \/ Calm \/ UNCHANGED lmeVars
      BY <2>2 DEF CleanUp, WaitForChannel, SendLme, Calm, UseLme, lmeVars, Busy, Lme!Processing, Lme!Initialize,
         Lme!SendPayload, Lme!SendPayloadFails, Lme!lmeVars, Lme!CloseLme
    <2> QED BY <2>1, <2>2
  <1>8. \A p \in Part : InFlight(p)' => InFlight(p) BY <1>7 DEF InFlight, InInbox, InHand
  <1>9. \A p \in Part : Given(p) => Given(p)'
    <2>1. \A j \in MsgId : j = sender /\ Open(j)' => Open(j) /\ amt'[j].given >= amt[j].given
      <3>1. CASE ConnectLme
        <4>1. CASE Lme!RetryOpen BY <4>1 DEF Lme!RetryOpen, Lme!NoChannel, Open
        <4>2. CASE Lme!OpenChannel(cur) \/ Lme!FailOpen(cur)
          <5>1. \A j \in MsgId : Open(j)' => amt'[j] = amt[j]
            BY <4>2 DEF Lme!OpenChannel, Lme!FailOpen, Lme!NoChannel, Open, ChannelType
          <5> QED BY <5>1 DEF Open, ChannelType, Channels
        <4> QED BY <3>1, <4>1, <4>2 DEF ConnectLme
      <3>2. CASE SendLme
        <4>1. cur \in MsgId BY <3>2 DEF SendLme, Goto, Handling
        <4>2. \A j \in MsgId : Open(j)' => Open(j) /\ amt'[j].given = amt[j].given BY <3>2, <4>1, OpenMoves
        <4>3. \A j \in MsgId : amt[j].given \in Nat BY DEF ChannelType, Channels
        <4> QED BY <4>2, <4>3
      <3>3. CASE CleanUp \/ WaitForChannel \/ Calm \/ UNCHANGED lmeVars
        <4>1. amt' = amt
          BY <3>3 DEF CleanUp, WaitForChannel, Calm, UseLme, lmeVars, Lme!Initialize, Lme!CloseLme
        <4> QED BY <4>1 DEF Open, ChannelType, Channels
      <3> QED BY <3>1, <3>2, <3>3
    <2> QED BY <1>7, <2>1, GivenKept
  <1>10. SentInOrder' /\ \A p \in Part : InSent(p)' => InSent(p) \/ (InData(p) /\ main' # "forward")
    <2>0. sent \in Seq(Outgoing) BY DEF OrderInv
    <2>1. CASE sent' = sent BY <1>0, <2>1 DEF FlowInv, SentInOrder, Before, InSent
    <2>2. ASSUME NEW m \in Outgoing, m.body = <<>>, sent' = Append(sent, m)
          PROVE  SentInOrder' /\ \A p \in Part : InSent(p)' => InSent(p)
      <3>1. DOMAIN m.body = {} BY <2>2
      <3> QED BY <1>0, <2>0, <2>2, <3>1, SentAppend DEF FlowInv, Increasing
    <2>3. CASE main = "forward" /\ main' # "forward" /\ Response(cur, data) \in Outgoing
               /\ sent' = Append(sent, Response(cur, data))
      <3>1. Response(cur, data).body = data BY DEF Response
      <3>2. \A p \in Part : \A l \in DOMAIN data : InSent(p) => Before(p, data[l])
        <4>1. \A l \in DOMAIN data : data[l] \in Part /\ InData(data[l]) BY <2>3 DEF InData
        <4> QED BY <1>0, <4>1 DEF FlowInv
      <3>3. Increasing(data) BY <1>0, <2>3 DEF FlowInv
      <3>4. SentInOrder' /\ \A p \in Part : InSent(p)' => InSent(p) \/ \E l \in DOMAIN data : p = data[l]
        BY <1>0, <2>0, <2>3, <3>1, <3>2, <3>3, SentAppend DEF FlowInv
      <3> QED BY <2>3, <3>4 DEF InData
    <2> QED BY <2>1, <2>2, <2>3, SentMoves DEF IInv
  <1> QED BY <1>0, <1>2, <1>3, <1>5, <1>6, <1>8, <1>9, <1>10, FlowKept

LEMMA FlowHandOver ==
    ASSUME Slow, Sound, IInv, QueueInv, OrderInv, ~raced, ~raced', NEW i \in MsgId, ReceiveFromLme(i)
    PROVE  FlowInv'
  <1> USE OrderKnown
  <1>0. FlowInv /\ SnapInv BY DEF OrderInv
  <1>1. /\ main = "wait" /\ main' = "forward" /\ timer[i] = "sending" /\ data' = snap[i]
        /\ UNCHANGED <<sent, sender, amt, inbox, reader_, held>> /\ timer' = [timer EXCEPT ![i] = "clearing"]
    BY DEF ReceiveFromLme, Goto, Lme!HandOver, linkVars
  <1>2. Clearing' BY <1>1 DEF Clearing, ChannelType
  <1>3. ~Clearing /\ Len(snap[i]) <= Len(temp) /\ \A k \in DOMAIN snap[i] : snap[i][k] = temp[k]
    BY <1>0, <1>1 DEF SnapInv
  <1>4. \A k \in DOMAIN snap[i] : k \in DOMAIN temp /\ k \in Nat BY <1>3 DEF ChannelType
  <1>5. Increasing(data)' BY <1>0, <1>1, <1>3, <1>4 DEF FlowInv, Increasing
  <1>6. \A p \in Part : InData(p)' => InTemp(p) BY <1>1, <1>3, <1>4 DEF InData, InTemp
  <1>7. \A p \in Part : ~InTemp(p)' BY <1>2 DEF InTemp
  <1>8. \A p \in Part : /\ InSent(p)' <=> InSent(p)
                        /\ InFlight(p)' <=> InFlight(p)
                        /\ Given(p)' <=> Given(p)
    BY <1>1 DEF InSent, InFlight, InInbox, InHand, Busy, Lme!Processing, Given
  <1>9. SentInOrder' BY <1>0, <1>1 DEF FlowInv, SentInOrder, Before
  <1> QED BY <1>0, <1>2, <1>5, <1>6, <1>7, <1>8, <1>9 DEF FlowInv, Before

\* Nothing happens to what was forwarded and to what the handler holds.
LEMMA FlowAside ==
    ASSUME UNCHANGED <<sent, main, data>>
    PROVE  /\ SentInOrder' <=> SentInOrder
           /\ \A p \in Part : (InSent(p)' <=> InSent(p)) /\ (InData(p)' <=> InData(p))
           /\ (main = "forward" => Increasing(data)) => (main' = "forward" => Increasing(data)')
  BY DEF SentInOrder, Before, InSent, InData, Increasing

LEMMA FlowTimer ==
    ASSUME Slow, Sound, IInv, QueueInv, OrderInv, ~raced, ~raced', ChannelType', NEW i \in MsgId, LmeTimer(i)
    PROVE  FlowInv'
  <1> USE OrderKnown
  <1>0. FlowInv /\ UNCHANGED <<sent, main, data>> BY DEF OrderInv, LmeTimer, linkVars, mainVars
  <1>1. UNCHANGED <<inbox, reader_, held, sender>> /\ \A j \in MsgId : Open(j)' => Open(j) /\ amt'[j].given = amt[j].given
    BY OpenMoves
  <1>2. \A p \in Part : InFlight(p)' <=> InFlight(p) BY <1>1 DEF InFlight, InInbox, InHand, Busy, Lme!Processing
  <1>3. \A p \in Part : Given(p) => Given(p)'
    <2>1. \A j \in MsgId : amt[j].given \in Nat BY DEF ChannelType, Channels
    <2>2. \A j \in MsgId : j = sender /\ Open(j)' => Open(j) /\ amt'[j].given >= amt[j].given BY <1>1, <2>1
    <2> QED BY <1>1, <2>2, GivenKept
  <1>4. (\A p \in Part : InTemp(p)' => InTemp(p)) /\ (~Clearing' => Increasing(temp)')
    <2>1. CASE Lme!TimerClears(i)
      <3>1. temp' = <<>> BY <2>1 DEF Lme!TimerClears
      <3> QED BY <3>1 DEF InTemp, Increasing
    <2>2. CASE Lme!TimerStarts(i) \/ Lme!TimerFires(i, Waiting) \/ Lme!TimerCloses(i)
      <3>1. temp' = temp /\ (Clearing' <=> Clearing)
        BY <2>2 DEF Lme!TimerStarts, Lme!TimerFires, Lme!TimerCloses, Clearing, ChannelType
      <3> QED BY <1>0, <3>1 DEF FlowInv, InTemp, Increasing
    <2> QED BY <2>1, <2>2 DEF LmeTimer, Lme!TimerGoroutine
  <1> QED BY <1>0, <1>2, <1>3, <1>4, FlowAside, FlowKept DEF FlowInv

LEMMA FlowReader ==
    ASSUME Slow, Sound, IInv, QueueInv, OrderInv, ~raced, ~raced', ChannelType', NEW i \in MsgId, LmeReader(i)
    PROVE  FlowInv'
  <1> USE OrderKnown
  <1>0. /\ FlowInv /\ UNCHANGED <<sent, main, data, amt, timer>>
        /\ Lme!ReaderReceives(i) \/ Lme!ReaderEnds(i) \/ Lme!ProcessConfirmation(i)
           \/ Lme!LoadTempdata(i) \/ Lme!ProcessData(i)
    BY DEF OrderInv, LmeReader, linkVars, mainVars, Lme!ReaderGoroutine, Lme!ReaderReceives, Lme!ReaderEnds,
       Lme!ProcessConfirmation, Lme!LoadTempdata, Lme!ProcessData
  <1>1. Clearing' <=> Clearing BY <1>0 DEF Clearing
  <1>2. \A j \in MsgId : j = sender /\ Open(j)' => Open(j) /\ amt'[j].given >= amt[j].given
    <2>1. \A j \in MsgId : amt[j].given \in Nat BY DEF ChannelType, Channels
    <2> QED BY <1>0, <2>1 DEF Open
  <1>3. CASE Lme!ReaderReceives(i) \/ Lme!ReaderEnds(i) \/ Lme!LoadTempdata(i)
    <2>1. UNCHANGED <<temp, sender>> BY <1>3 DEF Lme!ReaderReceives, Lme!ReaderEnds, Lme!LoadTempdata
    <2>2. \A p \in Part : InFlight(p)' => InFlight(p)
      <3>1. CASE Lme!ReaderReceives(i)
        <4>1. /\ inbox # <<>> /\ inbox \in Seq(Messages) /\ inbox' = Tail(inbox)
              /\ held' = [held EXCEPT ![i] = inbox[1]] /\ reader_' = [reader_ EXCEPT ![i] = "processing"]
          BY <3>1 DEF Lme!ReaderReceives, MessagesInv
        <4>2. inbox' = <<>>
          <5>1. \A n \in Nat : n # 0 /\ n <= 1 => n = 1 OBVIOUS
          <5>2. Len(inbox) \in Nat /\ Len(inbox) # 0 BY <4>1
          <5>3. Len(inbox) = 1 BY <5>1, <5>2, Zenon DEF OneMessage
          <5> QED BY <4>1, <5>3
        <4>3. held'[i] = inbox[1] BY <4>1 DEF MessagesInv
        <4>4. \A j \in MsgId : Busy(j)' => j = i \/ (Busy(j) /\ held'[j] = held[j])
          BY <4>1 DEF MessagesInv, ChannelType, Busy, Lme!Processing
        <4>5. ASSUME NEW p \in Part, NEW j \in MsgId, InHand(j)', p = <<held'[j].of, held'[j].part>> PROVE InFlight(p)
          <5>1. CASE j = i BY <4>1, <4>3, <4>5, <5>1 DEF InHand, InFlight, InInbox
          <5>2. CASE Busy(j) /\ held'[j] = held[j] BY <4>5, <5>2 DEF InHand, InFlight
          <5> QED BY <4>4, <4>5, <5>1, <5>2 DEF InHand
        <4> QED BY <4>2, <4>5 DEF InFlight, InInbox
      <3>2. CASE Lme!ReaderEnds(i) \/ Lme!LoadTempdata(i)
        <4>1. UNCHANGED <<inbox, held>> /\ \A j \in MsgId : Busy(j)' => Busy(j)
          BY <3>2 DEF Lme!ReaderEnds, Lme!LoadTempdata, Busy, Lme!Processing, ChannelType
        <4> QED BY <4>1 DEF InFlight, InInbox, InHand
      <3> QED BY <1>3, <3>1, <3>2
    <2>3. \A p \in Part : Given(p) => Given(p)' BY <1>2, <2>1, GivenKept
    <2>4. (\A p \in Part : InTemp(p)' => InTemp(p)) /\ (~Clearing' => Increasing(temp)')
      BY <1>0, <1>1, <2>1 DEF FlowInv, InTemp, Increasing
    <2> QED BY <1>0, <2>2, <2>3, <2>4, FlowAside, FlowKept DEF FlowInv
  <1>4. CASE Lme!ProcessConfirmation(i)
    <2>1. /\ Held(i) /\ sender' = held[i].channel /\ UNCHANGED <<temp, inbox, held>>
          /\ reader_' = [reader_ EXCEPT ![i] = "receiving"]
      BY <1>4 DEF Lme!ProcessConfirmation, Held
    <2>2. sender' = cur /\ sender <= cur
      <3>1. held[i].channel \in MsgId /\ Confirming(held[i].channel)
        BY <2>1 DEF MessagesInv, Lme!Processing, Messages, Confirmations, AnswerParts, Confirming, Held
      <3> QED BY <2>1, <3>1 DEF AmtInv
    <2>3. \A j \in MsgId : Busy(j)' => Busy(j) BY <2>1 DEF Busy, Lme!Processing, ChannelType
    <2>4. \A p \in Part : InFlight(p)' => InFlight(p) BY <2>1, <2>3 DEF InFlight, InInbox, InHand
    <2>5. ASSUME NEW p \in Part, Given(p) PROVE Given(p)'
      <3>1. CASE sender = cur BY <1>0, <2>2, <2>5, <3>1 DEF Given
      <3>2. CASE sender # cur
        <4>1. sender \in Nat /\ cur \in Nat /\ p[1] \in Nat
          <5>1. sender \in MsgId \cup {0} /\ cur \in 0..MaxMsgs BY DEF ChannelType
          <5> QED BY <5>1, PartFacts DEF MsgId
        <4>2. p[1] < sender \/ p[1] = sender BY <2>5 DEF Given
        <4>3. p[1] < cur BY <2>2, <3>2, <4>1, <4>2
        <4> QED BY <2>2, <4>3 DEF Given
      <3> QED BY <3>1, <3>2
    <2>6. (\A p \in Part : InTemp(p)' => InTemp(p)) /\ (~Clearing' => Increasing(temp)')
      BY <1>0, <1>1, <2>1 DEF FlowInv, InTemp, Increasing
    <2> QED BY <1>0, <2>4, <2>5, <2>6, FlowAside, FlowKept DEF FlowInv
  <1>5. CASE Lme!ProcessData(i)
    <2> DEFINE p0 == <<held[i].of, held[i].part>>
    <2>a. /\ reader_[i] = "appending" /\ UNCHANGED <<inbox, held, sender>> /\ temp' = Append(loaded[i], p0)
          /\ reader_' = [reader_ EXCEPT ![i] = "receiving"] /\ temp = loaded[i]
      BY <1>5 DEF Lme!ProcessData
    <2>b. Busy(i) /\ InHand(i) BY <2>a DEF MessagesInv, InHand, Busy, Lme!Processing
    <2>1. /\ Busy(i) /\ InHand(i) /\ UNCHANGED <<inbox, held, sender>> /\ temp' = Append(temp, p0)
          /\ reader_' = [reader_ EXCEPT ![i] = "receiving"]
      BY <2>a, <2>b
    <2>2. p0 \in Part /\ InFlight(p0) BY <2>1, PlaceTypes DEF InFlight
    <2> HIDE DEF p0
    <2>3. inbox = <<>>
      <3>1. \A n \in Nat : n <= 1 /\ n # 1 => n = 0 OBVIOUS
      <3>2. inbox \in Seq(Messages) /\ Len(inbox) \in Nat BY DEF MessagesInv
      <3>3. Len(inbox) = 0 BY <2>1, <3>1, <3>2, Zenon DEF OneMessage
      <3> QED BY <3>2, <3>3
    <2>4. \A j \in MsgId : ~Busy(j)' BY <2>1 DEF OneMessage, Busy, Lme!Processing, ChannelType
    <2>5. \A p \in Part : ~InFlight(p)' BY <2>1, <2>3, <2>4 DEF InFlight, InInbox, InHand
    <2>6. \A p \in Part : Given(p) => Given(p)' BY <1>2, <2>1, GivenKept
    <2>7. temp \in Seq(Part) BY DEF ChannelType
    <2>8. \A p \in Part : InTemp(p)' => InTemp(p) \/ p = p0
      <3>1. \A k \in DOMAIN temp' : (k \in DOMAIN temp /\ temp'[k] = temp[k]) \/ temp'[k] = p0 BY <2>1, <2>7
      <3> QED BY <1>1, <3>1 DEF InTemp
    <2>9. ASSUME ~Clearing' PROVE Increasing(temp)'
      <3>1. Increasing(temp) /\ \A k \in DOMAIN temp : temp[k] \in Part /\ InTemp(temp[k])
        BY <1>0, <1>1, <2>7, <2>9 DEF FlowInv, InTemp
      <3>2. \A k \in DOMAIN temp : Before(temp[k], p0) BY <1>0, <2>2, <3>1 DEF FlowInv
      <3>4. CASE temp' = Append(temp, p0)
        <4> SUFFICES ASSUME NEW k \in DOMAIN temp', NEW l \in DOMAIN temp', k < l PROVE Before(temp'[k], temp'[l])
          BY DEF Increasing, Before
        <4>1. k \in DOMAIN temp /\ temp'[k] = temp[k] BY <2>7, <3>4
        <4>2. CASE l \in DOMAIN temp
          <5>1. temp'[l] = temp[l] BY <2>7, <3>4, <4>2
          <5> QED BY <3>1, <4>1, <4>2, <5>1 DEF Increasing
        <4>3. CASE temp'[l] = p0 BY <3>2, <4>1, <4>3
        <4>4. l \in DOMAIN temp \/ temp'[l] = p0 BY <2>7, <3>4
        <4> QED BY <4>2, <4>3, <4>4
      <3> QED BY <2>1, <3>4
    <2>10. /\ SentInOrder'
           /\ \A p \in Part : (InSent(p)' <=> InSent(p)) /\ (InData(p)' <=> InData(p))
           /\ main' = "forward" => Increasing(data)'
      BY <1>0, FlowAside DEF FlowInv
    <2>11. \A p, q \in Part : InSent(p)' /\ (InData(q)' \/ InTemp(q)' \/ InFlight(q)') => Before(p, q)
      BY <1>0, <2>2, <2>5, <2>8, <2>10 DEF FlowInv
    <2>12. \A p, q \in Part : InData(p)' /\ (InTemp(q)' \/ InFlight(q)') => Before(p, q)
      BY <1>0, <2>2, <2>5, <2>8, <2>10 DEF FlowInv
    <2>13. \A p \in Part : InSent(p)' \/ InData(p)' \/ InTemp(p)' \/ InFlight(p)' => Given(p)'
      BY <1>0, <2>2, <2>5, <2>6, <2>8, <2>10 DEF FlowInv
    <2> QED BY <2>5, <2>9, <2>10, <2>11, <2>12, <2>13 DEF FlowInv, Before
  <1> QED BY <1>0, <1>3, <1>4, <1>5

LEMMA FlowDevice ==
    ASSUME Slow, Sound, IInv, QueueInv, OrderInv, ~raced, ~raced', ChannelType', NEW i \in MsgId, Device(i)
    PROVE  FlowInv'
  <1> USE OrderKnown
  <1>0. FlowInv /\ OpenInv /\ UNCHANGED <<sent, main, data>> BY DEF OrderInv, Device, linkVars, mainVars
  <1>1. /\ inbox = <<>> /\ (\A j \in MsgId : ~Busy(j)) /\ ~Finishing /\ fd = "open"
        /\ UNCHANGED <<timer, temp, snap, sender, reader_, held, fd>>
    BY DeviceAlone
  <1>2. \A j \in MsgId : ~Busy(j)' BY <1>1 DEF Busy, Lme!Processing
  <1>3. (\A p \in Part : InTemp(p)' <=> InTemp(p)) /\ (~Clearing' => Increasing(temp)')
    <2>1. Clearing' <=> Clearing BY <1>1 DEF Clearing
    <2> QED BY <1>0, <1>1, <2>1 DEF FlowInv, InTemp, Increasing
  <1>4. CASE Lme!AmtConfirms(i)
    <2>1. /\ Asked(i) /\ inbox' = Append(inbox, Lme!Apf(i, 0, 0))
          /\ amt' = [amt EXCEPT ![i] = [amt[i] EXCEPT !.state = "open"]]
      BY <1>4 DEF Lme!AmtConfirms, Asked
    <2>2. i # sender
      <3>1. sender < cur /\ i = cur BY <2>1
      <3>2. sender \in 0..MaxMsgs /\ i \in 0..MaxMsgs
        <4>1. sender \in MsgId \cup {0} BY DEF ChannelType
        <4> QED BY <4>1 DEF MsgId
      <3>3. \A m, n \in 0..MaxMsgs : m < n => n # m OBVIOUS
      <3>4. sender < i BY <3>1
      <3> QED BY <3>2, <3>3, <3>4, Zenon
    <2>3. \A j \in MsgId : j = sender /\ Open(j)' => Open(j) /\ amt'[j].given >= amt[j].given
      <3>1. \A j \in MsgId : j = sender => amt'[j] = amt[j] /\ amt[j].given \in Nat
        BY <2>1, <2>2 DEF ChannelType, Channels
      <3> QED BY <3>1 DEF Open
    <2>4. \A p \in Part : Given(p) => Given(p)' BY <1>1, <2>3, GivenKept
    <2>5. inbox'[1] = Lme!Apf(i, 0, 0) BY <1>1, <2>1
    <2>6. \A p \in Part : ~InFlight(p)' BY <1>2, <2>5 DEF InFlight, InInbox, InHand, Lme!Apf
    <2> QED BY <1>0, <1>3, <2>4, <2>6, FlowAside, FlowKept DEF FlowInv
  <1>5. CASE Lme!AmtAnswers(i)
    <2>1. /\ inbox' = Append(inbox, Lme!Apf(i, amt[i].req, amt[i].given + 1))
          /\ amt' = [amt EXCEPT ![i] = [amt[i] EXCEPT !.given = amt[i].given + 1]]
          /\ Open(i) /\ amt[i].req # 0
      BY <1>5 DEF Lme!AmtAnswers, Open
    <2>2. i = sender
      <3>1. \A c \in MsgId : ~Confirming(c) BY <1>1 DEF Confirming, Held, Busy, Lme!Processing
      <3> QED BY <1>0, <2>1, <3>1 DEF OpenInv
    <2>3. amt[i].req = i BY <2>1 DEF AmtInv
    <2>4. amt[i].given \in Nat BY DEF ChannelType, Channels
    <2>p. PICK p0 \in Part : p0 = <<i, amt[i].given + 1>>
      <3>1. amt[i].given + 1 \in 1..Parts BY <1>5, <2>4 DEF Lme!AmtAnswers
      <3>2. <<i, amt[i].given + 1>> \in Part BY <3>1 DEF Part
      <3> QED BY <3>2
    <2>5. \A p \in Part : InFlight(p)' => p = p0
      <3>1. inbox'[1] = Lme!Apf(i, i, amt[i].given + 1) BY <1>1, <2>1, <2>3
      <3> QED BY <1>2, <2>p, <3>1 DEF InFlight, InInbox, InHand, Lme!Apf
    <2>6. amt'[i].given = amt[i].given + 1 /\ amt[i].given + 1 \in Nat /\ amt[i].given <= amt[i].given + 1
      <3>1. amt'[i] = [amt[i] EXCEPT !.given = amt[i].given + 1] BY <2>1 DEF ChannelType
      <3>2. [amt[i] EXCEPT !.given = amt[i].given + 1].given = amt[i].given + 1 BY DEF ChannelType, Channels
      <3> QED BY <2>4, <3>1, <3>2
    <2>7. \A p \in Part : Given(p) => Given(p)'
      <3>1. \A j \in MsgId : j = sender /\ Open(j)' => Open(j) /\ amt'[j].given >= amt[j].given
        BY <2>1, <2>2, <2>4, <2>6
      <3> QED BY <1>1, <3>1, GivenKept
    <2>8. \A p \in Part : Given(p) => Before(p, p0)
      <3>1. ASSUME NEW p \in Part, Given(p) PROVE Before(p, p0)
        <4>1. p[1] < i \/ (p[1] = i /\ p[2] <= amt[i].given) BY <2>1, <2>2, <3>1 DEF Given, Open
        <4>2. p[2] <= amt[i].given => p[2] < amt[i].given + 1 BY <2>4, PartFacts
        <4>3. p0[1] = i /\ p0[2] = amt[i].given + 1 BY <2>p
        <4> QED BY <4>1, <4>2, <4>3 DEF Before
      <3> QED BY <3>1
    <2>9. Given(p0)'
      <3>1. p0[1] = sender' /\ p0[2] = amt'[sender'].given BY <1>1, <2>p, <2>2, <2>6
      <3>2. p0[2] \in Nat BY PartFacts
      <3> QED BY <3>1, <3>2 DEF Given
    <2>10. /\ SentInOrder'
           /\ \A p \in Part : (InSent(p)' <=> InSent(p)) /\ (InData(p)' <=> InData(p))
           /\ main' = "forward" => Increasing(data)'
      BY <1>0, FlowAside DEF FlowInv
    <2>11. \A p, q \in Part : InSent(p)' /\ (InData(q)' \/ InTemp(q)' \/ InFlight(q)') => Before(p, q)
      BY <1>0, <1>3, <2>5, <2>8, <2>10 DEF FlowInv
    <2>12. \A p, q \in Part : InData(p)' /\ (InTemp(q)' \/ InFlight(q)') => Before(p, q)
      BY <1>0, <1>3, <2>5, <2>8, <2>10 DEF FlowInv
    <2>13. \A p, q \in Part : InTemp(p)' /\ InFlight(q)' => Before(p, q)
      BY <1>0, <1>3, <2>5, <2>8 DEF FlowInv
    <2>14. \A p \in Part : InSent(p)' \/ InData(p)' \/ InTemp(p)' \/ InFlight(p)' => Given(p)'
      BY <1>0, <1>3, <2>5, <2>7, <2>9, <2>10 DEF FlowInv
    <2> QED BY <1>3, <2>10, <2>11, <2>12, <2>13, <2>14 DEF FlowInv, Before
  <1> QED BY <1>4, <1>5 DEF Device, Lme!Amt

LEMMA OrderInit == Init => OrderInv
  <1> SUFFICES ASSUME Init PROVE OrderInv
    OBVIOUS
  <1>1. /\ sent = <<>> /\ temp = <<>> /\ inbox = <<>> /\ main = "prepare"
        /\ \A i \in MsgId : /\ timer[i] = "none" /\ reader_[i] = "none" /\ amt[i].state = "none"
    BY DEF Init, MainInit, LinkInit, Lme!LmeInit, Lme!NoChannel
  <1>2. sent \in Seq(Outgoing) /\ FreshInv /\ SnapInv
    BY <1>1 DEF FreshInv, SnapInv
  <1>3. OpenInv BY <1>1 DEF OpenInv, Open, Confirming, Held
  <1>4. FlowInv
    BY <1>1 DEF FlowInv, SentInOrder, Increasing, InSent, InData, InTemp, InFlight, InInbox, InHand, Busy,
       Lme!Processing
  <1> QED BY <1>2, <1>3, <1>4 DEF OrderInv

\* What has been undone stays undone.
LEMMA RacedStays == ASSUME TypeOK, [Next]_vars, raced PROVE raced'
  <1>1. ASSUME NEW i \in MsgId, LmeReader(i) PROVE raced'
    BY <1>1 DEF LmeReader, Lme!ReaderGoroutine, Lme!ReaderReceives, Lme!ReaderEnds, Lme!ProcessConfirmation,
       Lme!LoadTempdata, Lme!ProcessData
  <1>2. ASSUME NEW i \in MsgId, LmeTimer(i) \/ Device(i) \/ ReceiveFromLme(i) PROVE raced'
    BY <1>2 DEF LmeTimer, Device, ReceiveFromLme, Lme!HandOver, Lme!TimerGoroutine, Lme!TimerStarts, Lme!TimerFires,
       Lme!TimerClears, Lme!TimerCloses, Lme!Amt, Lme!AmtConfirms, Lme!AmtAnswers
  <1>3. CASE UseLme \/ ConnectLme \/ SendLme \/ CleanUp \/ UNCHANGED lmeVars
    BY <1>3 DEF UseLme, ConnectLme, SendLme, CleanUp, lmeVars, Lme!Initialize, Lme!OpenChannel, Lme!RetryOpen,
       Lme!FailOpen, Lme!SendPayload, Lme!SendPayloadFails, Lme!lmeVars, Lme!CloseLme
  <1> QED BY <1>1, <1>2, <1>3, LmeCases

LEMMA OrderStep ==
    ASSUME Slow, Sound, IInv, QueueInv, OrderInv, TypeOK', [Next]_vars
    PROVE  OrderInv'
  <1>0. ChannelType' BY LmeTypeNext DEF TypeOK
  <1>1. sent' \in Seq(Outgoing)
    <2>1. sent \in Seq(Outgoing) BY DEF OrderInv
    <2> QED BY <2>1, SentMoves DEF IInv
  <1>r. ~raced' => ~raced BY RacedStays DEF IInv
  <1>2. FreshInv' /\ (~raced' => SnapInv') BY <1>r, FreshStep, SnapStep DEF OrderInv
  <1>3. OpenInv'
    BY OpenCaller, OpenReader, OpenTimer, OpenDevice, PlaceMoves DEF OrderInv, LmeStep
  <1>4. ~raced' => FlowInv'
    BY <1>0, <1>r, FlowCaller, FlowHandOver, FlowReader, FlowTimer, FlowDevice, PlaceMoves DEF LmeStep
  <1> QED BY <1>1, <1>2, <1>3, <1>4 DEF OrderInv

LEMMA QueueInit == Init /\ Sound => QueueInv
  BY LineInit DEF LineInv, QueueInv, Sound

LEMMA QueueStep == ASSUME Slow, Sound, IInv, QueueInv, [Next]_vars PROVE QueueInv'
  BY NumberedStep, HeardStep, AmtStep, OneMessageStep DEF IInv, QueueInv, Sound

-----------------------------------------------------------------------------
(* When nothing that is written to the device fails.                         *)

Ends == {"done", "exited", "failed", "lme"}
NoParts == (\A k \in DOMAIN inbox : inbox[k].part = 0) /\ \A i \in MsgId : ~InHand(i)
TimerSet ==
    /\ \A i \in MsgId : amt[i].state \in {"asked", "open"} => timer[i] # "none"
    /\ \A i \in MsgId : timer[i] \notin {"none", "spawned"} => tref # 0
    /\ Slow /\ tref = 0 => NoParts
\* Every message is of a channel that has a timer goroutine.
TimedInv ==
    /\ \A k \in DOMAIN inbox : timer[inbox[k].channel] # "none"
    /\ \A i \in MsgId : Lme!Processing(i) => timer[held[i].channel] # "none"
\* The one panic there is: the first timer was not made yet.
Overtaken == panic = "nil_timer" /\ ~Slow /\ tref = 0 /\ timer[cur] = "spawned"
Harmless ==
    /\ panic = "none" \/ Overtaken
    /\ TimerSet /\ TimedInv
    /\ main \notin Early \cup Ends => fd = "open"
    /\ \A i \in MsgId : Lme!Pending(i) => main \in Serving
    /\ chClosed => main \in {"cleanup", "done", "exited"}
HarmlessInv == faults \subseteq {"read", "late"} => Harmless

\* Which steps panic, close e.data, or open and close the driver.
LEMMA PanicMoves ==
    ASSUME [Next]_vars
    PROVE  /\ panic' = panic \/ \E i \in MsgId : GoroutinePanics(i)
           /\ chClosed' = chClosed \/ main' = "cleanup"
           /\ main \in {"cleanup", "done", "exited"} => main' \in {"cleanup", "done", "exited"}
           /\ UseLme \/ main \notin Early \cup Ends \/ main' \in Early \cup Ends
  <1>1. CASE OwnStep
    BY <1>1 DEF OwnStep, MainStep, SessionStep, Exit, UserInterrupts, UseLme, PrepareInitialMessage, DialRps,
       StartSession, TakeMessage, TakeClosed, TakeInterrupt, AnswerHeartbeat, ConnectLme, WaitForChannel, SendLme,
       ReceiveFromLme, Forward, WaitAgain, CloseChannels, CleanUp, Goto, Early, Ends
  <1> QED BY <1>1, MainCases DEF vars, linkVars, mainVars, LinkOnly

\* Connect and Send succeed.
LEMMA NothingFails ==
    ASSUME faults \subseteq {"read", "late"}, Harmless
    PROVE  /\ ConnectLme => Goto("connect", "open") /\ Lme!OpenChannel(cur)
           /\ SendLme => Goto("send", "wait") /\ Lme!SendPayload(cur)
           /\ UseLme => fd' = "open"
  BY DEF Harmless, Early, Ends, ConnectLme, SendLme, UseLme, Goto, Lme!RetryOpen, Lme!FailOpen, Lme!SendPayloadFails,
     Lme!Initialize

LEMMA TimerSetStep ==
    ASSUME IInv, faults \subseteq {"read", "late"}, Harmless, [Next]_vars
    PROVE  TimerSet'
  <1>0. ChannelType /\ MessagesInv /\ TimerSet /\ (main \in Handling => cur \in MsgId)
    BY LmeType DEF IInv, TypeOK, HandlingInv, Harmless
  <1> USE DEF TimerSet, NoParts, InHand, Busy, Lme!Processing
  <1>1. CASE ConnectLme
    <2>1. /\ cur \in MsgId /\ timer' = [timer EXCEPT ![cur] = "spawned"] /\ reader_' = [reader_ EXCEPT ![cur] = "receiving"]
          /\ amt' = [amt EXCEPT ![cur] = [Lme!NoChannel EXCEPT !.state = "asked"]] /\ UNCHANGED <<tref, inbox, held>>
      BY <1>0, <1>1, NothingFails DEF Lme!OpenChannel, Lme!Listen, Goto, Handling
    <2>2. timer'[cur] = "spawned" /\ \A i \in MsgId : i # cur => timer'[i] = timer[i] /\ amt'[i] = amt[i]
      BY <1>0, <2>1 DEF ChannelType
    <2>3. \A i \in MsgId : Busy(i)' => Busy(i) BY <1>0, <2>1 DEF ChannelType
    <2>4. Slow /\ tref' = 0 => NoParts' BY <1>0, <2>1, <2>3
    <2> QED BY <1>0, <2>1, <2>2, <2>4
  <1>2. CASE SendLme
    <2>1. UNCHANGED <<timer, tref, inbox, held, reader_>> BY <1>2, NothingFails DEF Lme!SendPayload
    <2>2. amt' = amt \/ amt' = [amt EXCEPT ![sender] = [amt[sender] EXCEPT !.req = cur]]
      BY <1>2, NothingFails DEF Lme!SendPayload
    <2>3. \A j \in MsgId : [amt[j] EXCEPT !.req = cur].state = amt[j].state BY <1>0 DEF ChannelType, Channels
    <2>4. \A j \in MsgId : amt'[j].state = amt[j].state BY <1>0, <2>2, <2>3 DEF ChannelType
    <2> QED BY <1>0, <2>1, <2>4
  <1>3. ASSUME NEW i \in MsgId, LmeReader(i) PROVE TimerSet'
    <2>1. UNCHANGED <<amt, timer, tref>>
      BY <1>3 DEF LmeReader, Lme!ReaderGoroutine, Lme!ReaderReceives, Lme!ReaderEnds, Lme!ProcessConfirmation,
         Lme!LoadTempdata, Lme!ProcessData
    <2>2. CASE Lme!ReaderReceives(i)
      <3>1. /\ inbox # <<>> /\ inbox \in Seq(Messages) /\ inbox' = Tail(inbox) /\ held' = [held EXCEPT ![i] = inbox[1]]
            /\ reader_' = [reader_ EXCEPT ![i] = "processing"]
        BY <1>0, <2>2 DEF Lme!ReaderReceives, MessagesInv
      <3>2. 1 \in DOMAIN inbox /\ \A k \in DOMAIN inbox' : k + 1 \in DOMAIN inbox /\ inbox'[k] = inbox[k + 1]
        BY <3>1
      <3>3. held'[i] = inbox[1] /\ \A j \in MsgId : j # i => held'[j] = held[j] /\ (Busy(j)' <=> Busy(j))
        BY <1>0, <3>1 DEF MessagesInv, ChannelType
      <3>4. NoParts /\ inbox[1].part = 0 => NoParts' BY <3>2, <3>3
      <3> QED BY <1>0, <2>1, <3>2, <3>4
    <2>3. CASE UNCHANGED <<inbox, held>> /\ \A j \in MsgId : Busy(j)' => Busy(j)
      BY <1>0, <2>1, <2>3
    <2>4. Lme!ReaderReceives(i) \/ (UNCHANGED <<inbox, held>> /\ \A j \in MsgId : Busy(j)' => Busy(j))
      BY <1>0, <1>3 DEF LmeReader, Lme!ReaderGoroutine, Lme!ReaderEnds, Lme!ProcessConfirmation, Lme!LoadTempdata,
         Lme!ProcessData, ChannelType
    <2> QED BY <2>2, <2>3, <2>4
  <1>4. ASSUME NEW i \in MsgId, LmeTimer(i) PROVE TimerSet'
    <2>1. UNCHANGED <<inbox, held, reader_>> /\ timer[i] # "none" /\ (tref' = tref \/ (tref' = i /\ i # 0))
      BY <1>4 DEF LmeTimer, Lme!TimerGoroutine, Lme!TimerStarts, Lme!TimerFires, Lme!TimerClears, Lme!TimerCloses, MsgId
    <2>2. \E s \in Lme!TimerPcs \ {"none"} : timer' = [timer EXCEPT ![i] = s]
      BY <1>4 DEF LmeTimer, Lme!TimerGoroutine, Lme!TimerStarts, Lme!TimerFires, Lme!TimerClears, Lme!TimerCloses,
         Lme!TimerPcs
    <2>3. timer'[i] # "none" /\ \A j \in MsgId : j # i => timer'[j] = timer[j] BY <1>0, <2>2 DEF ChannelType
    <2>4. tref' = i \/ timer[i] # "spawned"
      BY <1>4 DEF LmeTimer, Lme!TimerGoroutine, Lme!TimerStarts, Lme!TimerFires, Lme!TimerClears, Lme!TimerCloses
    <2>5. amt' = amt \/ amt' = [amt EXCEPT ![sender] = [amt[sender] EXCEPT !.state = "closed"]]
      BY <1>4 DEF LmeTimer, Lme!TimerGoroutine, Lme!TimerStarts, Lme!TimerFires, Lme!TimerClears, Lme!TimerCloses
    <2>6. \A j \in MsgId : [amt[j] EXCEPT !.state = "closed"].state = "closed" BY <1>0 DEF ChannelType, Channels
    <2>7. \A j \in MsgId : amt'[j] = amt[j] \/ amt'[j].state = "closed" BY <1>0, <2>5, <2>6 DEF ChannelType
    <2>8. tref' = 0 => tref = 0 BY <2>1
    <2>9. \A j \in MsgId : amt'[j].state \in {"asked", "open"} => timer'[j] # "none"
      BY <1>0, <2>3, <2>7
    <2>10. \A j \in MsgId : timer'[j] \notin {"none", "spawned"} => tref' # 0
      <3>1. ASSUME NEW j \in MsgId, timer'[j] \notin {"none", "spawned"}, tref' = tref PROVE tref # 0
        <4>1. timer[j] \notin {"none", "spawned"} \/ tref' = i BY <2>1, <2>3, <2>4, <3>1
        <4>2. CASE tref' = i
          <5>1. tref = i BY <3>1, <4>2
          <5>2. i # 0 BY DEF MsgId
          <5> QED BY <5>1, <5>2
        <4>3. CASE timer[j] \notin {"none", "spawned"} BY <1>0, <4>3
        <4> QED BY <4>1, <4>2, <4>3
      <3> QED BY <2>1, <3>1
    <2>11. Slow /\ tref' = 0 => NoParts'
      <3>1. NoParts => NoParts' BY <2>1
      <3> QED BY <1>0, <2>8, <3>1
    <2> QED BY <2>9, <2>10, <2>11
  <1>5. ASSUME NEW i \in MsgId, Device(i) PROVE TimerSet'
    <2>1. UNCHANGED <<timer, tref, held, reader_>> /\ amt[i].state \in {"asked", "open"}
      BY <1>5 DEF Device, Lme!Amt, Lme!AmtConfirms, Lme!AmtAnswers
    <2>2. Slow => Lme!Settled BY <1>5 DEF Device, Lme!Amt, Lme!AmtConfirms, Lme!AmtAnswers
    <2>3. Slow => timer[i] # "spawned" BY <2>2 DEF Lme!Settled
    <2>4. Slow => tref # 0 BY <1>0, <2>1, <2>3
    <2>5. \A j \in MsgId : j # i => amt'[j] = amt[j]
      BY <1>0, <1>5 DEF Device, Lme!Amt, Lme!AmtConfirms, Lme!AmtAnswers, ChannelType
    <2>6. \A j \in MsgId : amt'[j].state \in {"asked", "open"} => timer'[j] # "none"
      BY <1>0, <2>1, <2>5
    <2>7. \A j \in MsgId : timer'[j] \notin {"none", "spawned"} => tref' # 0 BY <1>0, <2>1
    <2>8. ~(Slow /\ tref' = 0) BY <2>1, <2>4
    <2> QED BY <2>6, <2>7, <2>8
  <1>6. ASSUME NEW i \in MsgId, ReceiveFromLme(i) PROVE TimerSet'
    <2>1. /\ timer[i] = "sending" /\ timer' = [timer EXCEPT ![i] = "clearing"]
          /\ UNCHANGED <<amt, tref, inbox, held, reader_>>
      BY <1>6 DEF ReceiveFromLme, Lme!HandOver
    <2>2. timer'[i] = "clearing" /\ \A j \in MsgId : j # i => timer'[j] = timer[j] BY <1>0, <2>1 DEF ChannelType
    <2> QED BY <1>0, <2>1, <2>2
  <1>7. CASE CleanUp
    <2>1. /\ UNCHANGED <<amt, tref, inbox, held, reader_>>
          /\ timer' = timer \/ (timer' = [timer EXCEPT ![tref] = "stopped"] /\ tref # 0)
      BY <1>7 DEF CleanUp, Lme!CloseLme
    <2>2. tref # 0 => \A j \in MsgId : timer'[j] # timer[j] => timer'[j] = "stopped" BY <1>0, <2>1 DEF ChannelType
    <2> QED BY <1>0, <2>1, <2>2
  <1>8. CASE UseLme \/ UNCHANGED lmeVars
    <2>1. UNCHANGED <<amt, timer, tref, inbox, held, reader_>> BY <1>8 DEF UseLme, Lme!Initialize, lmeVars
    <2> QED BY <1>0, <2>1
  <1> QED BY <1>1, <1>2, <1>3, <1>4, <1>5, <1>6, <1>7, <1>8, LmeCases

\* A timer's goroutine that was started was started.
LEMMA TimersStay ==
    ASSUME ChannelType, HandlingInv, [Next]_vars
    PROVE  \A j \in MsgId : timer[j] # "none" => timer'[j] # "none"
  <1>1. CASE ConnectLme
    <2>1. timer' = timer \/ timer' = [timer EXCEPT ![cur] = "spawned"]
      BY <1>1 DEF ConnectLme, Lme!OpenChannel, Lme!RetryOpen, Lme!FailOpen, Lme!Listen
    <2> QED BY <2>1 DEF ChannelType
  <1>2. CASE CleanUp
    BY <1>2 DEF CleanUp, Lme!CloseLme, ChannelType
  <1>3. ASSUME NEW i \in MsgId, ReceiveFromLme(i) \/ LmeTimer(i)
        PROVE  \A j \in MsgId : timer[j] # "none" => timer'[j] # "none"
    BY <1>3 DEF ReceiveFromLme, LmeTimer, Lme!HandOver, Lme!TimerGoroutine, Lme!TimerStarts, Lme!TimerFires,
       Lme!TimerClears, Lme!TimerCloses, ChannelType
  <1> QED BY <1>1, <1>2, <1>3, TimerMoves

LEMMA TimedStep ==
    ASSUME IInv, Harmless, [Next]_vars
    PROVE  TimedInv'
  <1>0. ChannelType /\ MessagesInv /\ TimedInv /\ TimerSet
    BY LmeType DEF IInv, TypeOK, Harmless
  <1>1. \A j \in MsgId : timer[j] # "none" => timer'[j] # "none"
    BY <1>0, TimersStay DEF IInv
  <1>2. /\ \A k \in DOMAIN inbox : inbox[k].channel \in MsgId /\ timer'[inbox[k].channel] # "none"
        /\ \A i \in MsgId : Lme!Processing(i) => held[i].channel \in MsgId /\ timer'[held[i].channel] # "none"
    <2>1. \A m \in Messages : m.channel \in MsgId BY DEF Messages, Confirmations, AnswerParts
    <2>2. \A k \in DOMAIN inbox : inbox[k].channel \in MsgId BY <1>0, <2>1 DEF MessagesInv
    <2>3. \A i \in MsgId : Lme!Processing(i) => held[i].channel \in MsgId BY <1>0, <2>1 DEF MessagesInv
    <2> QED BY <1>0, <1>1, <2>2, <2>3 DEF TimedInv
  <1>3. ASSUME held' = held, inbox' = inbox \/ inbox' = <<>>,
               \A j \in MsgId : Lme!Processing(j)' => Lme!Processing(j)
        PROVE  TimedInv'
    <2>1. \A k \in DOMAIN inbox' : timer'[inbox'[k].channel] # "none" BY <1>2, <1>3
    <2> QED BY <1>2, <1>3, <2>1 DEF TimedInv
  <1>4. CASE ConnectLme
    <2>1. held' = held /\ (inbox' = inbox \/ inbox' = <<>>)
      BY <1>4 DEF ConnectLme, Lme!OpenChannel, Lme!RetryOpen, Lme!FailOpen
    <2>2. reader_' \in {reader_, [reader_ EXCEPT ![cur] = "receiving"]} \/ Lme!RetryOpen
      BY <1>4 DEF ConnectLme, Lme!OpenChannel, Lme!FailOpen, Lme!Listen
    <2>3. \A j \in MsgId : Lme!Processing(j)' => Lme!Processing(j)
      BY <1>0, <2>2 DEF Lme!RetryOpen, Lme!Processing, ChannelType
    <2> QED BY <1>3, <2>1, <2>3
  <1>5. ASSUME NEW i \in MsgId, LmeReader(i) PROVE TimedInv'
    <2>1. CASE Lme!ReaderReceives(i)
      <3>1. /\ inbox # <<>> /\ inbox \in Seq(Messages) /\ inbox' = Tail(inbox) /\ held' = [held EXCEPT ![i] = inbox[1]]
            /\ reader_' = [reader_ EXCEPT ![i] = "processing"]
        BY <1>0, <2>1 DEF Lme!ReaderReceives, MessagesInv
      <3>2. 1 \in DOMAIN inbox /\ \A k \in DOMAIN inbox' : k + 1 \in DOMAIN inbox /\ inbox'[k] = inbox[k + 1]
        BY <3>1
      <3>3. held'[i] = inbox[1] /\ \A j \in MsgId : j # i => held'[j] = held[j] /\ (Lme!Processing(j)' => Lme!Processing(j))
        BY <1>0, <3>1 DEF MessagesInv, ChannelType, Lme!Processing
      <3>4. \A k \in DOMAIN inbox' : timer'[inbox'[k].channel] # "none" BY <1>2, <3>2
      <3>5. \A j \in MsgId : Lme!Processing(j)' => timer'[held'[j].channel] # "none" BY <1>2, <3>2, <3>3
      <3> QED BY <3>4, <3>5 DEF TimedInv
    <2>2. CASE ~Lme!ReaderReceives(i)
      <3>1. UNCHANGED <<inbox, held>>
        BY <1>5, <2>2 DEF LmeReader, Lme!ReaderGoroutine, Lme!ReaderEnds, Lme!ProcessConfirmation, Lme!LoadTempdata,
           Lme!ProcessData
      <3>2. \A j \in MsgId : Lme!Processing(j)' => Lme!Processing(j)
        BY <1>0, <1>5, <2>2 DEF LmeReader, Lme!ReaderGoroutine, Lme!ReaderEnds, Lme!ProcessConfirmation,
           Lme!LoadTempdata, Lme!ProcessData, Lme!Processing, ChannelType
      <3> QED BY <1>3, <3>1, <3>2
    <2> QED BY <2>1, <2>2
  <1>6. ASSUME NEW i \in MsgId, Device(i) PROVE TimedInv'
    <2>1. timer[i] # "none" /\ UNCHANGED <<held, reader_>> /\ inbox \in Seq(Messages)
      BY <1>0, <1>6 DEF Device, Lme!Amt, Lme!AmtConfirms, Lme!AmtAnswers, TimerSet, MessagesInv
    <2>2. PICK m : inbox' = Append(inbox, m) /\ m.channel = i
      BY <1>6 DEF Device, Lme!Amt, Lme!AmtConfirms, Lme!AmtAnswers, Lme!Apf
    <2>3. \A k \in DOMAIN inbox' : inbox'[k] = m \/ (k \in DOMAIN inbox /\ inbox'[k] = inbox[k])
      BY <2>1, <2>2
    <2>4. \A k \in DOMAIN inbox' : timer'[inbox'[k].channel] # "none" BY <1>1, <1>2, <2>1, <2>2, <2>3
    <2>5. \A j \in MsgId : Lme!Processing(j)' => timer'[held'[j].channel] # "none" BY <1>2, <2>1 DEF Lme!Processing
    <2> QED BY <2>4, <2>5 DEF TimedInv
  <1>7. CASE UNCHANGED <<inbox, reader_, held>>
    BY <1>3, <1>7 DEF Lme!Processing
  <1> QED BY <1>4, <1>5, <1>6, <1>7, MessageMoves

LEMMA PendingStep ==
    ASSUME IInv, faults \subseteq {"read", "late"}, Harmless, [Next]_vars
    PROVE  \A i \in MsgId : Lme!Pending(i)' => main' \in Serving
  <1>0. /\ ChannelType /\ OneHandOver /\ (main \in Handling => cur \in MsgId)
        /\ \A i \in MsgId : Lme!Pending(i) => main \in Serving
    BY LmeType DEF IInv, TypeOK, HandlingInv, Harmless
  <1> USE DEF Lme!Pending, Serving
  <1>1. CASE ConnectLme
    BY <1>0, <1>1, NothingFails DEF Goto
  <1>2. ASSUME NEW i \in MsgId, ReceiveFromLme(i) PROVE \A j \in MsgId : ~Lme!Pending(j)'
    <2>1. timer[i] = "sending" /\ timer' = [timer EXCEPT ![i] = "clearing"] BY <1>2 DEF ReceiveFromLme, Lme!HandOver
    <2>2. \A j \in MsgId : Lme!Pending(j) => j = i BY <1>0, <2>1 DEF OneHandOver
    <2> QED BY <1>0, <2>1, <2>2 DEF ChannelType
  <1>3. ASSUME NEW i \in MsgId, LmeTimer(i) PROVE \A j \in MsgId : Lme!Pending(j)' => main' \in Serving
    <2>1. main' = main BY <1>3 DEF LmeTimer, mainVars
    <2>2. \A j \in MsgId : Lme!Pending(j)' => Lme!Pending(j)
      BY <1>0, <1>3 DEF LmeTimer, Lme!TimerGoroutine, Lme!TimerStarts, Lme!TimerFires, Lme!TimerClears,
         Lme!TimerCloses, ChannelType
    <2> QED BY <1>0, <2>1, <2>2
  <1>4. CASE CleanUp
    <2>1. \A j \in MsgId : ~Lme!Pending(j) BY <1>0, <1>4 DEF CleanUp, Goto
    <2> QED BY <1>0, <1>4, <2>1 DEF CleanUp, Lme!CloseLme, ChannelType
  <1>5. CASE timer' = timer
    <2>1. CASE TakeMessage BY <1>0, <1>5, <2>1 DEF TakeMessage, Goto
    <2>2. CASE WaitForChannel BY <1>5, <2>2 DEF WaitForChannel, Goto
    <2>3. CASE SendLme BY <1>5, <2>3, NothingFails DEF Goto
    <2>4. CASE Calm \/ UNCHANGED mainVars BY <1>0, <1>5, <2>4 DEF Calm, mainVars
    <2> QED BY <1>1, <1>2, <1>4, <2>1, <2>2, <2>3, <2>4, PlaceMoves
  <1> QED BY <1>1, <1>2, <1>3, <1>4, <1>5, TimerMoves

LEMMA HarmlessStep == ASSUME IInv, HarmlessInv, [Next]_vars PROVE HarmlessInv'
  <1> SUFFICES ASSUME faults' \subseteq {"read", "late"} PROVE Harmless'
    BY DEF HarmlessInv
  <1>1. faults \subseteq {"read", "late"} /\ Harmless BY FaultsStay DEF HarmlessInv
  <1>2. panic' = "none" \/ Overtaken'
    <2>1. ASSUME NEW i \in MsgId, GoroutinePanics(i) PROVE Overtaken'
      <3>1. ~(timer[i] = "sending" /\ chClosed) BY <1>1 DEF Harmless, Lme!Pending, Serving
      <3>2. Lme!NilTimer(i) /\ panic' = "nil_timer" /\ UNCHANGED <<cur, tref, timer>>
        BY <2>1, <3>1 DEF GoroutinePanics, Crash, lmeVars
      <3>3. tref = 0 /\ Lme!Processing(i) BY <3>2 DEF Lme!NilTimer, Lme!Processing
      <3>4. ~Slow
        BY <1>1, <3>2 DEF Harmless, TimerSet, NoParts, InHand, Busy, Lme!Processing, Lme!NilTimer
      <3>5. held[i].channel \in MsgId
        BY <3>3 DEF IInv, MessagesInv, Messages, Confirmations, AnswerParts
      <3>6. timer[held[i].channel] = "spawned" BY <1>1, <3>3, <3>5 DEF Harmless, TimerSet, TimedInv
      <3>7. held[i].channel = cur BY <3>5, <3>6 DEF IInv, OneHandOver, Lme!Pending
      <3> QED BY <3>2, <3>3, <3>4, <3>6, <3>7 DEF Overtaken
    <2>2. CASE panic = "none"
      BY <2>1, <2>2, PanicMoves
    <2>3. CASE panic # "none"
      <3>1. UNCHANGED vars BY <2>3 DEF Next, Alive
      <3> QED BY <1>1, <3>1 DEF Harmless, Overtaken, vars, mainVars, lmeVars
    <2> QED BY <2>2, <2>3
  <1>3. main' \notin Early \cup Ends => fd' = "open"
    <2>1. CASE ConnectLme \/ SendLme
      BY <1>1, <2>1, NothingFails DEF Lme!OpenChannel, Lme!SendPayload
    <2>2. CASE CleanUp BY <2>2 DEF CleanUp, Goto, Ends
    <2>3. CASE fd' = fd /\ ~UseLme BY <1>1, <2>3, PanicMoves DEF Harmless
    <2>4. \A i \in MsgId : ReceiveFromLme(i) \/ LmeReader(i) \/ LmeTimer(i) \/ Device(i) => fd' = fd
      BY DEF ReceiveFromLme, LmeReader, LmeTimer, Device, Lme!HandOver, Lme!ReaderGoroutine, Lme!TimerGoroutine,
         Lme!Amt, Lme!ReaderReceives, Lme!ReaderEnds, Lme!ProcessConfirmation, Lme!LoadTempdata, Lme!ProcessData,
         Lme!TimerStarts, Lme!TimerFires, Lme!TimerClears, Lme!TimerCloses, Lme!AmtConfirms, Lme!AmtAnswers
    <2> QED BY <1>1, <2>1, <2>2, <2>3, <2>4, LmeCases, NothingFails DEF lmeVars
  <1>4. chClosed' => main' \in {"cleanup", "done", "exited"}
    BY <1>1, PanicMoves DEF Harmless
  <1> QED BY <1>1, <1>2, <1>3, <1>4, TimerSetStep, TimedStep, PendingStep DEF Harmless

-----------------------------------------------------------------------------
(* Theorems. *)

LEMMA InvInit == Init => IInv
  <1> SUFFICES ASSUME Init PROVE IInv
    OBVIOUS
  <1>1. TypeOK BY TypeInit
  <1>2. MessagesInv
    <2>1. inbox = <<>> /\ reader_ = [i \in MsgId |-> "none"] /\ held = [i \in MsgId |-> Lme!Apf(0, 0, 0)]
      BY DEF Init, Lme!LmeInit
    <2> QED BY <2>1 DEF MessagesInv, Lme!Processing
  <1>3. HandlingInv /\ ChannelInv /\ OwnChannel
    BY DEF Init, MainInit, LinkInit, HandlingInv, Handling, ChannelInv, OwnChannel
  <1>4. RetriesInv BY DEF Init, Lme!LmeInit, RetriesInv
  <1>5. OneHandOver BY DEF Init, MainInit, Lme!LmeInit, OneHandOver, Lme!Pending
  <1>6. ConfirmationInv
    BY DEF Init, Lme!LmeInit, Lme!NoChannel, ConfirmationInv, Asked, Sent, Held
  <1> QED BY <1>1, <1>2, <1>3, <1>4, <1>5, <1>6 DEF IInv

LEMMA InvStep == ASSUME IInv, [Next]_vars PROVE IInv'
  BY TypeStep, MessagesStep, HandlingStep, RetriesStep, HandOverStep, ConfirmationStep, ChannelStep DEF IInv

(* The inductive invariant holds in every reachable state: AMT owes one      *)
(* confirmation at most, and the handler that asked for it (engine.go:75)    *)
(* still waits.                                                              *)
THEOREM Invariant == Spec => []IInv
  BY InvInit, InvStep, PTL DEF Spec

(* Every reachable state is well typed; this is the run's invariant TypeOK.  *)
THEOREM TypeCorrect == Spec => []TypeOK
  <1>1. IInv => TypeOK BY DEF IInv
  <1> QED BY Invariant, <1>1, PTL

(* No timer goroutine of an earlier request (engine.go:153) still has a      *)
(* buffer to send when the handler of the next one runs.                     *)
THEOREM HandOverIsOne == Spec => []OneHandOver
  <1>1. IInv => OneHandOver BY DEF IInv
  <1> QED BY Invariant, <1>1, PTL

(* A payload is sent on the channel that was opened for it, however often    *)
(* Connect had to start over (executor.go:156).                              *)
THEOREM ChannelIsOwn == Spec => []OwnChannel
  <1>1. IInv => OwnChannel BY DEF IInv
  <1> QED BY Invariant, <1>1, PTL

(* The wait group's counter is never 0 when a confirmation is processed, and *)
(* without retries Wait (executor.go:157) waits for one that will come.      *)
THEOREM CounterSuffices == Spec => []ConfirmationsAwaited
  <1>1. IInv /\ AwaitInv => ConfirmationsAwaited
    BY DEF IInv, ConfirmationInv, ConfirmationsAwaited, Lme!NegativeCounter, Held, Owed, AwaitInv, CountInv
  <1>2. IInv /\ AwaitInv /\ [Next]_vars => AwaitInv'
    BY AwaitStep
  <1> QED BY Invariant, <1>1, <1>2, AwaitInit, PTL DEF Spec

(* When the goroutines are faster than the device and the timers, AMT        *)
(* answers within the two seconds of engine.go:150 and no read of the driver *)
(* fails (engine.go:168), every behaviour of the session is one Relay        *)
(* allows, whatever the opening of the device and the writes to it do.       *)
THEOREM ImplementsInTime == ASSUME Slow PROVE Spec => KeepsPromiseInTime
  <1>1. Init => Promise!Init
    BY DEF Init, MainInit, LinkInit, Promise!Init, Phase
  <1>2. IInv /\ LineInv /\ [Next]_vars => LineInv'
    BY LineStep
  <1>3. IInv /\ LineInv /\ [Next]_vars => [faults \cap {"read", "late"} = {} => Promise!Next]_Promise!vars
    BY RefinementStep
  <1> QED BY <1>1, <1>2, <1>3, LineInit, Invariant, PTL DEF Spec, KeepsPromiseInTime

(* When the goroutines are faster than the device and the timers, no read or *)
(* write of the driver fails and no append to Session.Tempdata               *)
(* (engine.go:174) undoes what another goroutine did to it, nothing AMT      *)
(* answers is sent twice, and nothing out of order, however late it is: what *)
(* Tempdata holds when a timer runs out (engine.go:153) is later than all    *)
(* that was forwarded.                                                       *)
THEOREM LateAnswersInOrder ==
    ASSUME Slow PROVE Spec => [](Sound => ForwardedInOrder)
  <1>1. OrderInv => ForwardedInOrder
    BY DEF OrderInv, FlowInv, SentInOrder, ForwardedInOrder
  <1>2. Init => (Sound => QueueInv /\ OrderInv)
    BY QueueInit, OrderInit
  <1>3. IInv /\ IInv' /\ (Sound => QueueInv /\ OrderInv) /\ [Next]_vars => (Sound => QueueInv /\ OrderInv)'
    <2> SUFFICES ASSUME IInv, IInv', Sound => QueueInv /\ OrderInv, [Next]_vars, Sound'
                 PROVE  QueueInv' /\ OrderInv'
      OBVIOUS
    <2>1. Sound BY FaultsStay DEF Sound
    <2>2. TypeOK' BY DEF IInv
    <2> QED BY <2>1, <2>2, QueueStep, OrderStep
  <1>4. (Sound => QueueInv /\ OrderInv) => (Sound => ForwardedInOrder)
    BY <1>1
  <1> QED BY <1>2, <1>3, <1>4, Invariant, PTL DEF Spec

(* As long as the device takes what is written to it no delay of AMT, no     *)
(* read that fails and no order of the goroutines makes a reader reset a     *)
(* timer that is not there, or a timer send on a channel that was closed;    *)
(* but that an answer may come before the goroutine that makes the first     *)
(* timer (engine.go:150) has run at all, which Slow rules out.               *)
THEOREM DelaysAreHarmless == Spec => []NoPanicFromDelays
  <1>1. Init => HarmlessInv
    BY DEF Init, MainInit, Lme!LmeInit, Lme!NoChannel, HarmlessInv, Harmless, TimerSet, TimedInv, NoParts, InHand,
       Busy, Lme!Processing, Early, Lme!Pending
  <1>2. IInv /\ HarmlessInv /\ [Next]_vars => HarmlessInv'
    BY HarmlessStep
  <1>3. HarmlessInv => NoPanicFromDelays
    BY DEF HarmlessInv, Harmless, Overtaken, NoPanicFromDelays
  <1> QED BY <1>1, <1>2, <1>3, Invariant, PTL DEF Spec
=============================================================================
