------------------------ MODULE LocalTransportProofs ------------------------
(***************************************************************************)
(* Theorems about LocalTransport, for every number of requests, every      *)
(* number of parts of an answer and every set of the device's errors.      *)
(***************************************************************************)
EXTENDS LocalTransport, TLAPS

USE RequestsAssumption, PartsAssumption

-----------------------------------------------------------------------------
(* The inductive invariant. *)

Part == Round \X (1..Parts)

\* What AMT sends: the confirmation of a channel, or a part of an answer.
Confirmations == [channel : Round, of : {0}, part : {0}]
AnswerParts == [channel : Round, of : Round, part : 1..Parts]
Messages == Confirmations \cup AnswerParts

MessagesInv ==
    /\ inbox \in Seq(Messages)
    /\ held \in [Round -> Messages \cup {Lme!Apf(0, 0, 0)}]
    /\ \A i \in Round : Lme!Processing(i) => held[i] \in Messages
    /\ \A i \in Round : reader[i] = "appending" => held[i].part > 0

\* The request RoundTrip handles; each fails at most once.
HandlingInv ==
    /\ InRoundTrip => cur \in Round
    /\ retries <= cur + 2 /\ (main = "connect" => retries <= cur + 1)

(* The confirmation AMT still owes, has sent, or a reader holds, is one, and *)
(* the handler of its message waits for it.                                  *)
Owed(c) == c = cur /\ wg > 0 /\ main = "open"
Asked(i) == amt[i].state = "asked"
Sent(k) == inbox[k].part = 0
Held(i) == reader[i] = "processing" /\ held[i].part = 0
ConfirmationInv ==
    /\ \A i \in Round : Asked(i) =>
        Owed(i) /\ (\A k \in DOMAIN inbox : ~Sent(k)) /\ \A j \in Round : ~Held(j)
    /\ \A k \in DOMAIN inbox : Sent(k) =>
        /\ Owed(inbox[k].channel)
        /\ \A l \in DOMAIN inbox : Sent(l) => l = k
        /\ \A j \in Round : ~Held(j)
    /\ \A i \in Round : Held(i) =>
        Owed(held[i].channel) /\ \A j \in Round : Held(j) => j = i

\* Once it was confirmed the channel is the one of the message at hand.
ChannelInv == main = "open" /\ wg = 0 => sender = cur

(* A request is answered by what AMT sends for it, and by all of it.  The    *)
(* device is slower than the goroutines, so that one message is on its way   *)
(* at a time, and none while a goroutine of an earlier request still has to  *)
(* clear the buffer or to close its channel.                                 *)
Busy(i) == Lme!Processing(i)
OneMessage ==
    /\ Len(inbox) <= 1
    /\ Len(inbox) = 1 => \A i \in Round : ~Busy(i)
    /\ \A i, j \in Round : Busy(i) /\ Busy(j) => i = j

\* AMT is heard: a reader of the handle its channels were opened on is there,
\* as long as no read fails.
HeardInv ==
    /\ "read" \notin faults => \A i \in Round : fd = "open" /\ amt[i].state \in {"asked", "open"} =>
        \E j \in Round : reader[j] \in {"receiving", "processing", "appending"}
    /\ main = "new" => \A i \in Round : amt[i].state = "none" /\ timer[i] = "none"

\* What AMT knows of a channel: nothing before it is confirmed, then one request.
AmtInv ==
    /\ \A i \in Round : amt[i].req \in {0, i} /\ (amt[i].req = 0 => amt[i].given = 0)
    /\ \A i \in Round : Asked(i) => amt[i].req = 0 /\ sender < cur
    /\ sender <= cur /\ (main = "connect" => sender < cur)

\* While the timer of the request runs its answer is collected.
Collecting == main \in {"open", "send", "wait"} /\ timer[cur] \in {"spawned", "armed"}
Finishing == \E i \in Round : timer[i] \in {"clearing", "closing"}
Clearing == \E i \in Round : timer[i] = "clearing"

\* A part of an answer is on its way.
InInbox == inbox # <<>> /\ inbox[1].part > 0
InHand(i) == Busy(i) /\ held[i].part > 0
Flying == InInbox \/ \E i \in Round : InHand(i)
Prefix(n) == [k \in 1..n |-> <<cur, k>>]
Collected == IF Flying THEN amt[cur].given - 1 ELSE amt[cur].given

TimersInv ==
    /\ \A i \in Round : Lme!Pending(i) => i = cur /\ main \in {"open", "send", "wait"}
    /\ \A i \in Round : timer[i] = "armed" => tref = i
    /\ main \in {"open", "send", "wait"} => fd = "open"
    /\ \A i \in Round : i > cur \/ (i = cur /\ main = "connect") => timer[i] = "none"
\* Nothing is owed when the request's timer has run out.
QuietInv ==
    /\ \A i \in Round : amt[i].state = "open" /\ amt[i].req # 0 /\ amt[i].given < Parts => i = cur /\ Collecting
    /\ \A i \in Round : Asked(i) \/ Busy(i) => Collecting
    /\ inbox # <<>> => Collecting
    /\ main = "send" \/ (main = "open" /\ wg = 0) => Collecting
CollectInv ==
    /\ InInbox => inbox[1].of = cur /\ inbox[1].part = amt[cur].given
    /\ \A i \in Round : InHand(i) => held[i].of = cur /\ held[i].part = amt[cur].given
    /\ Collecting => amt[cur].state \in {"asked", "open"} /\ (Finishing => Asked(cur))
    /\ Collecting /\ ~Clearing => temp = Prefix(Collected)
    /\ main \in {"new", "idle", "connect"} => temp = <<>> \/ Clearing
    /\ \A i \in Round : timer[i] = "sending" => snap[i] \in {<<>>, Answer(i)}

\* Nobody has touched Tempdata since a reader loaded it.
LoadedInv == \A i \in Round : reader[i] = "appending" => loaded[i] = temp

\* As long as no request has failed, AMT answers in time and reads succeed.
Smooth == failed = {} /\ InTime
FirstInv == Smooth => TimersInv /\ QuietInv /\ CollectInv /\ LoadedInv

IInv ==
    /\ TypeOK /\ MessagesInv /\ HandlingInv /\ ConfirmationInv /\ ChannelInv /\ OwnChannel
    /\ HeardInv /\ ("read" \notin faults => OneMessage) /\ AmtInv /\ FirstInv /\ OwnResponse

-----------------------------------------------------------------------------
(* Which parts of the state a step may change. *)

LEMMA LmeCases ==
    ASSUME [Next]_vars
    PROVE  \/ UNCHANGED lmeVars
           \/ NewLocalTransport \/ Connect \/ Send
           \/ \E i \in Round : Receive(i) \/ LmeReader(i) \/ LmeTimer(i) \/ Device(i)
  BY DEF Next, RoundTrip, StartRequest, WaitForChannel, Exit, vars

\* A step of a goroutine of Listen or of AMT.
LmeStep == \E i \in Round : LmeReader(i) \/ LmeTimer(i) \/ Device(i)

\* Which steps start, change or end the handling of a request.
LEMMA MainMoves ==
    ASSUME [Next]_vars
    PROVE  \/ (StartRequest /\ UNCHANGED lmeVars) \/ Connect \/ WaitForChannel \/ Send
           \/ \E i \in Round : Receive(i)
           \/ /\ UNCHANGED <<cur, responses, failed>>
              /\ UNCHANGED lmeVars \/ LmeStep \/ NewLocalTransport
              /\ main' = main \/ (main \in {"new", "idle"} /\ main' \in {"idle", "exited"})
  BY DEF Next, RoundTrip, NewLocalTransport, StartRequest, Exit, Goto, vars, callerVars, LmeStep, LmeReader, LmeTimer,
     Device

-----------------------------------------------------------------------------
(* Type correctness. *)

\* What a step of the channel may make of its variables.
Channels == [state : {"none", "asked", "open", "closed"}, req : Round \cup {0}, given : 0..Parts]
ReaderPcs == {"none", "receiving", "processing", "appending", "done"}

\* LmeTypeOK, with the sets named.
ChannelType ==
    /\ faults \in FaultSets /\ fd \in {"open", "closed"} /\ wg \in Nat
    /\ retries \in Nat /\ \E i \in Round \cup {0} : retries <= i + 2
    /\ sender \in Round \cup {0} /\ tref \in Round \cup {0}
    /\ temp \in Seq(Part) /\ loaded \in [Round -> Seq(Part)] /\ raced \in BOOLEAN
    /\ inbox \in Seq([channel : Round, of : Round \cup {0}, part : 0..Parts])
    /\ reader \in [Round -> ReaderPcs] /\ timer \in [Round -> Lme!TimerPcs]
    /\ snap \in [Round -> Seq(Part)] /\ amt \in [Round -> Channels]

LEMMA LmeType == Lme!LmeTypeOK <=> ChannelType
  BY Zenon DEF ChannelType, Lme!LmeTypeOK, Part, ReaderPcs, Channels

LEMMA LmeTypeNext == Lme!LmeTypeOK' <=> ChannelType'
  BY Zenon DEF ChannelType, Lme!LmeTypeOK, Part, ReaderPcs, Channels, Lme!TimerPcs

(* The types of the channel's variables are kept, action by action.          *)
LEMMA ChannelTypeStep ==
    ASSUME TypeOK, MessagesInv, HandlingInv, [Next]_vars
    PROVE  ChannelType'
  <1>0. ChannelType /\ (InRoundTrip => cur \in Round)
    BY LmeType DEF TypeOK, HandlingInv
  <1> USE DEF ChannelType
  <1>a. /\ \A i \in Round, s \in {"receiving", "processing", "appending", "done"} :
               [reader EXCEPT ![i] = s] \in [Round -> ReaderPcs]
        /\ \A i \in Round, s \in Lme!TimerPcs : [timer EXCEPT ![i] = s] \in [Round -> Lme!TimerPcs]
    BY <1>0 DEF ReaderPcs
  <1>1. CASE UNCHANGED lmeVars BY <1>0, <1>1 DEF lmeVars
  <1>2. CASE NewLocalTransport
    BY <1>0, <1>2 DEF NewLocalTransport, Lme!Initialize
  <1>3. CASE Connect
    <2>1. cur \in Round BY <1>0, <1>3 DEF Connect, Goto, InRoundTrip
    <2>2. CASE Lme!OpenChannel(cur)
      <3>0. [Lme!NoChannel EXCEPT !.state = "asked"] \in Channels BY DEF Lme!NoChannel, Channels
      <3>1. amt' \in [Round -> Channels]
        BY <1>0, <2>1, <2>2, <3>0 DEF Lme!OpenChannel
      <3>2. reader' \in [Round -> ReaderPcs] /\ timer' \in [Round -> Lme!TimerPcs]
        BY <1>a, <2>1, <2>2 DEF Lme!OpenChannel, Lme!Listen, Lme!TimerPcs
      <3>3. retries' = 0 /\ wg' \in Nat BY <1>0, <2>2 DEF Lme!OpenChannel
      <3>4. \E i \in Round \cup {0} : retries' <= i + 2 BY <3>3
      <3>5. raced' \in BOOLEAN /\ UNCHANGED <<faults, fd, sender, temp, loaded, tref, inbox, snap>>
        BY <1>0, <2>2 DEF Lme!OpenChannel
      <3> QED BY <1>0, <3>1, <3>2, <3>3, <3>4, <3>5
    <2>3. CASE Lme!RetryOpen
      <3>1. amt' \in [Round -> Channels]
        BY <2>3 DEF Lme!RetryOpen, Lme!NoChannel, Channels
      <3>2. reader' \in [Round -> ReaderPcs]
        BY <1>0, <2>3 DEF Lme!RetryOpen, ReaderPcs
      <3>3. retries' \in Nat /\ retries' <= 2 /\ wg' \in Nat BY <1>0, <2>3 DEF Lme!RetryOpen
      <3>4. inbox' = <<>> BY <2>3 DEF Lme!RetryOpen
      <3>5. \E i \in Round \cup {0} : retries' <= i + 2 BY <3>3
      <3> QED BY <1>0, <2>3, <3>1, <3>2, <3>3, <3>4, <3>5 DEF Lme!RetryOpen
    <2>4. CASE Lme!FailOpen(cur)
      <3>1. fd' \in {"open", "closed"} BY <1>0, <2>4 DEF Lme!FailOpen
      <3>2. reader' \in [Round -> ReaderPcs] /\ timer' \in [Round -> Lme!TimerPcs]
        BY <1>a, <2>1, <2>4 DEF Lme!FailOpen, Lme!Listen, Lme!TimerPcs
      <3>3. retries <= cur + 1 BY <1>3 DEF HandlingInv, Connect, Goto
      <3>4. retries' \in Nat /\ retries' <= cur + 2 /\ wg' \in Nat
        BY <1>0, <2>1, <2>4, <3>3 DEF Lme!FailOpen, Round
      <3>5. \E i \in Round \cup {0} : retries' <= i + 2 BY <2>1, <3>4
      <3> QED BY <1>0, <2>4, <3>1, <3>2, <3>4, <3>5 DEF Lme!FailOpen
    <2> QED BY <1>3, <2>2, <2>3, <2>4 DEF Connect
  <1>4. CASE Send
    <2>1. CASE Lme!SendPayload(cur)
      <3>1. cur \in Round BY <1>0, <1>4 DEF Send, Goto, InRoundTrip
      <3>2. sender # 0 => [amt[sender] EXCEPT !.req = cur] \in Channels
        BY <1>0, <3>1 DEF Channels
      <3>3. amt' \in [Round -> Channels] BY <1>0, <2>1, <3>2 DEF Lme!SendPayload
      <3> QED BY <1>0, <2>1, <3>3 DEF Lme!SendPayload
    <2>2. CASE Lme!SendPayloadFails
      BY <1>0, <2>2 DEF Lme!SendPayloadFails, Lme!lmeVars
    <2> QED BY <1>4, <2>1, <2>2 DEF Send
  <1>6. ASSUME NEW i \in Round, Receive(i) PROVE ChannelType'
    BY <1>0, <1>a, <1>6 DEF Receive, Lme!HandOver, Lme!TimerPcs
  <1>7. ASSUME NEW i \in Round, LmeReader(i) PROVE ChannelType'
    <2>1. CASE Lme!ReaderReceives(i)
      BY <1>0, <1>a, <2>1 DEF Lme!ReaderReceives
    <2>2. CASE Lme!ReaderEnds(i)
      BY <1>0, <1>a, <2>2 DEF Lme!ReaderEnds
    <2>3. CASE Lme!ProcessConfirmation(i)
      <3>1. held[i].channel \in Round
        BY <2>3 DEF MessagesInv, Messages, Confirmations, AnswerParts, Lme!Processing, Lme!ProcessConfirmation
      <3>2. wg' \in Nat BY <1>0, <2>3 DEF Lme!ProcessConfirmation
      <3> QED BY <1>0, <1>a, <2>3, <3>1, <3>2 DEF Lme!ProcessConfirmation
    <2>4. CASE Lme!LoadTempdata(i)
      <3>1. loaded' \in [Round -> Seq(Part)] BY <1>0, <2>4 DEF Lme!LoadTempdata
      <3> QED BY <1>0, <1>a, <2>4, <3>1 DEF Lme!LoadTempdata
    <2>5. CASE Lme!ProcessData(i)
      <3>1. <<held[i].of, held[i].part>> \in Part
        BY <2>5 DEF MessagesInv, Messages, Confirmations, AnswerParts, Lme!Processing, Lme!ProcessData, Part
      <3>2. \A e \in Part : Append(loaded[i], e) \in Seq(Part) BY <1>0
      <3>3. temp' \in Seq(Part) BY <2>5, <3>1, <3>2 DEF Lme!ProcessData
      <3>4. loaded' \in [Round -> Seq(Part)] BY <1>0, <2>5 DEF Lme!ProcessData
      <3>5. raced' \in BOOLEAN BY <1>0, <2>5 DEF Lme!ProcessData
      <3> QED BY <1>0, <1>a, <2>5, <3>3, <3>4, <3>5 DEF Lme!ProcessData
    <2> QED BY <1>7, <2>1, <2>2, <2>3, <2>4, <2>5 DEF LmeReader, Lme!ReaderGoroutine
  <1>8. ASSUME NEW i \in Round, LmeTimer(i) PROVE ChannelType'
    <2> USE DEF Lme!TimerPcs
    <2>1. CASE Lme!TimerStarts(i) BY <1>0, <1>a, <2>1 DEF Lme!TimerStarts
    <2>2. CASE Lme!TimerFires(i, Waiting) BY <1>0, <1>a, <2>2 DEF Lme!TimerFires
    <2>3. CASE Lme!TimerClears(i) BY <1>0, <1>a, <2>3 DEF Lme!TimerClears
    <2>4. CASE Lme!TimerCloses(i)
      <3>1. sender # 0 => [amt[sender] EXCEPT !.state = "closed"] \in Channels
        BY <1>0 DEF Channels
      <3>2. amt' \in [Round -> Channels] BY <1>0, <2>4, <3>1 DEF Lme!TimerCloses
      <3> QED BY <1>0, <1>a, <2>4, <3>2 DEF Lme!TimerCloses
    <2> QED BY <1>8, <2>1, <2>2, <2>3, <2>4 DEF LmeTimer, Lme!TimerGoroutine
  <1>9. ASSUME NEW i \in Round, Device(i) PROVE ChannelType'
    <2>0. amt[i] \in Channels BY <1>0
    <2>1. CASE Lme!AmtConfirms(i)
      <3>1. [amt[i] EXCEPT !.state = "open"] \in Channels BY <2>0 DEF Channels
      <3>2. amt' \in [Round -> Channels] BY <1>0, <2>1, <3>1 DEF Lme!AmtConfirms
      <3>3. Lme!Apf(i, 0, 0) \in [channel : Round, of : Round \cup {0}, part : 0..Parts] BY DEF Lme!Apf
      <3>4. inbox' \in Seq([channel : Round, of : Round \cup {0}, part : 0..Parts])
        BY <1>0, <2>1, <3>3 DEF Lme!AmtConfirms
      <3>5. raced' \in BOOLEAN
            /\ UNCHANGED <<faults, fd, wg, retries, sender, temp, loaded, tref, reader, timer, snap>>
        BY <1>0, <2>1 DEF Lme!AmtConfirms
      <3> QED BY <1>0, <3>2, <3>4, <3>5
    <2>2. CASE Lme!AmtAnswers(i)
      <3>0. amt[i].given \in 0..Parts /\ amt[i].given + 1 \in 0..Parts /\ amt[i].req \in Round \cup {0}
        BY <2>0, <2>2 DEF Channels, Lme!AmtAnswers
      <3>1. [amt[i] EXCEPT !.given = @ + 1] \in Channels BY <2>0, <3>0 DEF Channels
      <3>2. amt' \in [Round -> Channels] BY <1>0, <2>2, <3>1 DEF Lme!AmtAnswers
      <3>3. Lme!Apf(i, amt[i].req, amt[i].given + 1) \in [channel : Round, of : Round \cup {0}, part : 0..Parts]
        BY <3>0 DEF Lme!Apf
      <3>4. inbox' \in Seq([channel : Round, of : Round \cup {0}, part : 0..Parts])
        BY <1>0, <2>2, <3>3 DEF Lme!AmtAnswers
      <3>5. raced' \in BOOLEAN
            /\ UNCHANGED <<faults, fd, wg, retries, sender, temp, loaded, tref, reader, timer, snap>>
        BY <1>0, <2>2 DEF Lme!AmtAnswers
      <3> QED BY <1>0, <3>2, <3>4, <3>5
    <2> QED BY <1>9, <2>1, <2>2 DEF Device, Lme!Amt
  <1> QED BY <1>1, <1>2, <1>3, <1>4, <1>6, <1>7, <1>8, <1>9, LmeCases

\* Which steps touch what AMT and the readers hold of a confirmation.
LEMMA MessageMoves ==
    ASSUME [Next]_vars
    PROVE  \/ Connect \/ \E i \in Round : LmeReader(i) \/ Device(i)
           \/ /\ UNCHANGED <<inbox, reader, held, wg, sender>>
              /\ Send \/ (\E i \in Round : LmeTimer(i)) \/ amt' = amt
  BY LmeCases DEF NewLocalTransport, Send, Receive, LmeTimer, Lme!Initialize, Lme!SendPayload, Lme!SendPayloadFails,
     Lme!lmeVars, Lme!HandOver, lmeVars, Lme!TimerGoroutine, Lme!TimerStarts, Lme!TimerFires, Lme!TimerClears,
     Lme!TimerCloses

LEMMA FaultsStay == ASSUME [Next]_vars PROVE faults' = faults
  <1>1. LmeStep => faults' = faults
    BY DEF LmeStep, LmeReader, LmeTimer, Device, Lme!ReaderGoroutine, Lme!TimerGoroutine, Lme!Amt, Lme!ReaderReceives,
       Lme!ReaderEnds, Lme!ProcessConfirmation, Lme!LoadTempdata, Lme!ProcessData, Lme!TimerStarts, Lme!TimerFires,
       Lme!TimerClears, Lme!TimerCloses, Lme!AmtConfirms, Lme!AmtAnswers
  <1>2. NewLocalTransport \/ UNCHANGED lmeVars => faults' = faults
    BY DEF NewLocalTransport, Lme!Initialize, lmeVars
  <1>3. Connect \/ Send \/ (\E i \in Round : Receive(i)) => faults' = faults
    BY DEF Connect, Send, Receive, Lme!OpenChannel, Lme!RetryOpen, Lme!FailOpen, Lme!SendPayload, Lme!SendPayloadFails,
       Lme!lmeVars, Lme!HandOver
  <1> QED BY <1>1, <1>2, <1>3, LmeCases DEF LmeStep

LEMMA MessagesStep == ASSUME TypeOK, MessagesInv, [Next]_vars PROVE MessagesInv'
  <1>0. ChannelType BY LmeType DEF TypeOK
  <1> USE DEF MessagesInv, Lme!Processing
  <1>1. CASE Connect
    <2>1. reader' \in {reader, [reader EXCEPT ![cur] = "receiving"]} \/ Lme!RetryOpen
      BY <1>1 DEF Connect, Lme!OpenChannel, Lme!FailOpen, Lme!Listen
    <2>2. \A i \in Round : reader'[i] \in {"processing", "appending"} => reader'[i] = reader[i]
      BY <1>0, <2>1 DEF Lme!RetryOpen, ChannelType
    <2>3. held' = held /\ (inbox' = inbox \/ inbox' = <<>>)
      BY <1>1 DEF Connect, Lme!OpenChannel, Lme!FailOpen, Lme!RetryOpen
    <2>4. inbox' \in Seq(Messages)
      <3>1. <<>> \in Seq(Messages) OBVIOUS
      <3> QED BY <2>3, <3>1
    <2> QED BY <2>2, <2>3, <2>4
  <1>2. ASSUME NEW i \in Round, LmeReader(i) PROVE MessagesInv'
    <2>1. CASE Lme!ReaderReceives(i)
      <3>1. Head(inbox) \in Messages /\ Tail(inbox) \in Seq(Messages)
        BY <2>1 DEF Lme!ReaderReceives
      <3> QED BY <1>0, <2>1, <3>1 DEF Lme!ReaderReceives, ChannelType
    <2>2. CASE Lme!ReaderEnds(i) \/ Lme!ProcessConfirmation(i) \/ Lme!LoadTempdata(i) \/ Lme!ProcessData(i)
      BY <1>0, <2>2 DEF Lme!ReaderEnds, Lme!ProcessConfirmation, Lme!LoadTempdata, Lme!ProcessData, ChannelType
    <2> QED BY <1>2, <2>1, <2>2 DEF LmeReader, Lme!ReaderGoroutine
  <1>3. ASSUME NEW i \in Round, Device(i) PROVE MessagesInv'
    <2>0. amt[i] \in Channels BY <1>0 DEF ChannelType
    <2>1. CASE Lme!AmtConfirms(i)
      <3>1. Lme!Apf(i, 0, 0) \in Messages BY DEF Lme!Apf, Messages, Confirmations
      <3> QED BY <2>1, <3>1 DEF Lme!AmtConfirms
    <2>2. CASE Lme!AmtAnswers(i)
      <3>0. amt[i].given + 1 \in 1..Parts /\ amt[i].req \in Round
        BY <2>0, <2>2 DEF Channels, Lme!AmtAnswers
      <3>1. Lme!Apf(i, amt[i].req, amt[i].given + 1) \in Messages
        BY <3>0 DEF Lme!Apf, Messages, AnswerParts
      <3> QED BY <2>2, <3>1 DEF Lme!AmtAnswers
    <2> QED BY <1>3, <2>1, <2>2 DEF Device, Lme!Amt
  <1> QED BY <1>1, <1>2, <1>3, MessageMoves

LEMMA ConfirmationKept ==
    ASSUME ChannelType, MessagesInv, ConfirmationInv,
           \A i \in Round : Asked(i)' => Asked(i),
           inbox' = inbox, held' = held,
           \A i \in Round : reader'[i] = "processing" => reader[i] = "processing",
           \A i \in Round : Owed(i) => Owed(i)'
    PROVE  ConfirmationInv'
  <1>1. \A k \in DOMAIN inbox : inbox[k].channel \in Round
    BY DEF MessagesInv, Messages, Confirmations, AnswerParts
  <1>2. \A i \in Round : Held(i) => held[i].channel \in Round
    BY DEF MessagesInv, Messages, Confirmations, AnswerParts, Held, Lme!Processing
  <1> QED BY <1>1, <1>2 DEF ConfirmationInv, Sent, Held

LEMMA ConfirmationStep ==
    ASSUME TypeOK, MessagesInv, HandlingInv, ConfirmationInv, [Next]_vars
    PROVE  ConfirmationInv'
  <1>0. ChannelType BY LmeType DEF TypeOK
  <1>a. main # "open" => /\ \A i \in Round : ~Asked(i) /\ ~Held(i)
                         /\ \A k \in DOMAIN inbox : ~Sent(k)
    BY DEF ConfirmationInv, Owed
  <1>1. CASE Connect
    <2>1. /\ main = "connect" /\ cur' = cur /\ cur \in Round /\ held' = held
          /\ \A i \in Round : reader'[i] = "processing" => reader[i] = "processing"
      BY <1>0, <1>1 DEF Connect, Goto, HandlingInv, InRoundTrip, Lme!OpenChannel, Lme!RetryOpen, Lme!FailOpen,
         Lme!Listen, ChannelType
    <2>2. \A i \in Round : ~Held(i)' BY <1>a, <2>1 DEF Held
    <2>3. \A k \in DOMAIN inbox' : ~Sent(k)'
      <3>1. inbox' = inbox \/ inbox' = <<>> BY <1>1 DEF Connect, Lme!OpenChannel, Lme!RetryOpen, Lme!FailOpen
      <3> QED BY <1>a, <2>1, <3>1 DEF Sent
    <2>4. \A i \in Round : Asked(i)' => Owed(i)'
      <3>1. CASE Goto("connect", "open") /\ Lme!OpenChannel(cur)
        <4>1. \A i \in Round : Asked(i)' => i = cur
          BY <1>0, <1>a, <2>1, <3>1 DEF Lme!OpenChannel, Asked, ChannelType
        <4>2. wg' > 0 /\ main' = "open" BY <1>0, <3>1 DEF Lme!OpenChannel, Goto, ChannelType
        <4> QED BY <2>1, <4>1, <4>2 DEF Owed
      <3>2. CASE Lme!RetryOpen
        BY <3>2 DEF Lme!RetryOpen, Asked, Lme!NoChannel
      <3>3. CASE Lme!FailOpen(cur)
        BY <1>a, <2>1, <3>3 DEF Lme!FailOpen, Asked
      <3> QED BY <1>1, <3>1, <3>2, <3>3 DEF Connect
    <2> QED BY <2>2, <2>3, <2>4 DEF ConfirmationInv
  <1>2. ASSUME NEW i \in Round, LmeReader(i) PROVE ConfirmationInv'
    <2>0. cur' = cur /\ main' = main BY <1>2 DEF LmeReader, callerVars
    <2>1. CASE Lme!ReaderReceives(i)
      <3>1. /\ inbox # <<>> /\ inbox \in Seq(Messages) /\ wg' = wg /\ amt' = amt
            /\ inbox' = Tail(inbox) /\ held' = [held EXCEPT ![i] = inbox[1]]
            /\ reader' = [reader EXCEPT ![i] = "processing"]
            /\ reader[i] = "receiving"
        BY <2>1 DEF Lme!ReaderReceives, MessagesInv
      <3>2. /\ Len(inbox') = Len(inbox) - 1 /\ 1 \in DOMAIN inbox
            /\ \A k \in DOMAIN inbox' : k + 1 \in DOMAIN inbox /\ k \in Nat /\ inbox'[k] = inbox[k + 1]
        BY <3>1
      <3>3. Held(i)' <=> Sent(1)
        BY <1>0, <3>1 DEF Held, Sent, MessagesInv, ChannelType
      <3>4. \A j \in Round \ {i} : (Held(j)' <=> Held(j)) /\ held'[j] = held[j]
        BY <1>0, <3>1 DEF Held, MessagesInv, ChannelType
      <3>5. ~Held(i) BY <3>1 DEF Held
      <3>6. \A k \in DOMAIN inbox' : Sent(k)' <=> Sent(k + 1) BY <3>2 DEF Sent
      <3>7. \A c : Owed(c)' <=> Owed(c) BY <2>0, <3>1 DEF Owed
      <3>8. \A j \in Round : Asked(j)' <=> Asked(j) BY <3>1 DEF Asked
      <3>9. \A j \in Round : Asked(j)' =>
              Owed(j)' /\ (\A k \in DOMAIN inbox' : ~Sent(k)') /\ \A l \in Round : ~Held(l)'
        BY <3>2, <3>3, <3>4, <3>6, <3>7, <3>8 DEF ConfirmationInv
      <3>10. \A k \in DOMAIN inbox' : Sent(k)' =>
              /\ Owed(inbox[k].channel)' /\ (\A l \in DOMAIN inbox' : Sent(l)' => l = k)
              /\ \A l \in Round : ~Held(l)'
        <4> SUFFICES ASSUME NEW k \in DOMAIN inbox', Sent(k)'
                     PROVE  /\ Owed(inbox[k].channel)' /\ (\A l \in DOMAIN inbox' : Sent(l)' => l = k)
                            /\ \A l \in Round : ~Held(l)'
          OBVIOUS
        <4>1. Sent(k + 1) /\ k + 1 \in DOMAIN inbox /\ k \in Nat /\ k + 1 # 1 /\ inbox'[k] = inbox[k + 1]
          <5>1. k >= 1 BY <3>1
          <5> QED BY <3>2, <3>6, <5>1
        <4>2. ~Sent(1) BY <3>2, <4>1 DEF ConfirmationInv
        <4>3. \A l \in Round : ~Held(l)' BY <3>3, <3>4, <4>1, <4>2 DEF ConfirmationInv
        <4>4. \A l \in DOMAIN inbox' : Sent(l)' => l = k BY <3>2, <3>6, <4>1 DEF ConfirmationInv
        <4>5. Owed(inbox[k + 1].channel) BY <4>1 DEF ConfirmationInv
        <4>6. Owed(inbox[k].channel)' BY <2>0, <3>1, <4>1, <4>5 DEF Owed
        <4> QED BY <4>3, <4>4, <4>6
      <3>11. \A j \in Round : Held(j)' =>
              Owed(held[j].channel)' /\ \A l \in Round : Held(l)' => l = j
        <4>1. CASE Sent(1)
          <5>1. Owed(inbox[1].channel) /\ \A l \in Round : ~Held(l) BY <3>2, <4>1 DEF ConfirmationInv
          <5>2. held'[i] = inbox[1] BY <3>1 DEF MessagesInv
          <5>3. Owed(held[i].channel)' BY <2>0, <3>1, <5>1, <5>2 DEF Owed
          <5> QED BY <3>4, <5>1, <5>3
        <4>2. CASE ~Sent(1)
          <5>1. \A j \in Round : Held(j)' => Held(j) /\ j # i /\ held'[j] = held[j] BY <3>3, <3>4, <4>2
          <5>2. \A j \in Round : Held(j) => Owed(held[j].channel) /\ \A l \in Round : Held(l) => l = j
            BY DEF ConfirmationInv
          <5>3. \A j \in Round : Held(j)' => Owed(held[j].channel)' BY <2>0, <3>1, <5>1, <5>2 DEF Owed
          <5> QED BY <5>1, <5>2, <5>3
        <4> QED BY <4>1, <4>2
      <3> QED BY <3>9, <3>10, <3>11 DEF ConfirmationInv
    <2>2. CASE Lme!ReaderEnds(i) \/ Lme!LoadTempdata(i) \/ Lme!ProcessData(i)
      <3>1. /\ UNCHANGED <<inbox, held, amt, wg>>
            /\ \A j \in Round : reader'[j] = "processing" => reader[j] = "processing"
        BY <1>0, <2>2 DEF Lme!ReaderEnds, Lme!LoadTempdata, Lme!ProcessData, ChannelType
      <3> QED BY <1>0, <2>0, <3>1, ConfirmationKept DEF Owed, Asked
    <2>3. CASE Lme!ProcessConfirmation(i)
      <3>1. Held(i) BY <2>3 DEF Lme!ProcessConfirmation, Held
      <3>2. /\ \A j \in Round : ~Asked(j) /\ (Held(j) => j = i)
            /\ \A k \in DOMAIN inbox : ~Sent(k)
        BY <3>1 DEF ConfirmationInv
      <3>3. /\ \A j \in Round : ~Asked(j)' /\ ~Held(j)'
            /\ \A k \in DOMAIN inbox' : ~Sent(k)'
        BY <1>0, <2>3, <3>2 DEF Lme!ProcessConfirmation, Asked, Held, Sent, ChannelType
      <3> QED BY <3>3 DEF ConfirmationInv
    <2> QED BY <1>2, <2>1, <2>2, <2>3 DEF LmeReader, Lme!ReaderGoroutine
  <1>3. ASSUME NEW i \in Round, Device(i) PROVE ConfirmationInv'
    <2>0. cur' = cur /\ main' = main /\ UNCHANGED <<wg, reader, held>>
      BY <1>3 DEF Device, callerVars, Lme!Amt, Lme!AmtConfirms, Lme!AmtAnswers
    <2>1. CASE Lme!AmtConfirms(i)
      <3>1. Asked(i) BY <2>1 DEF Lme!AmtConfirms, Asked
      <3>2. /\ Owed(i) /\ \A j \in Round : ~Held(j) /\ (Asked(j) => j = i)
            /\ \A k \in DOMAIN inbox : ~Sent(k)
        BY <3>1 DEF ConfirmationInv, Owed
      <3>3. \A j \in Round : ~Asked(j)' /\ ~Held(j)'
        BY <1>0, <2>0, <2>1, <3>2 DEF Lme!AmtConfirms, Asked, Held, ChannelType
      <3>4. inbox' = Append(inbox, Lme!Apf(i, 0, 0)) /\ inbox \in Seq(Messages)
        BY <2>1 DEF Lme!AmtConfirms, MessagesInv
      <3>5. \A k \in DOMAIN inbox' : Sent(k)' => k = Len(inbox) + 1 /\ inbox'[k].channel = i
        BY <3>2, <3>4 DEF Sent, Lme!Apf
      <3>6. Owed(i)' BY <2>0, <3>2 DEF Owed
      <3>7. \A k \in DOMAIN inbox' : Sent(k)' => Owed(inbox[k].channel)' BY <3>5, <3>6 DEF Owed
      <3> QED BY <3>3, <3>5, <3>7 DEF ConfirmationInv
    <2>2. CASE Lme!AmtAnswers(i)
      <3>1. inbox \in Seq(Messages) /\ inbox' = Append(inbox, Lme!Apf(i, amt[i].req, amt[i].given + 1))
        BY <2>2 DEF Lme!AmtAnswers, MessagesInv
      <3>2. amt[i].given + 1 # 0 BY <1>0 DEF ChannelType, Channels
      <3>3. \A k \in DOMAIN inbox' : Sent(k)' => k \in DOMAIN inbox /\ Sent(k) /\ inbox'[k] = inbox[k]
        BY <3>1, <3>2 DEF Sent, Lme!Apf
      <3>4. \A j \in Round : Asked(j)' => Asked(j)
        BY <1>0, <2>2 DEF Lme!AmtAnswers, Asked, ChannelType
      <3>5. \A j \in Round : Held(j)' <=> Held(j) BY <2>0 DEF Held
      <3>6. \A c : Owed(c)' <=> Owed(c) BY <2>0 DEF Owed
      <3>7. \A j \in Round : Asked(j)' =>
              Owed(j)' /\ (\A k \in DOMAIN inbox' : ~Sent(k)') /\ \A l \in Round : ~Held(l)'
        BY <3>3, <3>4, <3>5, <3>6 DEF ConfirmationInv
      <3>8. \A k \in DOMAIN inbox' : Sent(k)' =>
              Owed(inbox[k].channel)' /\ (\A l \in DOMAIN inbox' : Sent(l)' => l = k) /\ \A l \in Round : ~Held(l)'
        BY <2>0, <3>3, <3>5 DEF ConfirmationInv, Owed
      <3>9. \A j \in Round : Held(j)' => Owed(held[j].channel)' /\ \A l \in Round : Held(l)' => l = j
        BY <2>0, <3>5 DEF ConfirmationInv, Owed
      <3> QED BY <3>7, <3>8, <3>9 DEF ConfirmationInv
    <2> QED BY <1>3, <2>1, <2>2 DEF Device, Lme!Amt
  <1>4. CASE /\ UNCHANGED <<inbox, reader, held, wg, sender>>
             /\ Send \/ (\E i \in Round : LmeTimer(i)) \/ amt' = amt
    <2>1. \A i \in Round : Asked(i)' => Asked(i)
      <3>1. CASE amt' = amt BY <3>1 DEF Asked
      <3>2. CASE Send
        <4>1. amt' = amt \/ amt' = [amt EXCEPT ![sender] = [amt[sender] EXCEPT !.req = cur]]
          BY <3>2 DEF Send, Lme!SendPayload, Lme!SendPayloadFails, Lme!lmeVars
        <4>2. \A j \in Round : [amt[j] EXCEPT !.req = cur].state = amt[j].state
          BY <1>0 DEF ChannelType, Channels
        <4>3. \A j \in Round : amt'[j] = amt[j] \/ amt'[j] = [amt[j] EXCEPT !.req = cur]
          BY <1>0, <4>1 DEF ChannelType
        <4> QED BY <4>2, <4>3 DEF Asked
      <3>3. ASSUME NEW i \in Round, LmeTimer(i) PROVE \A j \in Round : Asked(j)' => Asked(j)
        <4>1. amt' = amt \/ amt' = [amt EXCEPT ![sender] = [amt[sender] EXCEPT !.state = "closed"]]
          BY <3>3 DEF LmeTimer, Lme!TimerGoroutine, Lme!TimerStarts, Lme!TimerFires, Lme!TimerClears, Lme!TimerCloses
        <4> QED BY <1>0, <4>1 DEF Asked, ChannelType, Channels
      <3> QED BY <1>4, <3>1, <3>2, <3>3
    <2>2. CASE main' = main /\ cur' = cur
      BY <1>0, <1>4, <2>1, <2>2, ConfirmationKept DEF Owed
    <2>3. CASE main # "open"
      BY <1>0, <1>4, <1>a, <2>1, <2>3, ConfirmationKept DEF Owed
    <2>4. CASE WaitForChannel
      <3>1. wg = 0 BY <2>4 DEF WaitForChannel, Lme!Confirmed
      <3> QED BY <1>0, <1>4, <2>1, <3>1, ConfirmationKept DEF Owed
    <2>5. \/ main' = main /\ cur' = cur
          \/ main # "open" \/ WaitForChannel
      BY MainMoves DEF StartRequest, Connect, Send, Receive, Goto
    <2> QED BY <2>2, <2>3, <2>4, <2>5
  <1> QED BY <1>1, <1>2, <1>3, <1>4, MessageMoves

LEMMA ChannelStep ==
    ASSUME TypeOK, ConfirmationInv, ChannelInv, OwnChannel, [Next]_vars
    PROVE  ChannelInv' /\ OwnChannel'
  <1>0. ChannelType BY LmeType DEF TypeOK
  <1> USE DEF ChannelInv, OwnChannel
  <1>1. CASE Connect
    <2>1. main' \in {"connect", "idle"} \/ (main' = "open" /\ wg' = wg + 1)
      BY <1>1 DEF Connect, Goto, Lme!OpenChannel
    <2> QED BY <1>0, <2>1 DEF ChannelType
  <1>2. ASSUME NEW i \in Round, LmeReader(i) PROVE ChannelInv' /\ OwnChannel'
    <2>0. cur' = cur /\ main' = main BY <1>2 DEF LmeReader, callerVars
    <2>1. CASE Lme!ProcessConfirmation(i)
      <3>1. Held(i) /\ sender' = held[i].channel BY <2>1 DEF Lme!ProcessConfirmation, Held
      <3>2. sender' = cur /\ main = "open" BY <3>1 DEF ConfirmationInv, Owed
      <3> QED BY <2>0, <3>2
    <2>2. CASE UNCHANGED <<wg, sender>> BY <2>0, <2>2
    <2> QED
      BY <1>2, <2>1, <2>2 DEF LmeReader, Lme!ReaderGoroutine, Lme!ReaderReceives, Lme!ReaderEnds, Lme!LoadTempdata,
         Lme!ProcessData
  <1>3. CASE UNCHANGED <<wg, sender>>
    <2>1. CASE WaitForChannel
      BY <1>3, <2>1 DEF WaitForChannel, Lme!Confirmed, Goto
    <2>2. CASE StartRequest \/ Send \/ \E i \in Round : Receive(i)
      BY <2>2 DEF StartRequest, Send, Receive, Goto
    <2> QED BY <1>1, <1>3, <2>1, <2>2, MainMoves
  <1>4. ASSUME NEW i \in Round, Device(i) PROVE UNCHANGED <<wg, sender>>
    BY <1>4 DEF Device, Lme!Amt, Lme!AmtConfirms, Lme!AmtAnswers
  <1> QED BY <1>1, <1>2, <1>3, <1>4, MessageMoves

-----------------------------------------------------------------------------

-----------------------------------------------------------------------------
(* The caller. *)

MainPcs == {"new", "idle", "connect", "open", "send", "wait", "exited"}
CallerType ==
    /\ main \in MainPcs /\ cur \in 0..MaxRequests
    /\ responses \in [Round -> Seq(Part)]
    /\ \A i \in Round : i > cur => responses[i] = <<>>
    /\ failed \subseteq 1..cur

LEMMA CallerStep == ASSUME TypeOK, HandlingInv, [Next]_vars PROVE CallerType'
  <1>0. CallerType /\ ChannelType BY LmeType DEF TypeOK, CallerType, MainPcs, Part
  <1> USE DEF CallerType
  <1>1. CASE StartRequest
    <2>1. cur' = cur + 1 /\ cur < MaxRequests /\ main' = "connect" /\ UNCHANGED <<responses, failed>>
      BY <1>1 DEF StartRequest, Goto
    <2> QED BY <1>0, <2>1 DEF MainPcs, Round
  <1>2. CASE Connect \/ WaitForChannel \/ Send
    <2>1. cur' = cur /\ responses' = responses /\ main' \in MainPcs /\ (failed' = failed \/ failed' = failed \cup {cur})
      BY <1>2 DEF Connect, WaitForChannel, Send, Goto, MainPcs
    <2>2. cur \in Round BY <1>2 DEF HandlingInv, InRoundTrip, Connect, WaitForChannel, Send, Goto
    <2>3. failed' \subseteq 1..cur
      <3>1. failed \cup {cur} \subseteq 1..cur BY <1>0, <2>2 DEF Round
      <3> QED BY <1>0, <2>1, <3>1
    <2> QED BY <1>0, <2>1, <2>3
  <1>3. ASSUME NEW i \in Round, Receive(i) PROVE CallerType'
    <2>1. cur \in Round BY <1>3 DEF HandlingInv, InRoundTrip, Receive
    <2>2. snap[i] \in Seq(Part) BY <1>0 DEF ChannelType
    <2> QED BY <1>0, <1>3, <2>1, <2>2 DEF Receive, MainPcs
  <1>4. CASE /\ UNCHANGED <<cur, responses, failed>>
             /\ main' = main \/ (main \in {"new", "idle"} /\ main' \in {"idle", "exited"})
    BY <1>0, <1>4 DEF MainPcs
  <1> QED BY <1>1, <1>2, <1>3, <1>4, MainMoves

LEMMA TypeStep == ASSUME IInv, [Next]_vars PROVE TypeOK'
  <1>1. ChannelType' /\ CallerType' BY ChannelTypeStep, CallerStep DEF IInv
  <1> QED BY <1>1, LmeTypeNext, Zenon DEF TypeOK, CallerType, MainPcs, Part

\* Only Connect changes the number of retries.
LEMMA RetriesMoves == ASSUME [Next]_vars PROVE Connect \/ retries' = retries
  <1>1. LmeStep => retries' = retries
    BY DEF LmeStep, LmeReader, LmeTimer, Device, Lme!ReaderGoroutine, Lme!TimerGoroutine, Lme!Amt, Lme!ReaderReceives,
       Lme!ReaderEnds, Lme!ProcessConfirmation, Lme!LoadTempdata, Lme!ProcessData, Lme!TimerStarts, Lme!TimerFires,
       Lme!TimerClears, Lme!TimerCloses, Lme!AmtConfirms, Lme!AmtAnswers
  <1>2. NewLocalTransport \/ UNCHANGED lmeVars => retries' = retries
    BY DEF NewLocalTransport, Lme!Initialize, lmeVars
  <1>3. CASE WaitForChannel \/ Send \/ \E i \in Round : Receive(i)
    BY <1>3 DEF WaitForChannel, Send, Receive, lmeVars, Lme!SendPayload, Lme!SendPayloadFails, Lme!lmeVars, Lme!HandOver
  <1> QED BY <1>1, <1>2, <1>3, MainMoves

LEMMA HandlingStep == ASSUME TypeOK, HandlingInv, [Next]_vars PROVE HandlingInv'
  <1>0. ChannelType /\ cur \in 0..MaxRequests BY LmeType DEF TypeOK
  <1> USE DEF HandlingInv
  <1>1. CASE Connect
    <2>1. cur' = cur /\ main = "connect" /\ cur \in Round /\ retries \in Nat
      BY <1>0, <1>1 DEF Connect, Goto, InRoundTrip, ChannelType
    <2>2. CASE Goto("connect", "open") /\ Lme!OpenChannel(cur)
      BY <2>1, <2>2 DEF Goto, Lme!OpenChannel, Round
    <2>3. CASE Goto("connect", "connect") /\ Lme!RetryOpen
      BY <2>1, <2>3 DEF Goto, Lme!RetryOpen, Round
    <2>4. CASE Goto("connect", "idle") /\ Lme!FailOpen(cur)
      BY <2>1, <2>4 DEF Goto, Lme!FailOpen, InRoundTrip, Round
    <2> QED BY <1>1, <2>2, <2>3, <2>4 DEF Connect
  <1>2. CASE StartRequest
    <2>1. retries' = retries BY <1>2, RetriesMoves DEF StartRequest, Connect, Goto
    <2> QED BY <1>0, <1>2, <2>1 DEF StartRequest, Goto, ChannelType, Round
  <1>3. CASE WaitForChannel \/ Send \/ \E i \in Round : Receive(i)
    BY <1>3, RetriesMoves, <1>1 DEF WaitForChannel, Send, Receive, Goto, InRoundTrip
  <1> QED BY <1>1, <1>2, <1>3, MainMoves, RetriesMoves DEF InRoundTrip

-----------------------------------------------------------------------------
(* One message at a time. *)

LEMMA HeardStep == ASSUME TypeOK, HandlingInv, HeardInv, [Next]_vars PROVE HeardInv'
  <1>0. ChannelType BY LmeType DEF TypeOK
  <1>n. main' = "new" => main = "new" /\ UNCHANGED <<amt, timer>>
    <2>1. main' = "new" => main = "new"
      BY MainMoves DEF StartRequest, Connect, WaitForChannel, Send, Receive, Goto
    <2>2. ASSUME main = "new", main' = "new", LmeStep PROVE UNCHANGED <<amt, timer>>
      BY <2>2, <1>0 DEF HeardInv, LmeStep, LmeReader, LmeTimer, Device, Lme!ReaderGoroutine, Lme!ReaderReceives,
         Lme!ReaderEnds, Lme!ProcessConfirmation, Lme!LoadTempdata, Lme!ProcessData, Lme!TimerGoroutine,
         Lme!TimerStarts, Lme!TimerFires, Lme!TimerClears, Lme!TimerCloses, Lme!Amt, Lme!AmtConfirms, Lme!AmtAnswers
    <2> QED
      BY <2>1, <2>2, MainMoves DEF StartRequest, Connect, WaitForChannel, Send, Receive, NewLocalTransport, Goto,
         lmeVars
  <1>f. faults' = faults BY FaultsStay
  <1> USE <1>f DEF HeardInv
  <1>1. CASE Connect
    <2>1. main' # "new" /\ cur \in Round BY <1>1 DEF Connect, Goto, HandlingInv, InRoundTrip
    <2>2. CASE Lme!OpenChannel(cur) \/ Lme!FailOpen(cur)
      <3>1. reader'[cur] = "receiving"
        BY <1>0, <2>1, <2>2 DEF Lme!OpenChannel, Lme!FailOpen, Lme!Listen, ChannelType
      <3> QED BY <2>1, <3>1
    <2>3. CASE Lme!RetryOpen
      BY <2>1, <2>3 DEF Lme!RetryOpen, Lme!NoChannel
    <2> QED BY <1>1, <2>2, <2>3 DEF Connect
  <1>2. CASE NewLocalTransport
    <2>1. amt' = amt /\ main = "new" /\ main' = "idle" BY <1>2 DEF NewLocalTransport, Goto, Lme!Initialize
    <2> QED BY <2>1
  <1>3. ASSUME NEW i \in Round, LmeReader(i) PROVE HeardInv'
    <2>1. \/ reader'[i] \in {"receiving", "processing", "appending"}
          \/ fd' = "closed" \/ "read" \in faults
      BY <1>0, <1>3 DEF LmeReader, Lme!ReaderGoroutine, Lme!ReaderReceives, Lme!ReaderEnds, Lme!ProcessConfirmation,
         Lme!LoadTempdata, Lme!ProcessData, ChannelType
    <2> QED BY <1>n, <2>1
  <1>4. ASSUME NEW i \in Round, Device(i) PROVE HeardInv'
    <2>1. UNCHANGED <<fd, reader>> /\ amt[i].state \in {"asked", "open"} /\ fd = "open"
      BY <1>4 DEF Device, Lme!Amt, Lme!AmtConfirms, Lme!AmtAnswers
    <2> QED BY <1>n, <2>1
  <1>5. ASSUME UNCHANGED <<fd, reader>>,
               \A j \in Round : amt'[j].state \in {"asked", "open"} => amt[j].state \in {"asked", "open"}
        PROVE  HeardInv'
    BY <1>n, <1>5
  <1>6. CASE Send
    <2>1. UNCHANGED <<fd, reader>> BY <1>6 DEF Send, Lme!SendPayload, Lme!SendPayloadFails, Lme!lmeVars
    <2>2. amt' = amt \/ amt' = [amt EXCEPT ![sender] = [amt[sender] EXCEPT !.req = cur]]
      BY <1>6 DEF Send, Lme!SendPayload, Lme!SendPayloadFails, Lme!lmeVars
    <2>3. \A j \in Round : [amt[j] EXCEPT !.req = cur].state = amt[j].state
      BY <1>0 DEF ChannelType, Channels
    <2>4. \A j \in Round : amt'[j] = amt[j] \/ amt'[j] = [amt[j] EXCEPT !.req = cur]
      BY <1>0, <2>2 DEF ChannelType
    <2> QED BY <1>5, <2>1, <2>3, <2>4
  <1>7. ASSUME NEW i \in Round, LmeTimer(i) PROVE HeardInv'
    <2>1. UNCHANGED <<fd, reader>>
      BY <1>7 DEF LmeTimer, Lme!TimerGoroutine, Lme!TimerStarts, Lme!TimerFires, Lme!TimerClears, Lme!TimerCloses
    <2>2. amt' = amt \/ amt' = [amt EXCEPT ![sender] = [amt[sender] EXCEPT !.state = "closed"]]
      BY <1>7 DEF LmeTimer, Lme!TimerGoroutine, Lme!TimerStarts, Lme!TimerFires, Lme!TimerClears, Lme!TimerCloses
    <2>3. \A j \in Round : [amt[j] EXCEPT !.state = "closed"].state = "closed" BY <1>0 DEF ChannelType, Channels
    <2>4. \A j \in Round : amt'[j] = amt[j] \/ amt'[j] = [amt[j] EXCEPT !.state = "closed"]
      BY <1>0, <2>2 DEF ChannelType
    <2> QED BY <1>5, <2>1, <2>3, <2>4
  <1>8. CASE UNCHANGED lmeVars \/ \E i \in Round : Receive(i)
    BY <1>5, <1>8 DEF lmeVars, Receive, Lme!HandOver
  <1> QED BY <1>1, <1>2, <1>3, <1>4, <1>6, <1>7, <1>8, LmeCases

LEMMA OneMessageStep ==
    ASSUME "read" \notin faults, TypeOK, MessagesInv, HeardInv, OneMessage, [Next]_vars
    PROVE  OneMessage'
  <1>0. ChannelType BY LmeType DEF TypeOK
  <1> USE DEF OneMessage, MessagesInv
  <1>1. CASE Connect
    <2>1. inbox' = inbox \/ inbox' = <<>> BY <1>1 DEF Connect, Lme!OpenChannel, Lme!RetryOpen, Lme!FailOpen
    <2>2. \A i \in Round : Busy(i)' => Busy(i)
      BY <1>0, <1>1 DEF Connect, Lme!OpenChannel, Lme!RetryOpen, Lme!FailOpen, Lme!Listen, Busy, Lme!Processing,
         ChannelType
    <2>3. Len(inbox') <= 1 /\ (Len(inbox') = 1 => inbox' = inbox)
      <3>1. Len(<<>>) = 0 OBVIOUS
      <3> QED BY <2>1, <3>1
    <2> QED BY <2>2, <2>3
  <1>2. ASSUME NEW i \in Round, LmeReader(i) PROVE OneMessage'
    <2>1. CASE Lme!ReaderReceives(i)
      <3>1. inbox # <<>> /\ inbox' = Tail(inbox) /\ reader' = [reader EXCEPT ![i] = "processing"]
        BY <2>1 DEF Lme!ReaderReceives
      <3>2. Len(inbox) = 1 /\ Len(inbox') = 0
        <4>1. inbox \in Seq(Messages) /\ Len(inbox) \in Nat /\ Len(inbox) # 0 BY <3>1
        <4>0. \A n \in Nat : n # 0 /\ n <= 1 => n = 1 OBVIOUS
        <4>2. Len(inbox) = 1 BY <4>0, <4>1, Zenon DEF OneMessage
        <4> QED BY <3>1, <4>1, <4>2
      <3>3. \A j \in Round : Busy(j)' => j = i BY <1>0, <3>1, <3>2 DEF Busy, Lme!Processing, ChannelType
      <3> QED BY <3>2, <3>3
    <2>2. CASE Lme!ReaderEnds(i) \/ Lme!ProcessConfirmation(i) \/ Lme!LoadTempdata(i) \/ Lme!ProcessData(i)
      BY <1>0, <2>2 DEF Lme!ReaderEnds, Lme!ProcessConfirmation, Lme!LoadTempdata, Lme!ProcessData, Busy,
         Lme!Processing, ChannelType
    <2> QED BY <1>2, <2>1, <2>2 DEF LmeReader, Lme!ReaderGoroutine
  <1>3. ASSUME NEW i \in Round, Device(i) PROVE OneMessage'
    <2>1. Lme!Settled /\ reader' = reader /\ (\E m : inbox' = Append(inbox, m)) /\ fd = "open" /\ amt[i].state \in {"asked", "open"}
      BY <1>3 DEF Device, Lme!Amt, Lme!AmtConfirms, Lme!AmtAnswers
    <2>2. \A j \in Round : ~Busy(j) /\ ~Busy(j)' BY <2>1 DEF Lme!Settled, Lme!Processing, Busy
    <2>3. inbox = <<>>
      <3>1. PICK j \in Round : reader[j] \in {"receiving", "processing", "appending"} BY <2>1 DEF HeardInv
      <3> QED BY <2>1, <3>1 DEF Lme!Settled, Lme!Processing
    <2>4. Len(inbox') = 1 BY <2>1, <2>3
    <2> QED BY <2>2, <2>4
  <1> QED BY <1>1, <1>2, <1>3, MessageMoves DEF Busy, Lme!Processing

LEMMA AmtStep ==
    ASSUME TypeOK, MessagesInv, HandlingInv, ConfirmationInv, OwnChannel, AmtInv, [Next]_vars
    PROVE  AmtInv'
  <1>0. ChannelType /\ cur \in 0..MaxRequests BY LmeType DEF TypeOK
  <1> USE DEF AmtInv
  <1>1. CASE Connect
    <2>1. main = "connect" /\ cur' = cur /\ cur \in Round BY <1>1 DEF Connect, Goto, HandlingInv, InRoundTrip
    <2>2. sender' = sender /\ sender < cur BY <1>1, <2>1 DEF Connect, Lme!OpenChannel, Lme!RetryOpen, Lme!FailOpen
    <2>3. amt' = amt \/ Lme!RetryOpen \/ Lme!OpenChannel(cur) BY <1>1 DEF Connect, Lme!FailOpen
    <2>4. \A i \in Round : amt'[i] = amt[i] \/ (amt'[i].req = 0 /\ amt'[i].given = 0)
      <3>1. CASE Lme!OpenChannel(cur)
        <4>1. [Lme!NoChannel EXCEPT !.state = "asked"].req = 0 /\ [Lme!NoChannel EXCEPT !.state = "asked"].given = 0
          BY DEF Lme!NoChannel
        <4>2. amt' = [amt EXCEPT ![cur] = [Lme!NoChannel EXCEPT !.state = "asked"]] BY <3>1 DEF Lme!OpenChannel
        <4>3. \A i \in Round : amt'[i] = amt[i] \/ amt'[i] = [Lme!NoChannel EXCEPT !.state = "asked"]
          BY <1>0, <4>2 DEF ChannelType
        <4> QED BY <4>1, <4>3
      <3>2. CASE Lme!RetryOpen BY <3>2 DEF Lme!RetryOpen, Lme!NoChannel
      <3> QED BY <2>3, <3>1, <3>2
    <2> QED BY <1>0, <2>1, <2>2, <2>4 DEF Asked, ChannelType, Channels
  <1>2. ASSUME NEW i \in Round, LmeReader(i) PROVE AmtInv'
    <2>0. main' = main /\ cur' = cur /\ amt' = amt
      BY <1>2 DEF LmeReader, callerVars, Lme!ReaderGoroutine, Lme!ReaderReceives, Lme!ReaderEnds,
         Lme!ProcessConfirmation, Lme!LoadTempdata, Lme!ProcessData
    <2>1. CASE Lme!ProcessConfirmation(i)
      <3>1. Held(i) /\ sender' = held[i].channel BY <2>1 DEF Lme!ProcessConfirmation, Held
      <3>2. sender' = cur /\ main = "open" /\ \A j \in Round : ~Asked(j) BY <3>1 DEF ConfirmationInv, Owed
      <3> QED BY <1>0, <2>0, <3>2 DEF Asked
    <2>2. CASE sender' = sender BY <2>0, <2>2 DEF Asked
    <2> QED
      BY <1>2, <2>1, <2>2 DEF LmeReader, Lme!ReaderGoroutine, Lme!ReaderReceives, Lme!ReaderEnds, Lme!LoadTempdata,
         Lme!ProcessData
  <1>3. ASSUME NEW i \in Round, Device(i) PROVE AmtInv'
    <2>0. main' = main /\ cur' = cur /\ sender' = sender /\ amt[i] \in Channels
      BY <1>0, <1>3 DEF Device, callerVars, Lme!Amt, Lme!AmtConfirms, Lme!AmtAnswers, ChannelType
    <2>1. CASE Lme!AmtConfirms(i)
      <3>1. amt' = [amt EXCEPT ![i] = [amt[i] EXCEPT !.state = "open"]] BY <2>1 DEF Lme!AmtConfirms
      <3>2. /\ [amt[i] EXCEPT !.state = "open"].req = amt[i].req
            /\ [amt[i] EXCEPT !.state = "open"].given = amt[i].given
            /\ [amt[i] EXCEPT !.state = "open"].state = "open"
        BY <2>0 DEF Channels
      <3>3. \A j \in Round : amt'[j] = amt[j] \/ (j = i /\ amt'[j] = [amt[i] EXCEPT !.state = "open"])
        BY <1>0, <3>1 DEF ChannelType
      <3> QED BY <2>0, <3>2, <3>3 DEF Asked
    <2>2. CASE Lme!AmtAnswers(i)
      <3>1. amt' = [amt EXCEPT ![i] = [amt[i] EXCEPT !.given = amt[i].given + 1]] /\ amt[i].req # 0 /\ amt[i].state = "open"
        BY <2>2 DEF Lme!AmtAnswers
      <3>2. /\ [amt[i] EXCEPT !.given = amt[i].given + 1].req = amt[i].req
            /\ [amt[i] EXCEPT !.given = amt[i].given + 1].state = "open"
        BY <2>0, <3>1 DEF Channels
      <3>3. \A j \in Round : amt'[j] = amt[j] \/ (j = i /\ amt'[j] = [amt[i] EXCEPT !.given = amt[i].given + 1])
        BY <1>0, <3>1 DEF ChannelType
      <3> QED BY <2>0, <3>1, <3>2, <3>3 DEF Asked
    <2> QED BY <1>3, <2>1, <2>2 DEF Device, Lme!Amt
  <1>4. CASE Send
    <2>1. cur' = cur /\ main = "send" /\ main' # "connect" /\ sender' = sender /\ sender = cur /\ cur \in Round
      BY <1>4 DEF Send, Goto, Lme!SendPayload, Lme!SendPayloadFails, Lme!lmeVars, OwnChannel, HandlingInv, InRoundTrip
    <2>2. amt' = amt \/ (amt' = [amt EXCEPT ![cur] = [amt[cur] EXCEPT !.req = cur]] /\ amt[cur].state = "open")
      BY <1>4, <2>1 DEF Send, Lme!SendPayload, Lme!SendPayloadFails, Lme!lmeVars
    <2>3. /\ [amt[cur] EXCEPT !.req = cur].state = amt[cur].state
          /\ [amt[cur] EXCEPT !.req = cur].req = cur /\ cur # 0
      BY <1>0, <2>1 DEF ChannelType, Channels, Round
    <2>4. \A j \in Round : amt'[j] = amt[j] \/ (j = cur /\ amt[cur].state = "open" /\ amt'[j] = [amt[cur] EXCEPT !.req = cur])
      BY <1>0, <2>1, <2>2 DEF ChannelType
    <2> QED BY <2>1, <2>3, <2>4 DEF Asked
  <1>5. ASSUME NEW i \in Round, LmeTimer(i) PROVE AmtInv'
    <2>1. main' = main /\ cur' = cur /\ sender' = sender
      BY <1>5 DEF LmeTimer, callerVars, Lme!TimerGoroutine, Lme!TimerStarts, Lme!TimerFires, Lme!TimerClears,
         Lme!TimerCloses
    <2>2. amt' = amt \/ amt' = [amt EXCEPT ![sender] = [amt[sender] EXCEPT !.state = "closed"]]
      BY <1>5 DEF LmeTimer, Lme!TimerGoroutine, Lme!TimerStarts, Lme!TimerFires, Lme!TimerClears, Lme!TimerCloses
    <2>3. \A j \in Round : /\ [amt[j] EXCEPT !.state = "closed"].state = "closed"
                           /\ [amt[j] EXCEPT !.state = "closed"].req = amt[j].req
                           /\ [amt[j] EXCEPT !.state = "closed"].given = amt[j].given
      BY <1>0 DEF ChannelType, Channels
    <2>4. \A j \in Round : amt'[j] = amt[j] \/ amt'[j] = [amt[j] EXCEPT !.state = "closed"]
      BY <1>0, <2>2 DEF ChannelType
    <2>5. \A j \in Round : /\ amt'[j].req = amt[j].req /\ amt'[j].given = amt[j].given
                           /\ Asked(j)' => Asked(j)
      BY <2>3, <2>4 DEF Asked
    <2> QED BY <2>1, <2>5
  <1>6. CASE UNCHANGED <<amt, sender>>
    <2>1. CASE StartRequest
      <3>1. cur' = cur + 1 /\ cur \in Nat /\ sender \in Nat BY <1>0, <2>1 DEF StartRequest, ChannelType, Round
      <3>2. sender < cur + 1 /\ sender <= cur + 1 BY <3>1
      <3> QED BY <1>6, <3>1, <3>2 DEF Asked
    <2>2. CASE Connect \/ Send BY <1>1, <1>4, <2>2
    <2>3. CASE cur' = cur /\ (main' = "connect" => main = "connect")
      BY <1>6, <2>3 DEF Asked
    <2> QED BY <2>1, <2>2, <2>3, MainMoves DEF WaitForChannel, Receive, Goto
  <1> QED BY <1>1, <1>2, <1>3, <1>4, <1>5, <1>6, MessageMoves

-----------------------------------------------------------------------------
(* As long as no request has failed. *)

LEMMA Prefixes ==
    /\ Prefix(0) = <<>>
    /\ \A n \in Nat : Append(Prefix(n), <<cur, n + 1>>) = Prefix(n + 1)
    /\ Prefix(Parts) = Answer(cur)
  <1>1. Prefix(0) = <<>> BY DEF Prefix
  <1>2. \A n \in Nat : Append(Prefix(n), <<cur, n + 1>>) = Prefix(n + 1)
    BY DEF Prefix
  <1> QED BY <1>1, <1>2 DEF Prefix, Answer

\* What is known before the step.
LEMMA Before ==
    ASSUME IInv, Smooth
    PROVE  /\ ChannelType /\ cur \in 0..MaxRequests /\ (InRoundTrip => cur \in Round)
           /\ TimersInv /\ QuietInv /\ CollectInv /\ LoadedInv /\ InTime /\ OneMessage /\ AmtInv /\ MessagesInv /\ HeardInv
           /\ ~Collecting => /\ inbox = <<>> /\ ~Flying
                             /\ \A i \in Round : ~Asked(i) /\ ~Busy(i)
           /\ Flying => amt[cur].given > 0 /\ Collecting /\ ~Finishing
  <1>1. /\ ChannelType /\ cur \in 0..MaxRequests /\ (InRoundTrip => cur \in Round)
        /\ TimersInv /\ QuietInv /\ CollectInv /\ LoadedInv /\ InTime /\ OneMessage /\ AmtInv /\ MessagesInv /\ HeardInv
    BY LmeType DEF IInv, TypeOK, HandlingInv, FirstInv, Smooth, InTime
  <1>2. Flying => Collecting BY <1>1 DEF QuietInv, Flying, InInbox, InHand
  <1>3. Flying => amt[cur].given > 0 BY <1>1 DEF CollectInv, Flying, InInbox, InHand
  <1>4. Collecting => cur \in Round BY <1>1 DEF Collecting, InRoundTrip
  <1>5. Collecting /\ Finishing => ~Flying BY <1>1, <1>3, <1>4 DEF CollectInv, AmtInv
  <1> QED BY <1>1, <1>2, <1>3, <1>5 DEF QuietInv

LEMMA FirstConnect ==
    ASSUME IInv, Smooth, Smooth', Connect
    PROVE  TimersInv' /\ QuietInv' /\ CollectInv'
  <1> USE Before
  <1>0. main = "connect" /\ cur' = cur /\ cur \in Round /\ ~Collecting
    BY DEF Connect, Goto, InRoundTrip, Collecting
  <1>t. timer[cur] = "none" /\ \A i \in Round : ~Lme!Pending(i) BY <1>0 DEF TimersInv
  <1>1. CASE Goto("connect", "open") /\ Lme!OpenChannel(cur)
    <2>1. /\ main' = "open" /\ fd' = "open" /\ UNCHANGED <<temp, inbox, held, snap, sender>>
          /\ timer' = [timer EXCEPT ![cur] = "spawned"] /\ reader' = [reader EXCEPT ![cur] = "receiving"]
          /\ amt' = [amt EXCEPT ![cur] = [Lme!NoChannel EXCEPT !.state = "asked"]]
      BY <1>1 DEF Goto, Lme!OpenChannel, Lme!Listen
    <2>2. timer'[cur] = "spawned" /\ \A i \in Round : i # cur => timer'[i] = timer[i]
      BY <1>0, <2>1 DEF ChannelType
    <2>3. Collecting' BY <1>0, <2>1, <2>2 DEF Collecting
    <2>4. \A i \in Round : ~Busy(i)' BY <1>0, <2>1 DEF Busy, Lme!Processing, ChannelType
    <2>5. ~InInbox' /\ (\A i \in Round : ~InHand(i)') /\ ~Flying' BY <1>0, <2>1, <2>4 DEF InInbox, InHand, Flying
    <2>6. Clearing' <=> Clearing BY <1>0, <1>t, <2>2 DEF Clearing
    <2>7. amt'[cur].state = "asked" /\ amt'[cur].given = 0 /\ \A i \in Round : i # cur => amt'[i] = amt[i]
      BY <1>0, <2>1 DEF ChannelType, Lme!NoChannel
    <2>8. TimersInv' BY <1>0, <1>t, <2>1, <2>2 DEF TimersInv, Lme!Pending
    <2>9. QuietInv' BY <1>0, <2>3, <2>7 DEF QuietInv
    <2>10. temp' = temp /\ (temp = <<>> \/ Clearing) /\ Collected' = 0 /\ Asked(cur)'
      BY <1>0, <2>1, <2>5, <2>7 DEF CollectInv, Collected, Asked
    <2>11. Prefix(0)' = <<>> BY DEF Prefix
    <2>12. Collecting' /\ ~Clearing' => temp' = Prefix(Collected)' BY <2>6, <2>10, <2>11 DEF Prefix
    <2>13. \A i \in Round : timer'[i] # "sending" BY <1>t, <2>2 DEF Lme!Pending
    <2> QED BY <1>0, <2>1, <2>5, <2>7, <2>8, <2>9, <2>10, <2>12, <2>13 DEF CollectInv
  <1>2. CASE Goto("connect", "connect") /\ Lme!RetryOpen
    <2>1. /\ main' = "connect" /\ inbox' = <<>> /\ UNCHANGED <<temp, timer, tref, fd, snap>>
          /\ \A i \in Round : amt'[i].state = "none"
      BY <1>2 DEF Goto, Lme!RetryOpen, Lme!NoChannel
    <2>2. \A i \in Round : ~Busy(i)' BY <1>0, <1>2 DEF Lme!RetryOpen, Busy, Lme!Processing
    <2>3. ~InInbox' /\ (\A i \in Round : ~InHand(i)') /\ ~Collecting' BY <2>1, <2>2 DEF InInbox, InHand, Collecting
    <2>4. TimersInv' BY <1>0, <2>1 DEF TimersInv, Lme!Pending
    <2>5. QuietInv' BY <2>1, <2>2 DEF QuietInv, Asked
    <2> QED BY <1>0, <2>1, <2>3, <2>4, <2>5 DEF CollectInv, Clearing
  <1>3. CASE Goto("connect", "idle")
    BY <1>0, <1>3 DEF Connect, Goto, Smooth
  <1> QED BY <1>1, <1>2, <1>3 DEF Connect

\* The line to AMT is as it was.
LEMMA SameLine ==
    ASSUME UNCHANGED <<inbox, held, reader>>
    PROVE  /\ InInbox' <=> InInbox
           /\ \A i \in Round : (Busy(i)' <=> Busy(i)) /\ (InHand(i)' <=> InHand(i))
           /\ Flying' <=> Flying
  BY DEF InInbox, Busy, Lme!Processing, InHand, Flying

LEMMA FirstCaller ==
    ASSUME IInv, Smooth, Smooth',
           (StartRequest /\ UNCHANGED lmeVars) \/ WaitForChannel \/ Send \/ (\E i \in Round : Receive(i))
             \/ NewLocalTransport \/ UNCHANGED <<main, cur, failed, lmeVars>>
             \/ (main = "idle" /\ main' = "exited" /\ cur' = cur /\ UNCHANGED lmeVars)
    PROVE  TimersInv' /\ QuietInv' /\ CollectInv'
  <1> USE Before
  <1>1. CASE StartRequest /\ UNCHANGED lmeVars
    <2>1. main = "idle" /\ main' = "connect" /\ cur' = cur + 1 /\ ~Collecting /\ ~Collecting'
      BY <1>1 DEF StartRequest, Goto, Collecting
    <2>2. UNCHANGED <<fd, temp, timer, tref, snap, amt, inbox, held, reader>> BY <1>1 DEF lmeVars
    <2>3. TimersInv'
      <3>1. \A i \in Round : timer'[i] = timer[i] /\ ~Lme!Pending(i)' BY <2>1, <2>2 DEF TimersInv, Lme!Pending
      <3>2. \A i \in Round : i > cur' \/ i = cur' => i > cur BY <2>1 DEF Round
      <3> QED BY <2>1, <3>1, <3>2 DEF TimersInv, Lme!Pending
    <2>4. QuietInv' BY <2>1, <2>2 DEF QuietInv, Asked, Busy, Lme!Processing
    <2> QED BY <2>1, <2>2, <2>3, <2>4, SameLine DEF CollectInv, Clearing, TimersInv, Lme!Pending, Flying
  <1>2. CASE WaitForChannel
    <2>1. /\ main = "open" /\ wg = 0 /\ main' = "send" /\ cur' = cur
          /\ UNCHANGED <<fd, temp, timer, tref, snap, amt, inbox, held, reader>>
      BY <1>2 DEF WaitForChannel, Goto, Lme!Confirmed, lmeVars
    <2>2. Collecting /\ Collecting' BY <2>1 DEF QuietInv, Collecting
    <2>3. TimersInv' BY <2>1 DEF TimersInv, Lme!Pending
    <2>4. QuietInv' BY <2>1, <2>2 DEF QuietInv
    <2> QED BY <2>1, <2>2, <2>3, <2>4, SameLine DEF CollectInv, Clearing, Finishing, Asked, Collected, Prefix
  <1>3. CASE Send
    <2>1. /\ main = "send" /\ main' = "wait" /\ cur' = cur /\ Lme!SendPayload(cur)
          /\ UNCHANGED <<fd, temp, timer, tref, snap, inbox, held, reader>>
      BY <1>3 DEF Send, Goto, Lme!SendPayload, Smooth
    <2>2. Collecting /\ Collecting' /\ cur \in Round /\ sender = cur
      BY <2>1 DEF QuietInv, Collecting, InRoundTrip, IInv, OwnChannel
    <2>3. amt' = amt \/ amt' = [amt EXCEPT ![cur] = [amt[cur] EXCEPT !.req = cur]]
      BY <2>1, <2>2 DEF Lme!SendPayload
    <2>4. [amt[cur] EXCEPT !.req = cur].state = amt[cur].state /\ [amt[cur] EXCEPT !.req = cur].given = amt[cur].given
      BY <2>2 DEF ChannelType, Channels
    <2>5. /\ \A i \in Round : i # cur => amt'[i] = amt[i]
          /\ amt'[cur].state = amt[cur].state /\ amt'[cur].given = amt[cur].given
      BY <2>2, <2>3, <2>4 DEF ChannelType
    <2>6. TimersInv' BY <2>1 DEF TimersInv, Lme!Pending
    <2>7. QuietInv' BY <2>1, <2>2, <2>5 DEF QuietInv
    <2> QED BY <2>1, <2>2, <2>5, <2>6, <2>7, SameLine DEF CollectInv, Clearing, Finishing, Asked, Collected, Prefix
  <1>4. ASSUME NEW i \in Round, Receive(i) PROVE TimersInv' /\ QuietInv' /\ CollectInv'
    <2>1. /\ main = "wait" /\ main' \in {"wait", "idle"} /\ cur' = cur /\ timer[i] = "sending"
          /\ timer' = [timer EXCEPT ![i] = "clearing"]
          /\ UNCHANGED <<fd, temp, tref, snap, amt, inbox, held, reader>>
      BY <1>4 DEF Receive, Lme!HandOver
    <2>2. i = cur /\ ~Collecting BY <2>1 DEF TimersInv, Lme!Pending, Collecting
    <2>3. timer'[i] = "clearing" /\ \A j \in Round : j # i => timer'[j] = timer[j] BY <2>1 DEF ChannelType
    <2>4. ~Collecting' /\ Clearing' BY <2>1, <2>2, <2>3 DEF Collecting, Clearing
    <2>5. TimersInv' BY <2>1, <2>2, <2>3 DEF TimersInv, Lme!Pending
    <2>6. QuietInv' BY <2>1, <2>2 DEF QuietInv, Asked, Busy, Lme!Processing
    <2> QED BY <2>1, <2>2, <2>3, <2>4, <2>5, <2>6, SameLine DEF CollectInv, TimersInv, Lme!Pending, Flying
  <1>5. CASE NewLocalTransport \/ (main = "idle" /\ main' = "exited" /\ cur' = cur /\ UNCHANGED lmeVars)
    <2>1. /\ main \in {"new", "idle"} /\ main' \in {"idle", "exited"} /\ cur' = cur
          /\ UNCHANGED <<temp, timer, tref, snap, amt, inbox, held, reader>>
      BY <1>5 DEF NewLocalTransport, Goto, Lme!Initialize, lmeVars
    <2>2. ~Collecting /\ ~Collecting' BY <2>1 DEF Collecting
    <2>3. TimersInv' BY <2>1 DEF TimersInv, Lme!Pending
    <2>4. QuietInv' BY <2>1, <2>2 DEF QuietInv, Asked, Busy, Lme!Processing
    <2> QED BY <2>1, <2>2, <2>3, <2>4, SameLine DEF CollectInv, Clearing, Flying
  <1>6. CASE UNCHANGED <<main, cur, failed, lmeVars>>
    BY <1>6, SameLine DEF lmeVars, TimersInv, Lme!Pending, QuietInv, Asked, Collecting, CollectInv, Clearing,
       Finishing, Collected, Prefix
  <1> QED BY <1>1, <1>2, <1>3, <1>4, <1>5, <1>6

LEMMA FirstReader ==
    ASSUME IInv, Smooth, NEW i \in Round, LmeReader(i)
    PROVE  TimersInv' /\ QuietInv' /\ CollectInv'
  <1> USE Before
  <1>0. UNCHANGED <<main, cur, fd, timer, tref, snap, amt>>
    BY DEF LmeReader, callerVars, Lme!ReaderGoroutine, Lme!ReaderReceives, Lme!ReaderEnds, Lme!ProcessConfirmation,
       Lme!LoadTempdata, Lme!ProcessData
  <1>a. TimersInv' /\ (Collecting' <=> Collecting) /\ (Clearing' <=> Clearing) /\ (Finishing' <=> Finishing)
        /\ \A j \in Round : Asked(j)' <=> Asked(j)
    BY <1>0 DEF TimersInv, Lme!Pending, Collecting, Clearing, Finishing, Asked
  <1>b. \A n : Prefix(n)' = Prefix(n) BY <1>0 DEF Prefix
  <1>1. CASE Lme!ReaderReceives(i)
    <2>1. /\ inbox # <<>> /\ inbox' = Tail(inbox) /\ reader' = [reader EXCEPT ![i] = "processing"]
          /\ held' = [held EXCEPT ![i] = Head(inbox)] /\ UNCHANGED <<temp, wg>>
      BY <1>1 DEF Lme!ReaderReceives
    <2>2. Collecting BY <2>1 DEF QuietInv
    <2>3. Len(inbox) = 1 /\ \A j \in Round : ~Busy(j)
      <3>0. \A n \in Nat : n # 0 /\ n <= 1 => n = 1 OBVIOUS
      <3>1. Len(inbox) \in Nat /\ Len(inbox) # 0 BY <2>1 DEF MessagesInv
      <3>2. Len(inbox) = 1 BY <3>0, <3>1, Zenon DEF OneMessage
      <3> QED BY <3>2 DEF OneMessage
    <2>4. inbox' = <<>> /\ Head(inbox) = inbox[1]
      <3>1. inbox \in Seq(Messages) BY DEF MessagesInv
      <3> QED BY <2>1, <2>3, <3>1
    <2>5. Busy(i)' /\ held'[i] = inbox[1] /\ \A j \in Round : j # i => ~Busy(j)'
      BY <2>1, <2>3, <2>4 DEF Busy, Lme!Processing, ChannelType, MessagesInv
    <2>6. ~InInbox' /\ (\A j \in Round : InHand(j)' <=> (j = i /\ InInbox)) /\ (Flying' <=> Flying)
      BY <2>1, <2>3, <2>4, <2>5 DEF InInbox, InHand, Flying
    <2>7. QuietInv' BY <1>0, <1>a, <2>1, <2>2 DEF QuietInv
    <2>8. Collected' = Collected BY <1>0, <2>6 DEF Collected
    <2>9. Prefix(Collected)' = Prefix(Collected) BY <1>0, <2>8 DEF Prefix
    <2>10. Asked(cur)' <=> Asked(cur) BY <1>0 DEF Asked
    <2> QED BY <1>0, <1>a, <2>1, <2>5, <2>6, <2>7, <2>9, <2>10 DEF CollectInv
  <1>2. CASE Lme!ReaderEnds(i)
    <2>1. fd = "closed" /\ reader' = [reader EXCEPT ![i] = "done"] /\ UNCHANGED <<temp, inbox, held, wg>> /\ reader[i] = "receiving"
      BY <1>2 DEF Lme!ReaderEnds, InTime
    <2>2. ~Collecting BY <2>1 DEF TimersInv, Collecting
    <2>3. \A j \in Round : ~Busy(j)' BY <2>1, <2>2 DEF Busy, Lme!Processing, ChannelType
    <2>4. ~InInbox' /\ \A j \in Round : ~InHand(j)' BY <2>1, <2>2, <2>3 DEF InInbox, InHand
    <2>5. QuietInv' BY <1>0, <1>a, <2>1, <2>2, <2>3 DEF QuietInv
    <2> QED BY <1>0, <1>a, <2>1, <2>2, <2>4, <2>5 DEF CollectInv
  <1>3. CASE Lme!ProcessConfirmation(i)
    <2>1. /\ reader[i] = "processing" /\ held[i].part = 0 /\ UNCHANGED <<temp, inbox, held>>
          /\ reader' = [reader EXCEPT ![i] = "receiving"]
      BY <1>3 DEF Lme!ProcessConfirmation
    <2>2. Collecting BY <2>1 DEF QuietInv, Busy, Lme!Processing
    <2>r. reader'[i] = "receiving" /\ \A j \in Round : j # i => reader'[j] = reader[j] BY <2>1 DEF ChannelType
    <2>3. \A j \in Round : InHand(j)' <=> InHand(j) BY <2>1, <2>r DEF InHand, Busy, Lme!Processing
    <2>4. (InInbox' <=> InInbox) /\ (Flying' <=> Flying) BY <2>1, <2>3 DEF InInbox, Flying
    <2>5. QuietInv' BY <1>0, <1>a, <2>1, <2>2 DEF QuietInv
    <2>6. Collected' = Collected BY <1>0, <2>4 DEF Collected
    <2>7. Prefix(Collected)' = Prefix(Collected) BY <1>0, <2>6 DEF Prefix
    <2>8. Asked(cur)' <=> Asked(cur) BY <1>0 DEF Asked
    <2> QED BY <1>0, <1>a, <2>1, <2>3, <2>4, <2>5, <2>7, <2>8 DEF CollectInv
  <1>5. CASE Lme!LoadTempdata(i)
    <2>1. /\ reader[i] = "processing" /\ reader' = [reader EXCEPT ![i] = "appending"]
          /\ UNCHANGED <<temp, inbox, held, wg>>
      BY <1>5 DEF Lme!LoadTempdata
    <2>2. \A j \in Round : Busy(j)' <=> Busy(j) BY <2>1 DEF Busy, Lme!Processing, ChannelType
    <2>3. /\ InInbox' <=> InInbox
          /\ \A j \in Round : InHand(j)' <=> InHand(j)
          /\ Flying' <=> Flying
      BY <2>1, <2>2 DEF InInbox, InHand, Flying
    <2>5. QuietInv' BY <1>0, <1>a, <2>1, <2>2 DEF QuietInv
    <2>6. Collected' = Collected BY <1>0, <2>3 DEF Collected
    <2>7. Prefix(Collected)' = Prefix(Collected) BY <1>0, <2>6 DEF Prefix
    <2>8. Asked(cur)' <=> Asked(cur) BY <1>0 DEF Asked
    <2> QED BY <1>0, <1>a, <2>1, <2>3, <2>5, <2>7, <2>8 DEF CollectInv
  <1>4. CASE Lme!ProcessData(i)
    <2>a. /\ reader[i] = "appending" /\ UNCHANGED <<inbox, held, wg>> /\ reader' = [reader EXCEPT ![i] = "receiving"]
          /\ temp' = Append(loaded[i], <<held[i].of, held[i].part>>)
      BY <1>4 DEF Lme!ProcessData
    <2>b. temp = loaded[i] BY <2>a DEF LoadedInv
    <2>1. /\ Busy(i) /\ InHand(i) /\ UNCHANGED <<inbox, held, wg>> /\ reader' = [reader EXCEPT ![i] = "receiving"]
      BY <2>a DEF MessagesInv, Busy, Lme!Processing, InHand
    <2>2. Flying /\ Collecting /\ ~Finishing /\ ~Clearing BY <2>1 DEF Flying, Finishing, Clearing
    <2>3. \A j \in Round : Busy(j) => j = i BY <2>1 DEF OneMessage
    <2>4. inbox = <<>>
      <3>0. \A n \in Nat : n # 1 /\ n <= 1 => n = 0 OBVIOUS
      <3>1. Len(inbox) \in Nat /\ Len(inbox) # 1 BY <2>1 DEF MessagesInv, OneMessage
      <3>2. Len(inbox) = 0 BY <3>0, <3>1, Zenon DEF OneMessage
      <3>3. inbox \in Seq(Messages) BY DEF MessagesInv
      <3> QED BY <3>2, <3>3
    <2>5. temp' = Append(temp, <<held[i].of, held[i].part>>)
      BY <2>a, <2>b
    <2>6. temp = Prefix(amt[cur].given - 1) /\ held[i].of = cur /\ held[i].part = amt[cur].given
      BY <2>1, <2>2 DEF CollectInv, Collected
    <2>7. cur \in Round /\ amt[cur].given \in Nat /\ amt[cur].given - 1 \in Nat
      <3>1. cur \in Round /\ amt[cur].given > 0 BY <2>2 DEF Collecting, InRoundTrip
      <3>2. amt[cur] \in Channels BY <3>1 DEF ChannelType
      <3>3. amt[cur].given \in Nat BY <3>2 DEF Channels
      <3> QED BY <3>1, <3>3
    <2>8. temp' = Prefix(amt[cur].given)
      <3>1. Append(Prefix(amt[cur].given - 1), <<cur, amt[cur].given - 1 + 1>>) = Prefix(amt[cur].given - 1 + 1)
        BY <2>7, Prefixes
      <3>2. amt[cur].given - 1 + 1 = amt[cur].given BY <2>7
      <3> QED BY <2>5, <2>6, <3>1, <3>2
    <2>9. \A j \in Round : ~Busy(j)' BY <2>1, <2>3 DEF Busy, Lme!Processing, ChannelType
    <2>10. ~InInbox' /\ (\A j \in Round : ~InHand(j)') /\ ~Flying' BY <2>1, <2>4, <2>9 DEF InInbox, InHand, Flying
    <2>11. QuietInv' BY <1>0, <1>a, <2>1, <2>2 DEF QuietInv
    <2>12. Collected' = amt[cur].given BY <1>0, <2>10 DEF Collected
    <2>13. Prefix(Collected)' = temp' BY <1>0, <2>8, <2>12 DEF Prefix
    <2> QED BY <1>0, <1>a, <2>2, <2>10, <2>11, <2>13 DEF CollectInv, Collecting
  <1> QED BY <1>1, <1>2, <1>3, <1>4, <1>5 DEF LmeReader, Lme!ReaderGoroutine

LEMMA LoadedStep ==
    ASSUME IInv, Smooth, [Next]_vars
    PROVE  LoadedInv'
  <1> USE Before DEF LoadedInv
  <1>1. CASE Connect
    <2>1. UNCHANGED <<temp, loaded>> BY <1>1 DEF Connect, Lme!OpenChannel, Lme!RetryOpen, Lme!FailOpen
    <2>2. reader' \in {reader, [reader EXCEPT ![cur] = "receiving"]} \/ Lme!RetryOpen
      BY <1>1 DEF Connect, Lme!OpenChannel, Lme!FailOpen, Lme!Listen
    <2>3. \A j \in Round : reader'[j] = "appending" => reader[j] = "appending"
      BY <2>2 DEF Lme!RetryOpen, ChannelType
    <2> QED BY <2>1, <2>3
  <1>2. ASSUME NEW i \in Round, LmeReader(i) PROVE LoadedInv'
    <2>1. CASE Lme!ReaderReceives(i) \/ Lme!ReaderEnds(i) \/ Lme!ProcessConfirmation(i)
      BY <2>1 DEF Lme!ReaderReceives, Lme!ReaderEnds, Lme!ProcessConfirmation, ChannelType
    <2>2. CASE Lme!LoadTempdata(i)
      BY <2>2 DEF Lme!LoadTempdata, ChannelType
    <2>3. CASE Lme!ProcessData(i)
      <3>1. \A j \in Round : reader[j] = "appending" => j = i
        BY <2>3 DEF Lme!ProcessData, OneMessage, Busy, Lme!Processing
      <3>2. \A j \in Round : reader'[j] # "appending" BY <2>3, <3>1 DEF Lme!ProcessData, ChannelType
      <3> QED BY <3>2
    <2> QED BY <1>2, <2>1, <2>2, <2>3 DEF LmeReader, Lme!ReaderGoroutine
  <1>3. ASSUME NEW i \in Round, LmeTimer(i) PROVE LoadedInv'
    <2>1. UNCHANGED <<reader, loaded>>
      BY <1>3 DEF LmeTimer, Lme!TimerGoroutine, Lme!TimerStarts, Lme!TimerFires, Lme!TimerClears, Lme!TimerCloses
    <2>2. temp' = temp \/ Finishing
      BY <1>3 DEF LmeTimer, Lme!TimerGoroutine, Lme!TimerStarts, Lme!TimerFires, Lme!TimerClears, Lme!TimerCloses,
         Finishing
    <2>3. Finishing => \A j \in Round : reader[j] # "appending"
      BY DEF Flying, InHand, Busy, Lme!Processing, MessagesInv
    <2> QED BY <2>1, <2>2, <2>3
  <1>4. CASE UNCHANGED <<reader, temp, loaded>> BY <1>4
  <1>5. NewLocalTransport \/ Send \/ UNCHANGED lmeVars => UNCHANGED <<reader, temp, loaded>>
    BY DEF NewLocalTransport, Send, lmeVars, Lme!Initialize, Lme!SendPayload, Lme!SendPayloadFails, Lme!lmeVars
  <1>6. \A i \in Round : Receive(i) \/ Device(i) => UNCHANGED <<reader, temp, loaded>>
    BY DEF Receive, Lme!HandOver, Device, Lme!Amt, Lme!AmtConfirms, Lme!AmtAnswers
  <1> QED BY <1>1, <1>2, <1>3, <1>4, <1>5, <1>6, LmeCases

LEMMA FirstTimer ==
    ASSUME IInv, Smooth, NEW i \in Round, LmeTimer(i)
    PROVE  TimersInv' /\ QuietInv' /\ CollectInv'
  <1> USE Before
  <1>0. UNCHANGED <<main, cur, fd, wg, inbox, held, reader>>
    BY DEF LmeTimer, callerVars, Lme!TimerGoroutine, Lme!TimerStarts, Lme!TimerFires, Lme!TimerClears, Lme!TimerCloses
  <1>a. /\ (InInbox' <=> InInbox) /\ (Flying' <=> Flying)
        /\ \A j \in Round : (Busy(j)' <=> Busy(j)) /\ (InHand(j)' <=> InHand(j))
    BY <1>0, SameLine
  <1>b. \A n : Prefix(n)' = Prefix(n) BY <1>0 DEF Prefix
  <1>1. CASE Lme!TimerStarts(i)
    <2>1. /\ timer[i] = "spawned" /\ timer' = [timer EXCEPT ![i] = "armed"] /\ tref' = i /\ UNCHANGED <<temp, snap, amt>>
      BY <1>1 DEF Lme!TimerStarts
    <2>2. i = cur /\ Collecting /\ \A j \in Round : j # i => ~Lme!Pending(j)
      BY <2>1 DEF TimersInv, Lme!Pending, Collecting
    <2>3. timer'[i] = "armed" /\ \A j \in Round : j # i => timer'[j] = timer[j] BY <2>1 DEF ChannelType
    <2>4. Collecting' /\ (Clearing' <=> Clearing) /\ (Finishing' <=> Finishing) /\ (Asked(cur)' <=> Asked(cur))
      BY <1>0, <2>1, <2>2, <2>3 DEF Collecting, Clearing, Finishing, Asked
    <2>5. TimersInv' BY <1>0, <2>1, <2>2, <2>3 DEF TimersInv, Lme!Pending
    <2>6. QuietInv' BY <1>0, <2>1, <2>2, <2>4 DEF QuietInv
    <2>7. Collected' = Collected BY <1>0, <1>a, <2>1 DEF Collected
    <2>8. \A j \in Round : timer'[j] # "sending" BY <2>2, <2>3 DEF Lme!Pending
    <2> QED BY <1>0, <1>a, <1>b, <2>1, <2>2, <2>4, <2>5, <2>6, <2>7, <2>8 DEF CollectInv
  <1>2. CASE Lme!TimerFires(i, Waiting)
    <2>1. /\ timer[i] = "armed" /\ timer' = [timer EXCEPT ![i] = "sending"] /\ UNCHANGED <<temp, tref, amt>>
          /\ snap' = [snap EXCEPT ![i] = temp] /\ Lme!Settled
          /\ "late" \in faults \/ fd = "closed" \/ tref # i \/ (Waiting /\ (Lme!Delivered \/ Lme!Deaf))
      BY <1>2 DEF Lme!TimerFires
    <2>2. i = cur /\ Collecting /\ (\A j \in Round : j # i => ~Lme!Pending(j)) /\ tref = i /\ fd = "open"
      BY <2>1 DEF TimersInv, Lme!Pending, Collecting
    <2>3. "late" \notin faults /\ "read" \notin faults BY DEF InTime
    <2>d. ~Lme!Deaf
      <3>1. cur \in Round /\ amt[cur].state \in {"asked", "open"}
        BY <2>2 DEF CollectInv, Collecting, InRoundTrip
      <3>2. \E j \in Round : reader[j] \in {"receiving", "processing", "appending"}
        BY <2>2, <2>3, <3>1 DEF HeardInv
      <3> QED BY <3>2 DEF Lme!Deaf
    <2>4. Waiting /\ Lme!Delivered BY <2>1, <2>2, <2>3, <2>d
    <2>5. /\ inbox = <<>> /\ \A j \in Round : ~Busy(j) /\ ~Asked(j)
          /\ \A j \in Round : amt[j].state = "open" /\ amt[j].req # 0 => amt[j].given = Parts
      BY <2>4 DEF Lme!Delivered, Busy, Lme!Processing, Asked
    <2>6. ~Flying /\ ~InInbox /\ \A j \in Round : ~InHand(j) BY <2>5 DEF Flying, InInbox, InHand
    <2>7. ~Clearing BY <2>1 DEF Lme!Settled, Lme!Processing, Clearing
    <2>8. temp = Prefix(amt[cur].given) /\ amt[cur].state = "open" /\ cur \in Round
      BY <2>2, <2>5, <2>6, <2>7 DEF CollectInv, Collected, Asked
    <2>9. amt[cur].given \in {0, Parts} BY <2>5, <2>8 DEF AmtInv
    <2>10. temp \in {<<>>, Answer(cur)} BY <2>8, <2>9, Prefixes
    <2>11. timer'[i] = "sending" /\ snap'[i] = temp /\ \A j \in Round : j # i => timer'[j] = timer[j]
      BY <2>1 DEF ChannelType
    <2>12. \A j \in Round : timer'[j] = "sending" => snap'[j] \in {<<>>, Answer(j)}
      BY <2>2, <2>10, <2>11 DEF Lme!Pending
    <2>13. ~Collecting' BY <1>0, <2>2, <2>11 DEF Collecting
    <2>14. TimersInv' BY <1>0, <2>1, <2>2, <2>11 DEF TimersInv, Lme!Pending, Collecting
    <2>15. QuietInv'
      <3>1. main # "send" /\ ~(main = "open" /\ wg = 0) BY <2>4 DEF Waiting, Lme!Confirmed
      <3>2. \A j \in Round : ~(amt[j].state = "open" /\ amt[j].req # 0 /\ amt[j].given < Parts) BY <2>5
      <3> QED BY <1>0, <1>a, <2>1, <2>5, <3>1, <3>2 DEF QuietInv, Asked
    <2>16. main \notin {"new", "idle", "connect"} BY <2>2 DEF Collecting
    <2> QED BY <1>0, <1>a, <2>6, <2>12, <2>13, <2>14, <2>15, <2>16 DEF CollectInv
  <1>3. CASE Lme!TimerClears(i)
    <2>1. /\ timer[i] = "clearing" /\ timer' = [timer EXCEPT ![i] = "closing"] /\ temp' = <<>> /\ UNCHANGED <<tref, snap, amt>>
      BY <1>3 DEF Lme!TimerClears
    <2>2. timer'[i] = "closing" /\ \A j \in Round : j # i => timer'[j] = timer[j] BY <2>1 DEF ChannelType
    <2>3. Collecting' <=> Collecting BY <1>0, <2>1, <2>2 DEF Collecting
    <2>4. Finishing BY <2>1 DEF Finishing
    <2>5. Collecting => Asked(cur) /\ ~Flying /\ amt[cur].given = 0
      <3>1. Collecting => Asked(cur) /\ ~Flying /\ cur \in Round BY <2>4 DEF CollectInv, Collecting, InRoundTrip
      <3> QED BY <3>1 DEF AmtInv
    <2>6. TimersInv' BY <1>0, <2>1, <2>2 DEF TimersInv, Lme!Pending
    <2>7. QuietInv' BY <1>0, <1>a, <2>1, <2>3 DEF QuietInv, Asked
    <2>8. Collecting => Prefix(Collected)' = <<>>
      <3>1. Collecting => Collected' = 0 BY <1>0, <1>a, <2>1, <2>5 DEF Collected
      <3> QED BY <3>1 DEF Prefix
    <2>9. \A j \in Round : timer'[j] = "sending" => timer[j] = "sending" BY <2>2
    <2>10. Asked(cur)' <=> Asked(cur) BY <1>0, <2>1 DEF Asked
    <2> QED BY <1>0, <1>a, <2>1, <2>3, <2>5, <2>6, <2>7, <2>8, <2>9, <2>10 DEF CollectInv
  <1>4. CASE Lme!TimerCloses(i)
    <2>1. /\ timer[i] = "closing" /\ timer' = [timer EXCEPT ![i] = "done"] /\ UNCHANGED <<temp, tref, snap>>
          /\ amt' = amt \/ amt' = [amt EXCEPT ![sender] = [amt[sender] EXCEPT !.state = "closed"]]
      BY <1>4 DEF Lme!TimerCloses
    <2>2. timer'[i] = "done" /\ \A j \in Round : j # i => timer'[j] = timer[j] BY <2>1 DEF ChannelType
    <2>3. (Collecting' <=> Collecting) /\ (Clearing' <=> Clearing) /\ (Finishing' => Finishing) /\ Finishing
      BY <1>0, <2>1, <2>2 DEF Collecting, Clearing, Finishing
    <2>4. \A j \in Round : amt'[j] = amt[j] \/ (j = sender /\ amt'[j] = [amt[j] EXCEPT !.state = "closed"])
      BY <2>1 DEF ChannelType
    <2>5. \A j \in Round : [amt[j] EXCEPT !.state = "closed"].state = "closed" BY DEF ChannelType, Channels
    <2>6. Collecting => amt'[cur] = amt[cur]
      <3>1. Collecting => Asked(cur) /\ cur \in Round BY <2>3 DEF CollectInv, Collecting, InRoundTrip
      <3>2. Collecting => sender # cur BY <3>1 DEF AmtInv, ChannelType, Round
      <3> QED BY <2>4, <3>1, <3>2
    <2>7. TimersInv' BY <1>0, <2>1, <2>2 DEF TimersInv, Lme!Pending
    <2>8. QuietInv'
      <3>1. \A j \in Round : amt'[j].state \in {"open", "asked"} => amt'[j] = amt[j] BY <2>4, <2>5
      <3> QED BY <1>0, <1>a, <2>3, <3>1 DEF QuietInv, Asked
    <2>9. Collecting => Collected' = Collected /\ (Asked(cur)' <=> Asked(cur)) BY <1>0, <1>a, <2>6 DEF Collected, Asked
    <2>10. \A j \in Round : timer'[j] = "sending" => timer[j] = "sending" BY <2>2
    <2>11. InInbox \/ (\E j \in Round : InHand(j)) => Collecting BY DEF Flying
    <2> QED BY <1>0, <1>a, <1>b, <2>1, <2>3, <2>6, <2>7, <2>8, <2>9, <2>10, <2>11 DEF CollectInv
  <1> QED BY <1>1, <1>2, <1>3, <1>4 DEF LmeTimer, Lme!TimerGoroutine

LEMMA FirstDevice ==
    ASSUME IInv, Smooth, NEW i \in Round, Device(i)
    PROVE  TimersInv' /\ QuietInv' /\ CollectInv'
  <1> USE Before
  <1>0. /\ UNCHANGED <<main, cur, fd, wg, timer, tref, temp, snap, held, reader, sender>>
        /\ Lme!Settled /\ fd = "open" /\ amt[i].state \in {"asked", "open"}
    BY DEF Device, callerVars, Lme!Amt, Lme!AmtConfirms, Lme!AmtAnswers
  <1>1. (\A j \in Round : ~Busy(j) /\ ~Busy(j)') /\ ~Finishing /\ ~Clearing /\ ~Finishing'
    BY <1>0 DEF Lme!Settled, Lme!Processing, Busy, Finishing, Clearing
  <1>2. inbox = <<>>
    <2>1. PICK j \in Round : reader[j] \in {"receiving", "processing", "appending"} BY <1>0 DEF HeardInv, InTime
    <2> QED BY <1>0, <2>1 DEF Lme!Settled, Lme!Processing
  <1>3. ~Flying /\ ~InInbox /\ \A j \in Round : ~InHand(j) /\ ~InHand(j)'
    BY <1>1, <1>2 DEF Flying, InInbox, InHand
  <1>4. TimersInv' /\ (Collecting' <=> Collecting) BY <1>0 DEF TimersInv, Lme!Pending, Collecting
  <1>5. i = cur /\ Collecting
    <2>1. Lme!AmtConfirms(i) => Asked(i) BY DEF Lme!AmtConfirms, Asked
    <2>2. Asked(i) => i = cur BY DEF IInv, ConfirmationInv, Owed
    <2>3. Lme!AmtAnswers(i) => i = cur /\ Collecting BY DEF Lme!AmtAnswers, QuietInv
    <2>4. Asked(i) => Collecting BY DEF QuietInv
    <2> QED BY <2>1, <2>2, <2>3, <2>4 DEF Device, Lme!Amt
  <1>6. temp = Prefix(amt[cur].given) BY <1>1, <1>3, <1>5 DEF CollectInv, Collected
  <1>7. ASSUME amt'[i].state = "open", \A j \in Round : j # i => amt'[j] = amt[j],
               InInbox' => inbox'[1].of = cur /\ inbox'[1].part = amt'[cur].given,
               Flying' => amt'[cur].given = amt[cur].given + 1,
               ~Flying' => amt'[cur].given = amt[cur].given
        PROVE  TimersInv' /\ QuietInv' /\ CollectInv'
    <2>1. QuietInv' BY <1>0, <1>4, <1>5, <1>7 DEF QuietInv
    <2>2. Collected' = amt[cur].given
      <3>1. amt[cur].given \in Nat BY <1>5 DEF ChannelType, Channels
      <3>2. Flying' => amt'[cur].given - 1 = amt[cur].given BY <1>7, <3>1
      <3> QED BY <1>0, <1>7, <3>2 DEF Collected
    <2>3. Prefix(Collected)' = Prefix(amt[cur].given) BY <1>0, <2>2 DEF Prefix
    <2> QED BY <1>0, <1>1, <1>3, <1>4, <1>5, <1>6, <1>7, <2>1, <2>3 DEF CollectInv, Collecting
  <1>8. CASE Lme!AmtConfirms(i)
    <2>1. amt' = [amt EXCEPT ![i] = [amt[i] EXCEPT !.state = "open"]] /\ inbox' = Append(inbox, Lme!Apf(i, 0, 0))
      BY <1>8 DEF Lme!AmtConfirms
    <2>2. amt'[i] = [amt[i] EXCEPT !.state = "open"] /\ \A j \in Round : j # i => amt'[j] = amt[j]
      BY <2>1 DEF ChannelType
    <2>3. amt'[i].state = "open" /\ amt'[i].given = amt[i].given BY <2>2 DEF ChannelType, Channels
    <2>4. inbox'[1].part = 0 BY <1>2, <2>1 DEF Lme!Apf
    <2>5. ~InInbox' /\ ~Flying' BY <1>3, <2>4 DEF InInbox, Flying
    <2> QED BY <1>5, <1>7, <2>2, <2>3, <2>5
  <1>9. CASE Lme!AmtAnswers(i)
    <2>1. /\ amt' = [amt EXCEPT ![i] = [amt[i] EXCEPT !.given = amt[i].given + 1]]
          /\ inbox' = Append(inbox, Lme!Apf(i, amt[i].req, amt[i].given + 1))
          /\ amt[i].state = "open" /\ amt[i].req # 0
      BY <1>9 DEF Lme!AmtAnswers
    <2>2. amt'[i] = [amt[i] EXCEPT !.given = amt[i].given + 1] /\ \A j \in Round : j # i => amt'[j] = amt[j]
      BY <2>1 DEF ChannelType
    <2>3. amt'[i].state = "open" /\ amt'[i].given = amt[i].given + 1 BY <2>1, <2>2 DEF ChannelType, Channels
    <2>4. amt[i].req = cur BY <1>5, <2>1 DEF AmtInv
    <2>5. inbox' # <<>> /\ inbox'[1].of = amt[i].req /\ inbox'[1].part = amt[i].given + 1 BY <1>2, <2>1 DEF Lme!Apf
    <2>6. amt[i].given \in Nat BY DEF ChannelType, Channels
    <2>7. Flying' BY <2>5, <2>6 DEF Flying, InInbox
    <2> QED BY <1>5, <1>7, <2>2, <2>3, <2>4, <2>5, <2>7
  <1> QED BY <1>8, <1>9 DEF Device, Lme!Amt

\* A request that failed has failed.
LEMMA FailedMoves ==
    ASSUME IInv, [Next]_vars
    PROVE  failed \subseteq failed' /\ (failed' # failed => cur \in failed' /\ cur' = cur)
  BY MainMoves DEF StartRequest, Connect, WaitForChannel, Send, Receive

LEMMA FirstStep == ASSUME IInv, [Next]_vars PROVE FirstInv'
  <1> SUFFICES ASSUME Smooth' PROVE TimersInv' /\ QuietInv' /\ CollectInv'
    <2>1. Smooth' => LoadedInv' BY LoadedStep, FailedMoves, FaultsStay DEF Smooth, InTime
    <2> QED BY <2>1 DEF FirstInv
  <1>1. Smooth BY FailedMoves, FaultsStay DEF Smooth, InTime
  <1>2. CASE LmeStep BY <1>1, <1>2, FirstReader, FirstTimer, FirstDevice DEF LmeStep
  <1>3. CASE \/ (StartRequest /\ UNCHANGED lmeVars) \/ WaitForChannel \/ Send \/ (\E i \in Round : Receive(i))
             \/ NewLocalTransport \/ UNCHANGED <<main, cur, failed, lmeVars>>
             \/ (main = "idle" /\ main' = "exited" /\ cur' = cur /\ UNCHANGED lmeVars)
    BY <1>1, <1>3, FirstCaller
  <1>4. CASE Connect BY <1>1, <1>4, FirstConnect
  <1> QED
    <2>1. \/ LmeStep \/ Connect \/ (StartRequest /\ UNCHANGED lmeVars) \/ WaitForChannel \/ Send \/ (\E i \in Round : Receive(i))
          \/ NewLocalTransport \/ UNCHANGED <<main, cur, failed, lmeVars>>
          \/ (main = "idle" /\ main' = "exited" /\ cur' = cur /\ UNCHANGED lmeVars)
      BY DEF Next, RoundTrip, StartRequest, Exit, Goto, vars, callerVars, LmeStep
    <2> QED BY <1>2, <1>3, <1>4, <2>1

(* Only the request at hand is answered; its timer hands over all of it.     *)
LEMMA ResponseStep == ASSUME IInv, [Next]_vars PROVE OwnResponse'
  <1>1. cur \in 0..MaxRequests /\ failed \subseteq 1..cur /\ responses \in [Round -> Seq(Part)] /\ OwnResponse
    BY DEF IInv, TypeOK, Part
  <1>f. InTime' <=> InTime BY FaultsStay DEF InTime
  <1>2. ASSUME NEW i \in Round, Receive(i) PROVE OwnResponse'
    <2>1. /\ responses' = [responses EXCEPT ![cur] = snap[i]] /\ failed' = failed /\ cur \in Round /\ timer[i] = "sending"
          /\ cur' = cur /\ InRoundTrip /\ (InRoundTrip' <=> snap[i] = <<>>)
      BY <1>2 DEF Receive, IInv, HandlingInv, InRoundTrip, Lme!HandOver
    <2>2. failed \cap 1..cur = failed BY <1>1
    <2>3. InTime /\ failed = {} => i = cur /\ snap[i] \in {<<>>, Answer(i)}
      BY <2>1, Before DEF TimersInv, Lme!Pending, CollectInv, Smooth
    <2>4. \A j \in Round : j # cur => responses'[j] = responses[j] /\ (Returned(j)' <=> Returned(j))
      BY <1>1, <2>1 DEF Returned
    <2>5. \A j \in Round : j = cur => responses'[j] = snap[i] /\ (Returned(j)' <=> snap[i] # <<>>)
      BY <1>1, <2>1 DEF Returned, Round
    <2>6. ASSUME NEW j \in Round, InTime, failed \cap 1..j = {}
          PROVE  responses'[j] = IF Returned(j)' THEN Answer(j) ELSE <<>>
      <3>1. CASE j = cur
        <4>1. snap[i] \in {<<>>, Answer(j)} BY <2>2, <2>3, <2>6, <3>1
        <4>2. responses'[j] = snap[i] /\ (Returned(j)' <=> snap[i] # <<>>) BY <2>5, <3>1
        <4>3. snap[i] = <<>> \/ snap[i] # <<>> OBVIOUS
        <4> QED BY <4>1, <4>2, <4>3
      <3>2. CASE j # cur BY <1>1, <2>4, <2>6, <3>2 DEF OwnResponse
      <3> QED BY <3>1, <3>2
    <2> QED BY <1>f, <2>1, <2>6 DEF OwnResponse, Answer
  <1>3. CASE StartRequest
    <2>1. cur' = cur + 1 /\ ~InRoundTrip /\ InRoundTrip' /\ UNCHANGED <<responses, failed>>
      BY <1>3 DEF StartRequest, Goto, InRoundTrip
    <2>2. \A j \in Round : Returned(j)' <=> Returned(j) BY <1>1, <2>1 DEF Returned, Round
    <2> QED BY <1>1, <1>f, <2>1, <2>2 DEF OwnResponse, Answer
  <1>4. CASE /\ responses' = responses /\ cur' = cur /\ failed \subseteq failed'
             /\ (InRoundTrip' <=> InRoundTrip) \/ (cur \in failed' /\ cur \in Round)
    <2>1. ASSUME NEW j \in Round, InTime, failed' \cap 1..j = {}
          PROVE  responses[j] = IF Returned(j)' THEN Answer(j) ELSE <<>>
      <3>1. failed \cap 1..j = {} BY <1>4, <2>1
      <3>2. Returned(j)' <=> Returned(j)
        <4>1. CASE InRoundTrip' <=> InRoundTrip BY <1>4, <4>1 DEF Returned
        <4>2. CASE cur \in failed' /\ cur \in Round
          <5>1. j < cur BY <1>1, <2>1, <4>2 DEF Round
          <5> QED BY <1>4, <5>1 DEF Returned
        <4> QED BY <1>4, <4>1, <4>2
      <3> QED BY <1>1, <2>1, <3>1, <3>2 DEF OwnResponse
    <2> QED BY <1>4, <1>f, <2>1 DEF OwnResponse, Answer
  <1>5. CASE Connect \/ WaitForChannel \/ Send
    <2>1. InRoundTrip /\ cur \in Round
      BY <1>5 DEF IInv, HandlingInv, Connect, WaitForChannel, Send, Goto, InRoundTrip
    <2> QED BY <1>4, <1>5, <2>1 DEF Connect, WaitForChannel, Send, Goto, InRoundTrip
  <1>6. CASE /\ UNCHANGED <<cur, responses, failed>>
             /\ main' = main \/ (main \in {"new", "idle"} /\ main' \in {"idle", "exited"})
    BY <1>4, <1>6 DEF InRoundTrip
  <1> QED BY <1>2, <1>3, <1>5, <1>6, MainMoves

-----------------------------------------------------------------------------
(* What RoundTrip waits for is there to come.                                *)

\* The confirmation of c's channel is owed, on its way or with a reader.
Underway(c) ==
    \/ Asked(c)
    \/ \E k \in DOMAIN inbox : Sent(k) /\ inbox[k].channel = c
    \/ \E i \in Round : Held(i) /\ held[i].channel = c

(* The wait group without retries: one Add, and one confirmation for it.     *)
CountInv ==
    /\ main # "open" => wg = 0
    /\ main = "open" /\ wg > 0 => wg = 1 /\ Underway(cur)

(* The select without a timeout: AMT has the request and its timer runs, or  *)
(* the timer is about to hand over the whole answer.                         *)
Asking == Collecting /\ amt[cur].state = "open" /\ amt[cur].req = cur
WaitInv == main = "wait" => Asking \/ (timer[cur] = "sending" /\ snap[cur] = Answer(cur))

Undisturbed == "nodevice" \notin faults /\ Smooth
ServedInv == Undisturbed => CountInv /\ WaitInv

\* A confirmation under way stays so until it is processed.
LEMMA UnderwayStep ==
    ASSUME IInv, Smooth, LmeStep, main = "open", Underway(cur),
           \A i \in Round : ~Lme!ProcessConfirmation(i)
    PROVE  Underway(cur)'
  <1> USE Before
  <1>0. cur \in Round /\ cur' = cur /\ inbox \in Seq(Messages)
    BY DEF InRoundTrip, LmeStep, LmeReader, LmeTimer, Device, callerVars, MessagesInv
  <1>1. ASSUME NEW i \in Round, Lme!ReaderReceives(i) PROVE Underway(cur)'
    <2>1. /\ inbox # <<>> /\ amt' = amt /\ reader[i] = "receiving" /\ inbox' = Tail(inbox)
          /\ held' = [held EXCEPT ![i] = inbox[1]] /\ reader' = [reader EXCEPT ![i] = "processing"]
      BY <1>0, <1>1 DEF Lme!ReaderReceives
    <2>2. \A k \in DOMAIN inbox : k = 1 \/ (k - 1 \in DOMAIN inbox' /\ inbox'[k - 1] = inbox[k])
      BY <1>0, <2>1
    <2>3. /\ reader'[i] = "processing" /\ held'[i] = inbox[1]
          /\ \A j \in Round : reader[j] = "processing" => reader'[j] = "processing" /\ held'[j] = held[j]
      BY <2>1 DEF MessagesInv, ChannelType
    <2>4. CASE Asked(cur) BY <1>0, <2>1, <2>4 DEF Underway, Asked
    <2>5. CASE \E k \in DOMAIN inbox : Sent(k) /\ inbox[k].channel = cur
      <3>1. PICK k \in DOMAIN inbox : inbox[k].part = 0 /\ inbox[k].channel = cur BY <2>5 DEF Sent
      <3>2. CASE k = 1 BY <1>0, <2>3, <3>1, <3>2 DEF Underway, Held
      <3>3. CASE k - 1 \in DOMAIN inbox' /\ inbox'[k - 1] = inbox[k]
        <4>1. inbox'[k - 1].part = 0 /\ inbox'[k - 1].channel = cur' BY <1>0, <3>1, <3>3
        <4> QED BY <3>3, <4>1 DEF Underway, Sent
      <3> QED BY <2>2, <3>2, <3>3
    <2>6. CASE \E j \in Round : Held(j) /\ held[j].channel = cur
      BY <1>0, <2>3, <2>6 DEF Underway, Held
    <2> QED BY <2>4, <2>5, <2>6 DEF Underway
  <1>2. ASSUME NEW i \in Round, Lme!ReaderEnds(i) \/ Lme!LoadTempdata(i) \/ Lme!ProcessData(i) PROVE Underway(cur)'
    <2>1. UNCHANGED <<amt, inbox, held>> BY <1>2 DEF Lme!ReaderEnds, Lme!LoadTempdata, Lme!ProcessData
    <2>2. \A j \in Round : Held(j) => Held(j)'
      BY <1>2, <2>1 DEF Lme!ReaderEnds, Lme!LoadTempdata, Lme!ProcessData, ChannelType, Held
    <2> QED BY <1>0, <2>1, <2>2 DEF Underway, Asked, Sent
  <1>3. ASSUME NEW i \in Round, LmeTimer(i) PROVE Underway(cur)'
    <2>1. UNCHANGED <<inbox, held, reader>>
      BY <1>3 DEF LmeTimer, Lme!TimerGoroutine, Lme!TimerStarts, Lme!TimerFires, Lme!TimerClears, Lme!TimerCloses
    <2>2. ASSUME Asked(cur) PROVE Asked(cur)'
      <3>1. amt' = amt \/ amt' = [amt EXCEPT ![sender] = [amt[sender] EXCEPT !.state = "closed"]]
        BY <1>3 DEF LmeTimer, Lme!TimerGoroutine, Lme!TimerStarts, Lme!TimerFires, Lme!TimerClears, Lme!TimerCloses
      <3>2. sender # cur BY <1>0, <2>2 DEF AmtInv, ChannelType, Round
      <3> QED BY <1>0, <2>2, <3>1, <3>2 DEF Asked, ChannelType
    <2> QED BY <1>0, <2>1, <2>2 DEF Underway, Sent, Held
  <1>4. ASSUME NEW i \in Round, Device(i) PROVE Underway(cur)'
    <2>1. UNCHANGED <<held, reader>> BY <1>4 DEF Device, Lme!Amt, Lme!AmtConfirms, Lme!AmtAnswers
    <2>2. PICK m : inbox' = Append(inbox, m) /\ (Lme!AmtConfirms(i) => m.part = 0 /\ m.channel = i)
      BY <1>4 DEF Device, Lme!Amt, Lme!AmtConfirms, Lme!AmtAnswers, Lme!Apf
    <2>3. /\ \A k \in DOMAIN inbox : k \in DOMAIN inbox' /\ inbox'[k] = inbox[k]
          /\ Len(inbox) + 1 \in DOMAIN inbox' /\ inbox'[Len(inbox) + 1] = m
      BY <1>0, <2>2
    <2>4. \A j \in Round : j # i => amt'[j] = amt[j]
      BY <1>4 DEF Device, Lme!Amt, Lme!AmtConfirms, Lme!AmtAnswers, ChannelType
    <2>5. Lme!AmtConfirms(i) \/ amt[i].state = "open" BY <1>4 DEF Device, Lme!Amt, Lme!AmtAnswers
    <2> QED BY <1>0, <2>1, <2>2, <2>3, <2>4, <2>5 DEF Underway, Asked, Sent, Held
  <1> QED BY <1>1, <1>2, <1>3, <1>4 DEF LmeStep, LmeReader, Lme!ReaderGoroutine

LEMMA CountStep ==
    ASSUME IInv, Undisturbed, CountInv, [Next]_vars, Undisturbed'
    PROVE  CountInv'
  <1> USE Before
  <1>0. Smooth /\ failed = {} /\ "nodevice" \notin faults /\ failed' = {} BY DEF Undisturbed, Smooth
  <1>1. CASE Connect
    <2>1. main = "connect" /\ cur' = cur /\ cur \in Round /\ wg = 0
      BY <1>0, <1>1 DEF Connect, Goto, InRoundTrip, CountInv
    <2>2. ~Lme!RetryOpen BY <1>0 DEF Lme!RetryOpen
    <2>3. main' = "open" /\ Lme!OpenChannel(cur) BY <1>0, <1>1, <2>2 DEF Connect, Goto
    <2>4. Asked(cur)' BY <1>0, <2>1, <2>3 DEF Lme!OpenChannel, Asked, Lme!NoChannel, ChannelType
    <2> QED BY <2>1, <2>3, <2>4 DEF Lme!OpenChannel, CountInv, Underway
  <1>2. CASE LmeStep
    <2>1. main' = main /\ cur' = cur BY <1>2 DEF LmeStep, LmeReader, LmeTimer, Device, callerVars
    <2>2. ASSUME NEW i \in Round, Lme!ProcessConfirmation(i) PROVE CountInv'
      <3>1. Held(i) /\ wg' = wg - 1 BY <2>2 DEF Lme!ProcessConfirmation, Held
      <3>2. main = "open" /\ wg > 0 BY <3>1 DEF IInv, ConfirmationInv, Owed
      <3>3. wg' = 0 BY <3>1, <3>2 DEF CountInv
      <3> QED BY <3>3 DEF CountInv
    <2>3. CASE \A i \in Round : ~Lme!ProcessConfirmation(i)
      <3>1. wg' = wg
        BY <1>2, <2>3 DEF LmeStep, LmeReader, LmeTimer, Device, Lme!ReaderGoroutine, Lme!TimerGoroutine, Lme!Amt,
           Lme!ReaderReceives, Lme!ReaderEnds, Lme!LoadTempdata, Lme!ProcessData, Lme!TimerStarts, Lme!TimerFires,
           Lme!TimerClears, Lme!TimerCloses, Lme!AmtConfirms, Lme!AmtAnswers
      <3>2. main = "open" /\ Underway(cur) => Underway(cur)' BY <1>0, <1>2, <2>3, UnderwayStep
      <3> QED BY <2>1, <3>1, <3>2 DEF CountInv
    <2> QED BY <2>2, <2>3
  <1>3. CASE WaitForChannel \/ Send \/ (\E i \in Round : Receive(i)) \/ StartRequest \/ NewLocalTransport
    <2>1. wg' = wg
      BY <1>3 DEF WaitForChannel, Send, Receive, StartRequest, NewLocalTransport, Lme!Initialize, Lme!SendPayload,
         Lme!SendPayloadFails, Lme!HandOver, Lme!lmeVars, lmeVars
    <2>2. main' # "open" /\ wg = 0
      BY <1>3 DEF WaitForChannel, Lme!Confirmed, Send, Receive, StartRequest, NewLocalTransport, Goto, CountInv
    <2> QED BY <2>1, <2>2 DEF CountInv
  <1>4. CASE UNCHANGED lmeVars /\ (UNCHANGED callerVars \/ Exit)
    <2>1. UNCHANGED <<wg, amt, inbox, held, reader>> BY <1>4 DEF lmeVars
    <2>2. cur' = cur /\ (main' = main \/ (main = "idle" /\ main' = "exited"))
      BY <1>4 DEF callerVars, Exit, Goto
    <2>3. Underway(cur) => Underway(cur)' BY <2>1, <2>2 DEF Underway, Asked, Sent, Held
    <2> QED BY <2>1, <2>2, <2>3 DEF CountInv
  <1> QED BY <1>1, <1>2, <1>3, <1>4 DEF Next, RoundTrip, vars, LmeStep, Exit

LEMMA WaitStep ==
    ASSUME IInv, Undisturbed, CountInv, WaitInv, [Next]_vars, Undisturbed'
    PROVE  WaitInv'
  <1> USE Before
  <1>0. Smooth /\ failed = {} /\ failed' = {} BY DEF Undisturbed, Smooth
  <1>1. CASE Send
    <2>1. /\ main = "send" /\ main' = "wait" /\ cur' = cur /\ Lme!SendPayload(cur)
          /\ UNCHANGED <<fd, timer, sender>>
      BY <1>0, <1>1 DEF Send, Goto, Lme!SendPayload
    <2>2. cur \in Round /\ sender = cur /\ cur # 0 /\ Collecting
      BY <1>0, <2>1 DEF InRoundTrip, IInv, OwnChannel, QuietInv, Round
    <2>3. amt[cur].state = "open"
      <3>1. ~Asked(cur) BY <2>1, <2>2 DEF IInv, ConfirmationInv, Owed
      <3> QED BY <1>0, <2>2, <3>1 DEF CollectInv, Asked
    <2>4. amt' = [amt EXCEPT ![cur] = [amt[cur] EXCEPT !.req = cur]]
      BY <2>1, <2>2, <2>3 DEF Lme!SendPayload
    <2>5. amt'[cur] = [amt[cur] EXCEPT !.req = cur] BY <1>0, <2>2, <2>4 DEF ChannelType
    <2>6. amt'[cur].state = "open" /\ amt'[cur].req = cur BY <1>0, <2>2, <2>3, <2>5 DEF ChannelType, Channels
    <2> QED BY <2>1, <2>2, <2>6 DEF WaitInv, Asking, Collecting
  <1>2. ASSUME NEW i \in Round, Receive(i) PROVE WaitInv'
    <2>1. main = "wait" /\ timer[i] = "sending" /\ (snap[i] # <<>> => main' # "wait")
      BY <1>2 DEF Receive, Lme!HandOver
    <2>2. i = cur BY <1>0, <2>1 DEF TimersInv, Lme!Pending
    <2>3. snap[i] = Answer(i) BY <2>1, <2>2 DEF WaitInv, Asking, Collecting
    <2>4. Answer(i) # <<>>
      <3>1. DOMAIN Answer(i) = 1..Parts BY DEF Answer
      <3>2. 1 \in 1..Parts OBVIOUS
      <3>3. DOMAIN <<>> = {} OBVIOUS
      <3> QED BY <3>1, <3>2, <3>3
    <2> QED BY <2>1, <2>3, <2>4 DEF WaitInv
  <1>3. ASSUME main = "wait", main' = "wait", cur' = cur, NEW i \in Round, LmeTimer(i) PROVE WaitInv'
    <2>0. Asking \/ (timer[cur] = "sending" /\ snap[cur] = Answer(cur)) BY <1>3 DEF WaitInv
    <2>1. CASE Lme!TimerStarts(i)
      BY <1>0, <1>3, <2>0, <2>1 DEF Lme!TimerStarts, ChannelType, WaitInv, Asking, Collecting
    <2>2. CASE Lme!TimerFires(i, Waiting)
      <3>1. /\ timer[i] = "armed" /\ timer' = [timer EXCEPT ![i] = "sending"]
            /\ snap' = [snap EXCEPT ![i] = temp] /\ Lme!Settled
            /\ "late" \in faults \/ fd = "closed" \/ tref # i \/ (Waiting /\ (Lme!Delivered \/ Lme!Deaf))
        BY <2>2 DEF Lme!TimerFires
      <3>2. i = cur /\ tref = i /\ fd = "open" /\ "late" \notin faults
        BY <1>0, <1>3, <3>1 DEF TimersInv, Lme!Pending, InTime
      <3>4. Asking BY <2>0, <3>1, <3>2
      <3>d. ~Lme!Deaf
        <4>1. \E j \in Round : reader[j] \in {"receiving", "processing", "appending"}
          BY <1>0, <3>2, <3>4 DEF HeardInv, Asking, Collecting, InRoundTrip, InTime
        <4> QED BY <4>1 DEF Lme!Deaf
      <3>3. Lme!Delivered BY <3>1, <3>2, <3>d
      <3>5. amt[cur].given = Parts BY <3>2, <3>3, <3>4 DEF Lme!Delivered, Asking, Round
      <3>6. ~Flying BY <3>3 DEF Lme!Delivered, Flying, InInbox, InHand, Busy, Lme!Processing
      <3>7. ~Clearing BY <3>1 DEF Lme!Settled, Lme!Processing, Clearing
      <3>8. temp = Prefix(Parts) BY <1>0, <3>4, <3>5, <3>6, <3>7 DEF Asking, CollectInv, Collected
      <3>9. timer'[cur] = "sending" /\ snap'[cur] = Answer(cur)
        BY <1>0, <3>1, <3>2, <3>8, Prefixes DEF ChannelType
      <3> QED BY <1>3, <3>9 DEF WaitInv, Answer
    <2>3. CASE Lme!TimerClears(i) \/ Lme!TimerCloses(i)
      <3>1. /\ timer[i] \in {"clearing", "closing"} /\ snap' = snap
            /\ \A j \in Round : j # i => timer'[j] = timer[j]
        BY <1>0, <2>3 DEF Lme!TimerClears, Lme!TimerCloses, ChannelType
      <3>2. Collecting => Asked(cur) BY <1>0, <3>1 DEF CollectInv, Finishing
      <3>3. ~Asking BY <3>2 DEF Asking, Asked
      <3>4. timer[cur] = "sending" /\ snap[cur] = Answer(cur) /\ cur \in Round BY <1>0, <1>3, <2>0, <3>3 DEF InRoundTrip
      <3> QED BY <1>3, <3>1, <3>4 DEF WaitInv, Answer
    <2> QED BY <1>3, <2>1, <2>2, <2>3 DEF LmeTimer, Lme!TimerGoroutine
  <1>4. ASSUME NEW i \in Round, LmeReader(i) PROVE WaitInv'
    <2>1. UNCHANGED <<main, cur, timer, snap, amt>>
      BY <1>4 DEF LmeReader, callerVars, Lme!ReaderGoroutine, Lme!ReaderReceives, Lme!ReaderEnds,
         Lme!ProcessConfirmation, Lme!LoadTempdata, Lme!ProcessData
    <2> QED BY <2>1 DEF WaitInv, Asking, Collecting, Answer
  <1>5. ASSUME main = "wait", NEW i \in Round, Device(i) PROVE WaitInv'
    <2>1. UNCHANGED <<main, cur, timer, snap>>
      BY <1>5 DEF Device, callerVars, Lme!Amt, Lme!AmtConfirms, Lme!AmtAnswers
    <2>2. ~Lme!AmtConfirms(i)
      <3>1. ~Asked(i) BY <1>5 DEF IInv, ConfirmationInv, Owed
      <3> QED BY <3>1 DEF Lme!AmtConfirms, Asked
    <2>3. amt' = [amt EXCEPT ![i] = [amt[i] EXCEPT !.given = amt[i].given + 1]]
      BY <1>5, <2>2 DEF Device, Lme!Amt, Lme!AmtAnswers
    <2>4. \A j \in Round : amt'[j] = amt[j] \/ amt'[j] = [amt[j] EXCEPT !.given = amt[j].given + 1]
      BY <1>0, <2>3 DEF ChannelType
    <2>5. \A j \in Round : amt'[j].state = amt[j].state /\ amt'[j].req = amt[j].req
      <3>1. ASSUME NEW c \in Channels, NEW n PROVE [c EXCEPT !.given = n].state = c.state /\ [c EXCEPT !.given = n].req = c.req
        BY DEF Channels
      <3>2. ASSUME NEW j \in Round PROVE amt'[j].state = amt[j].state /\ amt'[j].req = amt[j].req
        <4>1. amt[j] \in Channels BY <1>0 DEF ChannelType
        <4>2. [amt[j] EXCEPT !.given = amt[j].given + 1].state = amt[j].state BY <3>1, <4>1
        <4>3. [amt[j] EXCEPT !.given = amt[j].given + 1].req = amt[j].req BY <3>1, <4>1
        <4> QED BY <2>4, <4>2, <4>3, Zenon
      <3> QED BY <3>2
    <2>6. cur \in Round BY <1>0, <1>5 DEF InRoundTrip
    <2> QED BY <2>1, <2>5, <2>6 DEF WaitInv, Asking, Collecting, Answer
  <1>6. CASE main' # "wait" BY <1>6 DEF WaitInv
  <1>7. CASE UNCHANGED vars
    BY <1>7 DEF vars, callerVars, lmeVars, WaitInv, Asking, Collecting, Answer
  <1> QED
    <2>1. CASE main' = "wait"
      <3>1. \/ Send \/ (\E i \in Round : Receive(i) \/ LmeReader(i)) \/ UNCHANGED vars
            \/ main = "wait" /\ cur' = cur /\ \E i \in Round : LmeTimer(i) \/ Device(i)
        BY <2>1 DEF Next, RoundTrip, NewLocalTransport, StartRequest, Connect, WaitForChannel, Exit, Goto, LmeTimer,
           Device, callerVars
      <3> QED BY <1>1, <1>2, <1>3, <1>4, <1>5, <1>7, <2>1, <3>1
    <2> QED BY <1>6, <2>1

LEMMA ServedStep == ASSUME IInv, ServedInv, [Next]_vars PROVE ServedInv'
  <1>1. Undisturbed' => Undisturbed BY FaultsStay, FailedMoves DEF Undisturbed, Smooth, InTime
  <1> QED BY <1>1, CountStep, WaitStep DEF ServedInv

-----------------------------------------------------------------------------
(* Theorems. *)

LEMMA InvInit == Init => IInv
  <1> SUFFICES ASSUME Init PROVE IInv
    OBVIOUS
  <1>1. Lme!LmeTypeOK
    <2>1. snap \in [Round -> Seq(Part)] /\ temp \in Seq(Part) BY DEF Init, Lme!LmeInit
    <2>2. retries = 0 /\ \E i \in Round \cup {0} : retries <= i + 2 BY DEF Init, Lme!LmeInit
    <2>3. timer \in [Round -> Lme!TimerPcs] /\ reader \in [Round -> ReaderPcs]
      BY DEF Init, Lme!LmeInit, Lme!TimerPcs, ReaderPcs
    <2>4. amt \in [Round -> Channels]
      BY DEF Init, Lme!LmeInit, Lme!NoChannel, Channels
    <2>5. inbox \in Seq([channel : Round, of : Round \cup {0}, part : 0..Parts]) BY DEF Init, Lme!LmeInit
    <2>6. faults \in FaultSets /\ fd = "closed" /\ wg = 0 /\ sender = 0 /\ tref = 0 BY DEF Init, Lme!LmeInit
    <2>7. loaded \in [Round -> Seq(Part)] BY DEF Init, Lme!LmeInit
    <2>8. raced \in BOOLEAN BY Zenon DEF Init, Lme!LmeInit
    <2> QED BY <2>1, <2>2, <2>3, <2>4, <2>5, <2>6, <2>7, <2>8, LmeType DEF ChannelType
  <1>2. TypeOK
    <2>1. main = "new" /\ cur = 0 /\ failed = {} /\ responses = [i \in Round |-> <<>>] BY DEF Init
    <2>2. responses \in [Round -> Seq(Round \X (1..Parts))] /\ \A i \in Round : responses[i] = <<>> BY <2>1
    <2> QED BY <1>1, <2>1, <2>2 DEF TypeOK
  <1>3. MessagesInv
    <2>1. inbox = <<>> /\ reader = [i \in Round |-> "none"] /\ held = [i \in Round |-> Lme!Apf(0, 0, 0)]
      BY DEF Init, Lme!LmeInit
    <2> QED BY <2>1 DEF MessagesInv, Lme!Processing
  <1>4. HandlingInv /\ ChannelInv /\ OwnChannel
    BY DEF Init, Lme!LmeInit, HandlingInv, InRoundTrip, ChannelInv, OwnChannel
  <1>5. ConfirmationInv
    BY DEF Init, Lme!LmeInit, Lme!NoChannel, ConfirmationInv, Asked, Sent, Held
  <1>6. HeardInv /\ AmtInv
    BY DEF Init, Lme!LmeInit, Lme!NoChannel, HeardInv, AmtInv, Asked
  <1>7. OneMessage BY DEF Init, Lme!LmeInit, OneMessage, Busy, Lme!Processing
  <1>8. FirstInv
    <2>1. TimersInv BY DEF Init, Lme!LmeInit, TimersInv, Lme!Pending
    <2>2. QuietInv BY DEF Init, Lme!LmeInit, Lme!NoChannel, QuietInv, Asked, Busy, Lme!Processing
    <2>3. CollectInv
      BY DEF Init, Lme!LmeInit, CollectInv, InInbox, InHand, Busy, Lme!Processing, Collecting
    <2>4. LoadedInv BY DEF Init, Lme!LmeInit, LoadedInv
    <2> QED BY <2>1, <2>2, <2>3, <2>4 DEF FirstInv
  <1>9. OwnResponse
    <2>1. \A i \in Round : ~Returned(i) /\ responses[i] = <<>> BY DEF Init, Returned, Round
    <2> QED BY <2>1 DEF OwnResponse
  <1> QED BY <1>2, <1>3, <1>4, <1>5, <1>6, <1>7, <1>8, <1>9 DEF IInv

LEMMA InvStep == ASSUME IInv, [Next]_vars PROVE IInv'
  <1>1. TypeOK' /\ MessagesInv' /\ HandlingInv' /\ ConfirmationInv' /\ ChannelInv' /\ OwnChannel'
    BY TypeStep, MessagesStep, HandlingStep, ConfirmationStep, ChannelStep DEF IInv
  <1>2. HeardInv' /\ ("read" \notin faults' => OneMessage') /\ AmtInv'
    BY HeardStep, OneMessageStep, AmtStep, FaultsStay DEF IInv
  <1> QED BY <1>1, <1>2, FirstStep, ResponseStep DEF IInv

(* The inductive invariant holds in every reachable state: with an AMT in    *)
(* time and reads that succeed, until a request fails the buffer holds what  *)
(* AMT has sent for the request at hand (localTransport.go:45) and its timer *)
(* runs while anything is owed.                                              *)
THEOREM Invariant == Spec => []IInv
  BY InvInit, InvStep, PTL DEF Spec

(* Every reachable state is well typed; this is the run's invariant TypeOK.  *)
THEOREM TypeCorrect == Spec => []TypeOK
  <1>1. IInv => TypeOK BY DEF IInv
  <1> QED BY Invariant, <1>1, PTL

(* A request is sent on the channel that was opened for it                   *)
(* (localTransport.go:62), also after requests that failed.                  *)
THEOREM ChannelIsOwn == Spec => []OwnChannel
  <1>1. IInv => OwnChannel BY DEF IInv
  <1> QED BY Invariant, <1>1, PTL

(* With an AMT that answers within the two seconds of engine.go:150 and      *)
(* reads that succeed (engine.go:168), until a request fails RoundTrip       *)
(* returns AMT's whole answer to the request it was called with, from one    *)
(* buffer and one timer field for all (localTransport.go:84).                *)
THEOREM ResponseIsOwn == Spec => []OwnResponse
  <1>1. IInv => OwnResponse BY DEF IInv
  <1> QED BY Invariant, <1>1, PTL

(* RoundTrip waits twice without a timeout, for the wait group               *)
(* (localTransport.go:63) and in the select (:84).  As long as no request    *)
(* has failed, the device is there, AMT is in time and reads succeed, what   *)
(* it waits for is always to come: the one confirmation, and a timer that    *)
(* will hand over the whole answer.                                          *)
THEOREM WaitIsServed == Spec => []ServedInv
  <1>1. Init => ServedInv BY DEF Init, Lme!LmeInit, ServedInv, CountInv, WaitInv
  <1>2. IInv /\ ServedInv /\ [Next]_vars => ServedInv' BY ServedStep
  <1> QED BY Invariant, <1>1, <1>2, PTL DEF Spec
=============================================================================
