---------------------------- MODULE LmeChannel ----------------------------
(***************************************************************************)
(* The LME transport, internal/lm/engine.go: an APF session over the HECI  *)
(* driver.  Each request opens a channel (Connect) and starts Listen: a    *)
(* goroutine that reads the driver, and one that waits on a two-second     *)
(* timer and then hands what was collected in Session.Tempdata to the      *)
(* caller, clears Tempdata and closes the channel.                         *)
(*                                                                         *)
(* Channels and goroutines are numbered by the request they serve; the     *)
(* code counts channels modulo 32.  Every message of AMT is delivered once *)
(* and in order, to whichever reader reads it.  External: AMT, and the     *)
(* library's apf.Process, modelled by how this file uses the session (a    *)
(* confirmation sets SenderChannel and calls WaitGroup.Done, channel data  *)
(* is appended to Tempdata and resets the timer; window adjustments and    *)
(* close messages change nothing here; what it makes of a refused channel  *)
(* cannot be seen from this code and is left out).                         *)
(*                                                                         *)
(* Faults:                                                                 *)
(*   "nodevice"  an APF_CHANNEL_OPEN fails with "no such device";          *)
(*   "open"      opening the driver fails, the first time or again;        *)
(*   "write"     another write to the driver fails;                        *)
(*   "read"      a read of the driver fails or gives nothing;              *)
(*   "late"      AMT takes more than two seconds for a part.               *)
(* Slow: a goroutine that can run does so before the device answers or a   *)
(* timer of two seconds runs out.                                          *)
(*                                                                         *)
(* Tempdata has no lock.  The append of a reader is a load and a store,    *)
(* and what other goroutines do to it in between is undone; that bytes of  *)
(* the two can also mix is left out, as is a timer goroutine that finds    *)
(* the timer of a later request in Session.Timer when it starts to wait.   *)
(***************************************************************************)
EXTENDS Naturals, Sequences

CONSTANTS Round,      \* the requests, 1..n
          Parts,      \* bound: parts of an AMT answer
          FaultSets,  \* what may go wrong: each behaviour draws one of these sets
          Slow

VARIABLES
    faults,   \* what may go wrong in this behaviour
    fd,       \* the driver's handle: "closed" | "open"
    wg,       \* the counter of the wait group
    retries,  \* LMEConnection.retries
    sender,   \* Session.SenderChannel, 0 before the first confirmation
    temp,     \* Session.Tempdata
    loaded,   \* loaded[i]: what reader i found there and appends to
    raced,    \* an append has undone what another goroutine did (history)
    tref,     \* Session.Timer: the request it was made for, 0 for nil
    inbox,    \* what AMT has sent and nobody has read
    reader,   \* reader[i]: "none" | "receiving" | "processing" | "appending" | "done"
    held,     \* held[i]: the message reader i processes
    timer,    \* timer[i]: where the timer's goroutine is
    snap,     \* snap[i]: what it hands over
    amt       \* amt[i]: the channel on AMT's side

lmeVars == <<faults, fd, wg, retries, sender, temp, loaded, raced, tref, inbox, reader, held,
             timer, snap, amt>>

\* A message of AMT: a confirmation (part 0) or a part of an answer.
Apf(channel, of, part) == [channel |-> channel, of |-> of, part |-> part]

TimerPcs == {"none", "spawned", "armed", "sending", "clearing", "closing", "stopped", "done"}
NoChannel == [state |-> "none", req |-> 0, given |-> 0]

LmeTypeOK ==
    LET Part == Round \X (1..Parts) IN
    /\ faults \in FaultSets
    /\ fd \in {"open", "closed"} /\ wg \in Nat
    /\ retries \in Nat /\ \E i \in Round \cup {0} : retries <= i + 2
    /\ sender \in Round \cup {0} /\ tref \in Round \cup {0}
    /\ temp \in Seq(Part) /\ loaded \in [Round -> Seq(Part)] /\ raced \in BOOLEAN
    /\ inbox \in Seq([channel : Round, of : Round \cup {0}, part : 0..Parts])
    /\ reader \in [Round -> {"none", "receiving", "processing", "appending", "done"}]
    /\ timer \in [Round -> TimerPcs]
    /\ snap \in [Round -> Seq(Part)]
    /\ amt \in [Round -> [state : {"none", "asked", "open", "closed"},
                          req : Round \cup {0}, given : 0..Parts]]

LmeInit ==
    /\ faults \in FaultSets
    /\ fd = "closed" /\ wg = 0 /\ retries = 0
    /\ sender = 0 /\ tref = 0 /\ inbox = <<>>
    /\ temp = <<>> /\ loaded = [i \in Round |-> <<>>] /\ raced = FALSE
    /\ reader = [i \in Round |-> "none"]
    /\ held = [i \in Round |-> Apf(0, 0, 0)]
    /\ timer = [i \in Round |-> "none"]
    /\ snap = [i \in Round |-> <<>>]
    /\ amt = [i \in Round |-> NoChannel]

-----------------------------------------------------------------------------
(* Calls of the caller's goroutine.  The caller starts Listen(i) itself. *)

Initialize(ok) ==
    /\ fd' = (IF ok THEN "open" ELSE "closed")
    /\ UNCHANGED <<faults, wg, retries, sender, temp, loaded, raced, tref, inbox, reader, held,
                   timer, snap, amt>>

\* Mutant: the timer's goroutine is not started.
Listen_NoTimer(i) ==
    /\ reader' = [reader EXCEPT ![i] = "receiving"]
    /\ UNCHANGED timer

Listen(i) ==
    /\ reader' = [reader EXCEPT ![i] = "receiving"]
    /\ timer' = [timer EXCEPT ![i] = "spawned"]

\* Mutant: WaitGroup.Add is left out.
OpenChannel_NoAdd(i) ==
    /\ fd = "open"
    /\ retries' = 0
    /\ amt' = [amt EXCEPT ![i] = [NoChannel EXCEPT !.state = "asked"]]
    /\ Listen(i)
    /\ UNCHANGED <<faults, fd, wg, sender, temp, loaded, raced, tref, inbox, held, snap>>

\* Mutant: WaitGroup.Add is called once more.
OpenChannel_AddTwice(i) ==
    /\ fd = "open"
    /\ wg' = wg + 2
    /\ retries' = 0
    /\ amt' = [amt EXCEPT ![i] = [NoChannel EXCEPT !.state = "asked"]]
    /\ Listen(i)
    /\ UNCHANGED <<faults, fd, sender, temp, loaded, raced, tref, inbox, held, snap>>

\* Connect succeeds: AMT gets the APF_CHANNEL_OPEN.
OpenChannel(i) ==
    /\ fd = "open"
    /\ wg' = wg + 1
    /\ retries' = 0
    /\ amt' = [amt EXCEPT ![i] = [NoChannel EXCEPT !.state = "asked"]]
    /\ Listen(i)
    /\ UNCHANGED <<faults, fd, sender, temp, loaded, raced, tref, inbox, held, snap>>

\* Mutant: the number of retries is not checked.
RetryOpen_Forever ==
    /\ fd = "open" /\ "nodevice" \in faults
    /\ retries' = retries + 1
    /\ wg' = wg + 1
    /\ inbox' = <<>>
    /\ reader' = [i \in Round |-> IF reader[i] = "receiving" THEN "done" ELSE reader[i]]
    /\ amt' = [i \in Round |-> NoChannel]
    /\ UNCHANGED <<faults, fd, sender, temp, loaded, raced, tref, held, timer, snap>>

(* The device is gone: up to twice Connect opens the driver again and starts *)
(* over.  WaitGroup.Add was already called and is called again.  Readers of  *)
(* the old handle get an error.                                              *)
RetryOpen ==
    /\ fd = "open" /\ "nodevice" \in faults
    /\ retries + 1 < 3
    /\ retries' = retries + 1
    /\ wg' = wg + 1
    /\ inbox' = <<>>
    /\ reader' = [i \in Round |-> IF reader[i] = "receiving" THEN "done" ELSE reader[i]]
    /\ amt' = [i \in Round |-> NoChannel]
    /\ UNCHANGED <<faults, fd, sender, temp, loaded, raced, tref, held, timer, snap>>

\* Connect gives up; Listen was started all the same.
FailOpen(i) ==
    /\ \/ fd = "closed" /\ UNCHANGED fd
       \/ "write" \in faults /\ UNCHANGED fd
       \/ "nodevice" \in faults /\ retries + 1 >= 3 /\ UNCHANGED fd
       \/ {"nodevice", "open"} \subseteq faults /\ retries + 1 < 3 /\ fd' = "closed"
    /\ wg' = wg + 1
    /\ retries' = retries + 1
    /\ Listen(i)
    /\ UNCHANGED <<faults, sender, temp, loaded, raced, tref, inbox, held, snap, amt>>

\* WaitGroup.Wait returns.
Confirmed == wg = 0

\* Send on the confirmed channel; AMT drops what comes on a closed one.
SendPayload(m) ==
    /\ fd = "open"
    /\ amt' = IF sender # 0 /\ amt[sender].state = "open"
              THEN [amt EXCEPT ![sender].req = m] ELSE amt
    /\ UNCHANGED <<faults, fd, wg, retries, sender, temp, loaded, raced, tref, inbox, reader,
                   held, timer, snap>>

SendPayloadFails ==
    /\ fd = "closed" \/ "write" \in faults
    /\ UNCHANGED lmeVars

\* The rendezvous with the goroutine of timer i.
HandOver(i) ==
    /\ timer[i] = "sending"
    /\ timer' = [timer EXCEPT ![i] = "clearing"]
    /\ UNCHANGED <<faults, fd, wg, retries, sender, temp, loaded, raced, tref, inbox, reader,
                   held, snap, amt>>

\* Close stops the timer Session.Timer refers to; a fired one is not affected.
CloseLme ==
    /\ fd' = "closed"
    /\ timer' = IF tref # 0 /\ timer[tref] = "armed"
                THEN [timer EXCEPT ![tref] = "stopped"] ELSE timer
    /\ UNCHANGED <<faults, wg, retries, sender, temp, loaded, raced, tref, inbox, reader, held,
                   snap, amt>>

-----------------------------------------------------------------------------
(* The reader goroutines. *)

ReaderReceives(i) ==
    /\ reader[i] = "receiving"
    /\ fd = "open" /\ inbox # <<>>
    /\ held' = [held EXCEPT ![i] = Head(inbox)]
    /\ inbox' = Tail(inbox)
    /\ reader' = [reader EXCEPT ![i] = "processing"]
    /\ UNCHANGED <<faults, fd, wg, retries, sender, temp, loaded, raced, tref, timer, snap,
                   amt>>

\* Receive fails or gives nothing: the reader ends, also on an open handle.
ReaderEnds(i) ==
    /\ reader[i] = "receiving"
    /\ fd = "closed" \/ "read" \in faults
    /\ reader' = [reader EXCEPT ![i] = "done"]
    /\ UNCHANGED <<faults, fd, wg, retries, sender, temp, loaded, raced, tref, inbox, held,
                   timer, snap, amt>>

ProcessConfirmation(i) ==
    /\ reader[i] = "processing" /\ held[i].part = 0 /\ wg > 0
    /\ sender' = held[i].channel
    /\ wg' = wg - 1
    /\ reader' = [reader EXCEPT ![i] = "receiving"]
    /\ UNCHANGED <<faults, fd, retries, temp, loaded, raced, tref, inbox, held, timer, snap,
                   amt>>

\* The append to Tempdata: its load, and its store.
LoadTempdata(i) ==
    /\ reader[i] = "processing" /\ held[i].part > 0 /\ tref # 0
    /\ loaded' = [loaded EXCEPT ![i] = temp]
    /\ reader' = [reader EXCEPT ![i] = "appending"]
    /\ UNCHANGED <<faults, fd, wg, retries, sender, temp, raced, tref, inbox, held, timer, snap,
                   amt>>

ProcessData(i) ==
    /\ reader[i] = "appending"
    /\ temp' = Append(loaded[i], <<held[i].of, held[i].part>>)
    /\ loaded' = [loaded EXCEPT ![i] = <<>>]
    /\ raced' = (raced \/ temp # loaded[i])
    /\ reader' = [reader EXCEPT ![i] = "receiving"]
    /\ UNCHANGED <<faults, fd, wg, retries, sender, tref, inbox, held, timer, snap, amt>>

\* Done on a counter of 0, or Reset of a timer that does not exist yet.
NegativeCounter(i) == reader[i] = "processing" /\ held[i].part = 0 /\ wg = 0
NilTimer(i) == reader[i] = "processing" /\ held[i].part > 0 /\ tref = 0

-----------------------------------------------------------------------------
(* The timer goroutines. *)

TimerStarts(i) ==
    /\ timer[i] = "spawned"
    /\ timer' = [timer EXCEPT ![i] = "armed"]
    /\ tref' = i
    /\ UNCHANGED <<faults, fd, wg, retries, sender, temp, loaded, raced, inbox, reader, held,
                   snap, amt>>

\* Reader i has a message; nobody reads any more.
Processing(i) == reader[i] \in {"processing", "appending"}
Deaf == \A i \in Round : reader[i] \in {"none", "done"}

\* Every goroutine has done what it can do.
Settled ==
    /\ \A i \in Round : timer[i] \notin {"spawned", "clearing", "closing"}
    /\ \A i \in Round : ~Processing(i) /\ (reader[i] = "receiving" => fd = "open" /\ inbox = <<>>)

\* AMT owes nothing: what it was asked for was given and has been processed.
Delivered ==
    /\ inbox = <<>> /\ \A i \in Round : ~Processing(i)
    /\ \A i \in Round : amt[i].state # "asked"
    /\ \A i \in Round : amt[i].state = "open" /\ amt[i].req # 0 => amt[i].given = Parts

(* The timer runs out, two seconds after the last part, and Tempdata is      *)
(* evaluated.  Unless AMT is late this is not while the caller, who takes    *)
(* less than that, has yet to send ("waiting" says that it has not).  A      *)
(* timer that Session.Timer no longer refers to is not reset by the parts.   *)
TimerFires(i, waiting) ==
    /\ timer[i] = "armed"
    /\ Slow => Settled
    /\ "late" \in faults \/ fd = "closed" \/ tref # i \/ (waiting /\ (Delivered \/ Deaf))
    /\ timer' = [timer EXCEPT ![i] = "sending"]
    /\ snap' = [snap EXCEPT ![i] = temp]
    /\ UNCHANGED <<faults, fd, wg, retries, sender, temp, loaded, raced, tref, inbox, reader,
                   held, amt>>

\* Mutant: Tempdata is not cleared.
TimerClears_Not(i) ==
    /\ timer[i] = "clearing"
    /\ timer' = [timer EXCEPT ![i] = "closing"]
    /\ UNCHANGED <<faults, fd, wg, retries, sender, temp, loaded, raced, tref, inbox, reader,
                   held, snap, amt>>

TimerClears(i) ==
    /\ timer[i] = "clearing"
    /\ temp' = <<>> /\ UNCHANGED <<loaded, raced>>
    /\ timer' = [timer EXCEPT ![i] = "closing"]
    /\ UNCHANGED <<faults, fd, wg, retries, sender, tref, inbox, reader, held, snap, amt>>

\* APF_CHANNEL_CLOSE for the channel SenderChannel names by now; an error of it
\* is dropped, and the channel stays open.
TimerCloses(i) ==
    /\ timer[i] = "closing"
    /\ timer' = [timer EXCEPT ![i] = "done"]
    /\ \/ fd = "open" /\ sender # 0 /\ amt' = [amt EXCEPT ![sender].state = "closed"]
       \/ (fd = "closed" \/ sender = 0 \/ "write" \in faults) /\ UNCHANGED amt
    /\ UNCHANGED <<faults, fd, wg, retries, sender, temp, loaded, raced, tref, inbox, reader,
                   held, snap>>

-----------------------------------------------------------------------------
(* AMT. *)

AmtConfirms(i) ==
    /\ fd = "open" /\ (Slow => Settled)
    /\ amt[i].state = "asked"
    /\ amt' = [amt EXCEPT ![i].state = "open"]
    /\ inbox' = Append(inbox, Apf(i, 0, 0))
    /\ UNCHANGED <<faults, fd, wg, retries, sender, temp, loaded, raced, tref, reader, held,
                   timer, snap>>

AmtAnswers(i) ==
    /\ fd = "open" /\ (Slow => Settled)
    /\ amt[i].state = "open" /\ amt[i].req # 0 /\ amt[i].given < Parts
    /\ amt' = [amt EXCEPT ![i].given = @ + 1]
    /\ inbox' = Append(inbox, Apf(i, amt[i].req, amt[i].given + 1))
    /\ UNCHANGED <<faults, fd, wg, retries, sender, temp, loaded, raced, tref, reader, held,
                   timer, snap>>

ReaderGoroutine(i) ==
    \/ ReaderReceives(i) \/ ReaderEnds(i) \/ ProcessConfirmation(i)
    \/ LoadTempdata(i) \/ ProcessData(i)
TimerGoroutine(i, waiting) ==
    TimerStarts(i) \/ TimerFires(i, waiting) \/ TimerClears(i) \/ TimerCloses(i)
Amt(i) == AmtConfirms(i) \/ AmtAnswers(i)

-----------------------------------------------------------------------------
(* Whoever still has to hand a buffer to the caller. *)
Pending(i) == timer[i] \in {"spawned", "armed", "sending"}
=============================================================================
