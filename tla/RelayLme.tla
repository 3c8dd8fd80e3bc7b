----------------------------- MODULE RelayLme -----------------------------
(***************************************************************************)
(* A remote (RPS) session relayed over LME, when LMS is not installed: the *)
(* main goroutine of internal/rps/executor.go with isLME set, over         *)
(* LmeChannel.  The session keeps one driver handle, opened by NewExecutor *)
(* and closed when MakeItSo returns.                                       *)
(***************************************************************************)
EXTENDS RpsSession

CONSTANTS FaultSets,  \* what the device may do wrong, see LmeChannel
          Slow        \* goroutines are faster than the device and the timers

ASSUME FaultsAssumption ==
    FaultSets \subseteq SUBSET {"nodevice", "open", "write", "read", "late"}
ASSUME SlowAssumption == Slow \in BOOLEAN

VARIABLES faults, fd, wg, retries, sender, temp, loaded, raced, tref, inbox, reader_, held,
          timer, snap, amt

Lme == INSTANCE LmeChannel WITH Round <- MsgId, reader <- reader_

lmeVars == <<faults, fd, wg, retries, sender, temp, loaded, raced, tref, inbox, reader_, held,
             timer, snap, amt>>
vars == <<linkVars, mainVars, lmeVars>>

TypeOK == LinkTypeOK /\ MainTypeOK /\ Lme!LmeTypeOK

Init == MainInit /\ Lme!LmeInit

-----------------------------------------------------------------------------
\* NewExecutor, after the dial of LMS failed: an error of Initialize is ignored.
UseLme ==
    /\ Goto("probe", "dial")
    /\ Lme!Initialize(TRUE) \/ ("open" \in faults /\ Lme!Initialize(FALSE))
    /\ UNCHANGED <<linkVars, cur, data, interrupt, chClosed, panic>>

\* Mutant: after a failed Connect the session goes on.
ConnectLme_GoesOn ==
    /\ \/ Goto("connect", "open") /\ Lme!OpenChannel(cur)
       \/ Goto("connect", "connect") /\ Lme!RetryOpen
       \/ Goto("connect", "select") /\ Lme!FailOpen(cur)
    /\ UNCHANGED <<linkVars, cur, data, interrupt, chClosed, panic>>

\* Connect; "go Listen()" runs whether or not it succeeded.
ConnectLme ==
    /\ \/ Goto("connect", "open") /\ Lme!OpenChannel(cur)
       \/ Goto("connect", "connect") /\ Lme!RetryOpen
       \/ Goto("connect", "shutdown") /\ Lme!FailOpen(cur)
    /\ UNCHANGED <<linkVars, cur, data, interrupt, chClosed, panic>>

\* Mutant: the handler does not wait for the channel's confirmation.
WaitForChannel_Not ==
    /\ Goto("open", "send")
    /\ UNCHANGED <<linkVars, cur, data, interrupt, chClosed, panic, lmeVars>>

\* e.waitGroup.Wait()
WaitForChannel ==
    /\ Lme!Confirmed
    /\ Goto("open", "send")
    /\ UNCHANGED <<linkVars, cur, data, interrupt, chClosed, panic, lmeVars>>

SendLme ==
    /\ \/ Goto("send", "wait") /\ Lme!SendPayload(cur)
       \/ Goto("send", "shutdown") /\ Lme!SendPayloadFails
    /\ UNCHANGED <<linkVars, cur, data, interrupt, chClosed, panic>>

ReceiveFromLme(i) ==
    /\ Goto("wait", "forward")
    /\ Lme!HandOver(i)
    /\ data' = snap[i]
    /\ UNCHANGED <<linkVars, cur, interrupt, chClosed, panic>>

\* The second Wait of HandleDataFromRPS.
WaitAgain ==
    /\ Lme!Confirmed
    /\ Goto("hangup", "select")
    /\ UNCHANGED <<linkVars, cur, data, interrupt, chClosed, panic, lmeVars>>

\* The Close MakeItSo deferred.
CleanUp ==
    /\ Goto("cleanup", "done")
    /\ Lme!CloseLme
    /\ UNCHANGED <<linkVars, cur, data, interrupt, chClosed, panic>>

\* The panics of the two goroutines of Listen.
GoroutinePanics(i) ==
    /\ \/ Lme!NilTimer(i) /\ Crash("nil_timer")
       \/ timer[i] = "sending" /\ chClosed /\ Crash("send_on_closed")
    /\ UNCHANGED <<linkVars, main, cur, data, interrupt, chClosed, lmeVars>>

-----------------------------------------------------------------------------
MainStep ==
    \/ SessionStep /\ UNCHANGED lmeVars
    \/ UseLme \/ ConnectLme \/ WaitForChannel \/ SendLme
    \/ (\E i \in MsgId : ReceiveFromLme(i)) \/ WaitAgain \/ CleanUp

Environment ==
    \/ Peer /\ UNCHANGED <<mainVars, lmeVars>>
    \/ (UserInterrupts \/ Exit) /\ UNCHANGED lmeVars

RpsReader == ReaderStep /\ UNCHANGED <<mainVars, lmeVars>>

\* The main goroutine is not about to send a payload.
Waiting == main # "send" /\ (main = "open" => ~Lme!Confirmed)

LmeReader(i) == Lme!ReaderGoroutine(i) /\ UNCHANGED <<linkVars, mainVars>>
LmeTimer(i) == Lme!TimerGoroutine(i, Waiting) /\ UNCHANGED <<linkVars, mainVars>>
Device(i) == Lme!Amt(i) /\ UNCHANGED <<linkVars, mainVars>>

Next ==
    \/ Alive /\ (MainStep \/ RpsReader \/ Environment)
    \/ Alive /\ \E i \in MsgId : LmeReader(i) \/ LmeTimer(i) \/ Device(i) \/ GoroutinePanics(i)
    \/ ~Alive /\ UNCHANGED vars

(***************************************************************************)
(* Goroutines and timers as in RelayLms.  AMT confirms the channels it is  *)
(* asked for and answers: Wait has no timeout, so nothing else would let   *)
(* the handler go on.                                                      *)
(***************************************************************************)
Fairness ==
    /\ WF_vars(Alive /\ MainStep)
    /\ WF_vars(Alive /\ RpsReader)
    /\ \A i \in MsgId :
        /\ WF_vars(Alive /\ (LmeReader(i) \/ GoroutinePanics(i)))
        /\ WF_vars(Alive /\ LmeTimer(i))
        /\ WF_vars(Alive /\ Device(i))

Spec == Init /\ [][Next]_vars
FairSpec == Spec /\ Fairness

-----------------------------------------------------------------------------
(* Properties. *)

(* Each request is handed exactly one buffer, whatever the goroutines'        *)
(* order, the device's errors and its delays: when the next one is taken no  *)
(* timer goroutine of an earlier request has still to send on e.data, so     *)
(* that the handler never gets the buffer of another request's timer; and    *)
(* the receive from e.data, which has no timeout, always has a timer         *)
(* goroutine left that will send.                                            *)
OneHandOver ==
    /\ \A i \in MsgId : Lme!Pending(i) =>
        i = cur /\ main \in {"open", "send", "wait", "shutdown", "cleanup", "done", "exited"}
    /\ main \in {"open", "send", "wait"} => Lme!Pending(cur)

(* "wait for channel open confirmation" (executor.go:156): the payload goes  *)
(* out on the channel that was opened for it.                                *)
OwnChannel == main = "send" => sender = cur

(* Done is never called on a wait group whose counter is 0 (which panics):   *)
(* each confirmation has an Add of its own, also after retries.  And unless  *)
(* there were retries each Add has a confirmation of its own, which AMT owes *)
(* or which is under way: Wait, which has no timeout, returns.               *)
Underway(c) ==
    \/ amt[c].state = "asked"
    \/ \E k \in DOMAIN inbox : inbox[k].part = 0 /\ inbox[k].channel = c
    \/ \E i \in MsgId : reader_[i] = "processing" /\ held[i].part = 0 /\ held[i].channel = c
ConfirmationsAwaited ==
    /\ \A i \in MsgId : ~Lme!NegativeCounter(i)
    /\ "nodevice" \notin faults /\ main = "open" /\ wg > 0 => wg = 1 /\ Underway(cur)

(* What AMT answers late ends up in the response to a later request, but     *)
(* nothing is sent twice and nothing is sent out of order: the responses,    *)
(* put together, hold parts in the order AMT gave them.  Where the close     *)
(* message of a channel was lost (engine.go:164) two are open, and only the  *)
(* parts of the same answer are in order.  The one exception to that is an   *)
(* append to Tempdata, which has no lock (engine.go:155, :174), that undoes  *)
(* what was done between its load and its store.                             *)
Before(p, q) == p[1] < q[1] \/ (p[1] = q[1] /\ p[2] < q[2])
ForwardedInOrder ==
    ~raced =>
    \A i, j \in DOMAIN sent : \A k \in DOMAIN sent[i].body, l \in DOMAIN sent[j].body :
        i < j \/ (i = j /\ k < l) =>
            \/ Before(sent[i].body[k], sent[j].body[l])
            \/ "write" \in faults /\ sent[i].body[k][1] # sent[j].body[l][1]

(* As long as every write to the device succeeds no delay of AMT, no read    *)
(* that fails and no interleaving of the goroutines makes rpc panic, but     *)
(* one: an answer comes before the goroutine that makes the first timer has  *)
(* run at all.  A goroutine that is as fast as Slow says is not overtaken.   *)
NoPanicFromDelays ==
    faults \subseteq {"read", "late"} =>
        \/ panic = "none"
        \/ panic = "nil_timer" /\ ~Slow /\ tref = 0 /\ timer[cur] = "spawned"

(* With an AMT that answers in time, and reads of the driver that succeed,   *)
(* the session keeps what Relay promises to RPS, also when writes to the     *)
(* driver fail; a late AMT's answers go to later messages, see               *)
(* ForwardedInOrder, and a reader that ends early leaves an answer cut.      *)
KeepsPromiseInTime ==
    /\ faults \cap {"read", "late"} = {} => Promise!Init
    /\ [][ faults \cap {"read", "late"} = {} => Promise!Next ]_(Promise!vars)

(* A request that was taken leads back to the select or to the end, although *)
(* neither Wait nor the receive from e.data has a timeout; but for a         *)
(* confirmation nobody reads, when reads of the driver failed and every      *)
(* reader, of this request and of the earlier ones, has ended with them.     *)
Handling == {"connect", "open", "send", "wait", "forward", "hangup"}
Unheard == "read" \in faults /\ main = "open" /\ Lme!Deaf
HandlerReturnsIfHeard == main \in Handling ~> main = "select" \/ Ended \/ Unheard

(* engine.go:84 "retry connection/initialization to device if it doesn't     *)
(* respond": after a retry the handler sends its payload or gives up.  The   *)
(* code has called WaitGroup.Add for the failed attempt too, and waits for a *)
(* second confirmation that never comes.                                     *)
RetryRecovers == retries > 0 ~> main = "wait" \/ Ended
=============================================================================
