----------------------------- MODULE RelayLms -----------------------------
(***************************************************************************)
(* A remote (RPS) session relayed over the Local Manageability Service:    *)
(* the main goroutine of internal/rps/executor.go and the LMS connection   *)
(* of internal/lm/service.go.                                              *)
(*                                                                         *)
(* Every message that carries a payload opens a TCP connection to LMS      *)
(* (Connect), starts a goroutine that reads it (Listen), writes the        *)
(* payload (Send), waits on the unbuffered channel e.data, forwards what   *)
(* arrives to RPS and closes the connection.  Sockets and listeners are    *)
(* numbered by the RPS message they were opened for; socket Probe is the   *)
(* one NewExecutor opens to find out whether LMS runs.                     *)
(*                                                                         *)
(* LMS and AMT are outside the repository: they answer message i with the  *)
(* parts <<i, 1>> .. <<i, Parts>>.  Faults says what they may do wrong:    *)
(*   "refuse"  the dial fails;                                             *)
(*   "write"   a write fails (a reset, or the deadline Listen has set);    *)
(*   "short"   reading ends before the answer is whole (the one-second     *)
(*             deadline passes, LMS closes early, a reset);                *)
(*   "close"   net.Conn.Close reports an error (a failed TLS close_notify).*)
(***************************************************************************)
EXTENDS RpsSession

CONSTANTS Faults,        \* what LMS may do wrong
          TlsEnforced    \* ExecutorConfig.LocalTlsEnforced

ASSUME FaultsAssumption == Faults \subseteq {"refuse", "write", "short", "close"}
ASSUME TlsAssumption == TlsEnforced \in BOOLEAN

VARIABLES
    conn,       \* LMSConnection.Connection: the socket's number, 0 for nil
    sock,       \* sock[s]: "none" | "open" | "shut"
    req,        \* req[s]: the message whose payload was written to s, or 0
    nxt,        \* nxt[s]: parts already read from s
    lst,        \* lst[l]: where listener l is
    on,         \* on[l]: the socket its pending Read was called on
    buf         \* buf[l]: what it has read

lmsVars == <<conn, sock, req, nxt, lst, on, buf>>
vars == <<linkVars, mainVars, lmsVars>>

ListenerPcs == {"none", "spawned", "loop", "blocked", "sending", "done"}

Probe == MaxMsgs + 1
SockId == 1..Probe

LmsTypeOK ==
    /\ conn \in 0..Probe
    /\ sock \in [SockId -> {"none", "open", "shut"}]
    /\ req \in [SockId -> 0..MaxMsgs]
    /\ nxt \in [SockId -> 0..Parts]
    /\ lst \in [MsgId -> ListenerPcs]
    /\ on \in [MsgId -> 0..Probe]
    /\ \A l \in MsgId : lst[l] = "blocked" => on[l] \in SockId
    /\ buf \in [MsgId -> Seq(Part)]

TypeOK == LinkTypeOK /\ MainTypeOK /\ LmsTypeOK

Init ==
    /\ MainInit
    /\ conn = 0
    /\ sock = [s \in SockId |-> "none"]
    /\ req = [s \in SockId |-> 0]
    /\ nxt = [s \in SockId |-> 0]
    /\ lst = [l \in MsgId |-> "none"]
    /\ on = [l \in MsgId |-> 0]
    /\ buf = [l \in MsgId |-> <<>>]

-----------------------------------------------------------------------------
(* Connect to LMS and close again.  A Close that reports an error keeps the  *)
(* closed socket; without LMS the session fails, or goes on over LME.        *)
ProbeLms ==
    /\ main = "probe"
    /\ \/ main' = "dial" /\ UNCHANGED <<conn, sock>>
       \/ /\ "close" \in Faults
          /\ main' = "dial" /\ conn' = Probe /\ sock' = [sock EXCEPT ![Probe] = "shut"]
       \/ /\ "refuse" \in Faults
          /\ main' = (IF TlsEnforced THEN "failed" ELSE "lme") /\ UNCHANGED <<conn, sock>>
    /\ UNCHANGED <<linkVars, cur, data, interrupt, chClosed, panic, req, nxt, lst, on, buf>>

-----------------------------------------------------------------------------
(* HandleDataFromRPS, for a message with a payload. *)

(* Connect dials only when Connection is nil.  The listener is started     *)
(* before the error is looked at.                                          *)
ConnectLms ==
    /\ main = "connect"
    /\ lst' = [lst EXCEPT ![cur] = "spawned"]
    /\ \/ conn = 0 /\ conn' = cur /\ sock' = [sock EXCEPT ![cur] = "open"] /\ main' = "send"
       \/ conn = 0 /\ "refuse" \in Faults /\ UNCHANGED <<conn, sock>> /\ main' = "shutdown"
       \/ conn # 0 /\ UNCHANGED <<conn, sock>> /\ main' = "send"
    /\ UNCHANGED <<linkVars, cur, data, interrupt, chClosed, panic, req, nxt, on, buf>>

\* Mutant: the handler does not wait for the listener.
SendLms_NoWait ==
    /\ main = "send"
    /\ sock[conn] = "open"
    /\ req' = [req EXCEPT ![conn] = cur]
    /\ main' = "hangup"
    /\ UNCHANGED <<linkVars, cur, data, interrupt, chClosed, panic, conn, sock, nxt, lst, on, buf>>

\* A write fails on a socket that is shut, reset, or past its deadline.
SendLms ==
    /\ main = "send"
    /\ \/ /\ sock[conn] = "open"
          /\ req' = [req EXCEPT ![conn] = cur]
          /\ main' = "wait"
       \/ /\ sock[conn] = "shut" \/ "write" \in Faults
          /\ UNCHANGED req
          /\ main' = "abort"
    /\ UNCHANGED <<linkVars, cur, data, interrupt, chClosed, panic, conn, sock, nxt, lst, on, buf>>

\* The rendezvous on e.data with a listener that is sending.
ReceiveFromLms(l) ==
    /\ lst[l] = "sending"
    /\ lst' = [lst EXCEPT ![l] = "done"]
    /\ data' = buf[l]
    /\ Goto("wait", "forward")
    /\ UNCHANGED <<linkVars, cur, interrupt, chClosed, panic, conn, sock, req, nxt, on, buf>>

\* Mutant: Connection is not reset to nil.
CloseLms_Keeps ==
    IF conn # 0 THEN sock' = [sock EXCEPT ![conn] = "shut"] /\ UNCHANGED conn
    ELSE UNCHANGED <<conn, sock>>

\* LMSConnection.Close keeps the closed socket when Close reports an error.
CloseLms ==
    \/ conn # 0 /\ sock' = [sock EXCEPT ![conn] = "shut"] /\ conn' = 0
    \/ conn # 0 /\ sock' = [sock EXCEPT ![conn] = "shut"] /\ conn' = conn /\ "close" \in Faults
    \/ conn = 0 /\ UNCHANGED <<conn, sock>>

\* The deferred Close of HandleDataFromRPS.
HangUp ==
    /\ Goto("hangup", "select") \/ Goto("abort", "shutdown")
    /\ CloseLms
    /\ UNCHANGED <<linkVars, cur, data, interrupt, chClosed, panic, req, nxt, lst, on, buf>>

-----------------------------------------------------------------------------
\* The Close MakeItSo deferred.
CleanUp ==
    /\ CloseLms
    /\ Goto("cleanup", "done")
    /\ UNCHANGED <<linkVars, cur, data, interrupt, chClosed, panic, req, nxt, lst, on, buf>>

-----------------------------------------------------------------------------
(* The goroutine LMSConnection.Listen.  It reads the field lms.Connection    *)
(* at every step, so it sees the nil that Close stores there.                *)

\* lms.Connection.SetDeadline.
ListenStart(l) ==
    /\ lst[l] = "spawned"
    /\ IF conn = 0 THEN Crash("nil_connection") /\ UNCHANGED lst
       ELSE lst' = [lst EXCEPT ![l] = "loop"] /\ UNCHANGED panic
    /\ UNCHANGED <<linkVars, main, cur, data, interrupt, chClosed, conn, sock, req, nxt, on, buf>>

\* The call of lms.Connection.Read: the socket is now fixed.
ListenCall(l) ==
    /\ lst[l] = "loop"
    /\ IF conn = 0 THEN Crash("nil_connection") /\ UNCHANGED <<lst, on>>
       ELSE /\ lst' = [lst EXCEPT ![l] = "blocked"]
            /\ on' = [on EXCEPT ![l] = conn]
            /\ UNCHANGED panic
    /\ UNCHANGED <<linkVars, main, cur, data, interrupt, chClosed, conn, sock, req, nxt, buf>>

\* Read returns the next part of what LMS answers on that socket.
ListenRead(l) ==
    LET s == on[l] IN
    /\ lst[l] = "blocked"
    /\ sock[s] = "open" /\ req[s] # 0 /\ nxt[s] < Parts
    /\ nxt' = [nxt EXCEPT ![s] = @ + 1]
    /\ buf' = [buf EXCEPT ![l] = Append(@, <<req[s], nxt[s] + 1>>)]
    /\ lst' = [lst EXCEPT ![l] = "loop"]
    /\ UNCHANGED <<linkVars, mainVars, conn, sock, req, on>>

\* Mutant: a failed read returns without sending buf.
ListenBreak_Silent(l) ==
    LET s == on[l] IN
    /\ lst[l] = "blocked"
    /\ sock[s] = "shut" \/ (req[s] # 0 /\ nxt[s] = Parts) \/ "short" \in Faults
    /\ lst' = [lst EXCEPT ![l] = "done"]
    /\ UNCHANGED <<linkVars, mainVars, conn, sock, req, nxt, on, buf>>

(* Read fails: end of file or the deadline after a whole answer, either too  *)
(* early, a reset, or the socket shut by Close.  strings.ContainsAny looks   *)
(* for any character of "i/o timeout", and every error of a net.Conn has     *)
(* one, so none goes to lms.errors: the loop ends and buf is sent.           *)
ListenBreak(l) ==
    LET s == on[l] IN
    /\ lst[l] = "blocked"
    /\ \/ sock[s] = "shut"
       \/ req[s] # 0 /\ nxt[s] = Parts
       \/ "short" \in Faults
    /\ lst' = [lst EXCEPT ![l] = "sending"]
    /\ UNCHANGED <<linkVars, mainVars, conn, sock, req, nxt, on, buf>>

\* lms.data <- buf after MakeItSo closed the channel.
ListenSendFails(l) ==
    /\ lst[l] = "sending"
    /\ chClosed
    /\ Crash("send_on_closed")
    /\ UNCHANGED <<linkVars, main, cur, data, interrupt, chClosed, lmsVars>>

ListenerStep(l) ==
    ListenStart(l) \/ ListenCall(l) \/ ListenRead(l) \/ ListenBreak(l) \/ ListenSendFails(l)

-----------------------------------------------------------------------------
MainStep ==
    \/ SessionStep /\ UNCHANGED lmsVars
    \/ ProbeLms \/ ConnectLms \/ SendLms \/ (\E l \in MsgId : ReceiveFromLms(l)) \/ HangUp \/ CleanUp

Environment ==
    \/ Peer /\ UNCHANGED <<mainVars, lmsVars>>
    \/ (UserInterrupts \/ Exit) /\ UNCHANGED lmsVars

ReaderGoroutine == ReaderStep /\ UNCHANGED <<mainVars, lmsVars>>

Terminated == ~Alive /\ UNCHANGED vars

Next ==
    \/ Alive /\ (MainStep \/ ReaderGoroutine \/ Environment)
    \/ Alive /\ \E l \in MsgId : ListenerStep(l)
    \/ Terminated

(***************************************************************************)
(* The Go scheduler runs every goroutine that can run, and the deadline    *)
(* SetDeadline set passes: each goroutine is weakly fair.  Nothing is      *)
(* assumed of RPS, of the user or of the moment the process exits.         *)
(***************************************************************************)
Fairness ==
    /\ WF_vars(Alive /\ MainStep)
    /\ WF_vars(Alive /\ ReaderGoroutine)
    /\ \A l \in MsgId : WF_vars(Alive /\ ListenerStep(l))

Spec == Init /\ [][Next]_vars
FairSpec == Spec /\ Fairness

-----------------------------------------------------------------------------
(* Properties. *)

\* Where the main goroutine has no business with LMS.
Resting == {"prepare", "probe", "dial", "start", "select", "heartbeat", "connect", "failed", "lme"}

(* "With LMS we open/close websocket on every request" (executor.go:160):   *)
(* between two requests no listener goroutine of an earlier one is alive,   *)
(* and while one is handled only its own is, so that no stale goroutine can *)
(* hand its buffer to a later request through the shared channel.  And while *)
(* the handler waits on e.data, which has no timeout, that listener is there *)
(* and not stuck: Connection is not nil, and its read is from the socket the *)
(* payload was written to, so that LMS's answer or the deadline ends it.     *)
OneListener ==
    /\ \A l \in MsgId : lst[l] \notin {"none", "done"} => l = cur /\ main \notin Resting
    /\ main = "wait" => /\ lst[cur] \notin {"none", "done"} /\ conn = cur
                        /\ lst[cur] = "blocked" => on[cur] = cur
                        /\ sock[cur] = "open" /\ req[cur] = cur

(* Whatever LMS does, no message RPS sent is passed over: while the link to  *)
(* RPS is up, each heartbeat and each request that was handled has been      *)
(* answered, a request with all that its listener read (unless that is       *)
(* nothing), and never with another one's answer.                            *)
Handled(i) == i \in 1..cur /\ (i = cur => main \in {"hangup", "select"})
AnsweredInTurn ==
    /\ OwnAnswers
    /\ ws = "open" => \A i \in MsgId : Handled(i) =>
        /\ asked[i] = "heartbeat" => \E j \in DOMAIN sent : sent[j] = HeartbeatResponse(i)
        /\ asked[i] = "request" /\ buf[i] # <<>> => \E j \in DOMAIN sent : sent[j] = Response(i, buf[i])

(* When LMS accepts every connection and write, and only answers late or     *)
(* short, no interleaving of the goroutines, of an interrupt and of a lost   *)
(* link makes the process panic.                                             *)
NoPanic == panic = "none"

(* What LMS delivers whole reaches RPS: every request the main goroutine     *)
(* takes is answered whole, unless the link to RPS is gone or LMS did not    *)
(* deliver everything before the listener's deadline.                        *)
CutShort(i) == lst[i] = "sending" /\ Len(buf[i]) < Parts
EveryRequestAnswered ==
    \A i \in MsgId :
        main = "connect" /\ cur = i
            ~> \/ ws # "open" \/ CutShort(i)
               \/ \E j \in 1..Len(sent) : sent[j] = Response(i, Answer(i, Parts))

-----------------------------------------------------------------------------
(* A property the program does not have. *)

(* remote.go:199 reports "Device activated successfully via RPS" whenever    *)
(* ExecuteCommand returns nil, which it does once MakeItSo returns: that     *)
(* should mean that RPS reported success.                                    *)
SuccessMeansActivated == main = "done" => cur > 0 /\ asked[cur] = "success"
=============================================================================
