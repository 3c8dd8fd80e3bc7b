------------------------------ MODULE RpsLink ------------------------------
(***************************************************************************)
(* The WebSocket between rpc and the Remote Provisioning Server (RPS), and *)
(* the goroutine that reads it (internal/rps/rps.go).                      *)
(*                                                                         *)
(* RPS is outside the repository: it may send any message at any time, and *)
(* the network may drop the connection, losing what was in flight.  A      *)
(* message is only its kind: "malformed" is a frame json.Unmarshal         *)
(* rejects, "request" every method that ProcessMessage hands on.           *)
(***************************************************************************)
EXTENDS Naturals, Sequences

CONSTANT MaxMsgs     \* bound: how many messages RPS sends in a session
ASSUME MaxMsgsAssumption == MaxMsgs \in Nat

VARIABLES
    asked,    \* kinds of the messages RPS has sent, the i-th being message i
    nread,    \* how many of them the reader has taken off the socket
    reader,   \* the goroutine of Listen: "idle" | "reading" | "sending" | "closed"
    ws,       \* the socket: "none" | "open" | "lost" | "closed"
    sent      \* what RPS has received from rpc, in order (history)

linkVars == <<asked, nread, reader, ws, sent>>

Kinds == {"request", "heartbeat", "success", "error", "malformed"}
MsgId == 1..MaxMsgs

(***************************************************************************)
(* What rpc puts on the socket: the initial message, a heartbeat response, *)
(* or the response of AMT to message "of" with the parts read of it.       *)
(***************************************************************************)
InitialMessage == [kind |-> "initial", of |-> 0, body |-> <<>>]
HeartbeatResponse(i) == [kind |-> "heartbeat", of |-> i, body |-> <<>>]
Response(i, b) == [kind |-> "response", of |-> i, body |-> b]

LinkTypeOK ==
    /\ asked \in Seq(Kinds) /\ Len(asked) <= MaxMsgs
    /\ nread \in Nat /\ nread <= Len(asked)
    /\ reader \in {"idle", "reading", "sending", "closed"}
    /\ ws \in {"none", "open", "lost", "closed"}

LinkInit ==
    /\ asked = <<>>
    /\ nread = 0
    /\ reader = "idle"
    /\ ws = "none"
    /\ sent = <<>>

-----------------------------------------------------------------------------
(* The environment. *)

RpsSends(k) ==
    /\ ws = "open"
    /\ sent # <<>>
    /\ Len(asked) < MaxMsgs
    /\ asked' = Append(asked, k)
    /\ UNCHANGED <<nread, reader, ws, sent>>

\* The connection breaks: what the reader has not read yet may be lost.
LinkBreaks ==
    /\ ws = "open"
    /\ ws' = "lost"
    /\ \E n \in nread..Len(asked) : asked' = SubSeq(asked, 1, n)
    /\ UNCHANGED <<nread, reader, sent>>

-----------------------------------------------------------------------------
(* AMTActivationServer.Connect, Send and Close, called by the main goroutine. *)

Dial(ok) ==
    /\ ws = "none"
    /\ ws' = IF ok THEN "open" ELSE "none"

\* On a connection the peer has dropped a write may still succeed locally.
Write(m, ok) ==
    \/ ws = "open" /\ ok /\ sent' = Append(sent, m)
    \/ ws \in {"lost", "closed"} /\ (ok => ws = "lost") /\ sent' = sent

Disconnect == ws' = "closed"

-----------------------------------------------------------------------------
(* The goroutine of AMTActivationServer.Listen.  Its channel is unbuffered: *)
(* "sending" is the goroutine blocked in dataChannel <- message, and the    *)
(* message it holds is number nread.                                        *)

ListenToRps == reader = "idle" /\ reader' = "reading"

\* A frame that is already buffered can be read even when the socket is closed.
ReadMessage ==
    /\ reader = "reading"
    /\ nread < Len(asked)
    /\ nread' = nread + 1
    /\ reader' = "sending"
    /\ UNCHANGED <<asked, ws, sent>>

\* Mutant: the goroutine ends without closing its channel.
ReadFails_LeavesOpen ==
    /\ reader = "reading"
    /\ ws = "closed" \/ (ws = "lost" /\ nread = Len(asked))
    /\ UNCHANGED linkVars

\* ReadMessage fails: the deferred close(dataChannel) ends the goroutine.
ReadFails ==
    /\ reader = "reading"
    /\ ws = "closed" \/ (ws = "lost" /\ nread = Len(asked))
    /\ reader' = "closed"
    /\ UNCHANGED <<asked, nread, ws, sent>>

ReaderStep == ReadMessage \/ ReadFails
=============================================================================
