------------------------------- MODULE Relay -------------------------------
(***************************************************************************)
(* What a remote session promises to RPS, whatever carries the messages to *)
(* AMT: messages are handled one at a time in the order RPS sent them;     *)
(* each payload message is answered at most once, with parts of AMT's      *)
(* answer to that very message, from its first part on and in order; a     *)
(* heartbeat is answered as such; and after the session is over rpc sends  *)
(* nothing more.  Losing an answer is allowed, inventing one is not.       *)
(***************************************************************************)
EXTENDS Naturals, Sequences

CONSTANT Parts     \* parts of an AMT answer

VARIABLES state,   \* "new" | "idle" | "busy" | "beat" | "over"
          taken,   \* number of the last message taken
          sent     \* what rpc has sent to RPS

vars == <<state, taken, sent>>

Message(kind, of, body) == [kind |-> kind, of |-> of, body |-> body]
Answer(i, n) == [k \in 1..n |-> <<i, k>>]

Init == state = "new" /\ taken = 0 /\ sent = <<>>

Open ==
    /\ state = "new"
    /\ state' = "idle"
    /\ sent' = Append(sent, Message("initial", 0, <<>>))
    /\ UNCHANGED taken

\* A write on a link the network has dropped may be lost without an error.
OpenLost == state = "new" /\ state' = "idle" /\ UNCHANGED <<taken, sent>>

Take ==
    /\ state = "idle"
    /\ taken' = taken + 1
    /\ state' \in {"busy", "beat", "over"}
    /\ UNCHANGED sent

AnswerRequest ==
    /\ state = "busy"
    /\ state' = "idle"
    /\ \E n \in 1..Parts : sent' = Append(sent, Message("response", taken, Answer(taken, n)))
    /\ UNCHANGED taken

AnswerHeartbeat ==
    /\ state = "beat"
    /\ state' = "idle"
    /\ sent' = Append(sent, Message("heartbeat", taken, <<>>))
    /\ UNCHANGED taken

Drop == state \in {"busy", "beat"} /\ state' = "idle" /\ UNCHANGED <<taken, sent>>

Stop == state # "over" /\ state' = "over" /\ UNCHANGED <<taken, sent>>

Next == Open \/ OpenLost \/ Take \/ AnswerRequest \/ AnswerHeartbeat \/ Drop \/ Stop

Spec == Init /\ [][Next]_vars
=============================================================================
