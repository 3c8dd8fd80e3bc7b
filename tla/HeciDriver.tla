----------------------------- MODULE HeciDriver -----------------------------
(***************************************************************************)
(* One request to AMT through the HECI driver: pthi.Command.Call and the   *)
(* drivers of pkg/heci for Linux (/dev/mei0) and Windows.  The handle is   *)
(* connected to one firmware client, a request is written to it and one    *)
(* reply is read.  A reply is taken for the answer to the last request:    *)
(* neither its command nor its status is looked at.                        *)
(*                                                                         *)
(* External: the firmware.  It answers every request it gets, in order,    *)
(* with the value asked for or with an error status and no body; the       *)
(* buffer is made of zeroes, so that such a reply reads as 0.  Closing the *)
(* handle drops the replies nobody has read.                               *)
(***************************************************************************)
EXTENDS Naturals, Sequences

CONSTANT Hashes     \* certificate hashes on the device

ASSUME HashesAssumption == Hashes \in Nat

VARIABLES
    machine,  \* the platform: operating system, TLS on the local ports, LMS, SKU, firmware
    device,   \* what AMT holds
    mishaps,  \* what went wrong that rpc does not see (history)
    fd,       \* the handle: "closed" or the firmware client it is connected to
    wire,     \* replies nobody has read
    at,       \* where the call is
    ask,      \* what it asks for
    part,     \* which hash, 0 for other requests
    got       \* the reply it has read

driverVars == <<fd, wire>>

Clients == {"pthi", "watchdog"}
Asks == {"initialize", "mode", "amt", "build", "sku", "uuid", "dns", "ras", "wired",
         "wireless", "handles", "hash", "enabled", "unprovision"}
ClientOf(a) == IF a = "enabled" THEN "watchdog" ELSE "pthi"

Reply(a, i, good, value) == [ask |-> a, part |-> i, good |-> good, value |-> value]
Replies == [ask : Asks, part : 0..Hashes, good : BOOLEAN, value : Nat]
NoReply == Reply("initialize", 0, FALSE, 0)

DriverTypeOK ==
    /\ fd \in Clients \cup {"closed"}
    /\ wire \in Seq(Replies)
    /\ at \in {"idle", "open", "send", "receive", "answered", "failed", "back"}
    /\ ask \in Asks /\ part \in 0..Hashes /\ got \in Replies

-----------------------------------------------------------------------------
(* The firmware. *)

\* PTHI's provisioning state after an unprovision is 0; what is only shown is 1.
Value ==
    CASE ask = "mode" -> device.mode
      [] ask = "enabled" -> IF machine.tls THEN 1 ELSE 0
      [] ask = "handles" -> Hashes
      [] ask = "unprovision" -> 0
      [] OTHER -> 1

\* The firmware gets the request and answers; an error status is a mishap.
Deliver ==
    \E good \in BOOLEAN :
        /\ wire' = Append(wire, Reply(ask, part, good, IF good THEN Value ELSE 0))
        /\ mishaps' = IF good THEN mishaps ELSE mishaps \cup {"unseen"}
        /\ device' = IF good /\ ask = "unprovision" THEN [device EXCEPT !.mode = 0] ELSE device

Undelivered == UNCHANGED <<wire, mishaps, device>>

-----------------------------------------------------------------------------
(* The drivers: what each call can come to. *)

\* Open and three tries of the connect request; a handle is left when they fail.
LinuxInit == {"connected", "failed"}
\* The device is looked up and opened, its version read and the client connected.
WindowsInit == {"connected", "failed"}

LinuxSend == {"sent", "failed"}
\* After two seconds the write is given up, and may go out all the same.
WindowsSend == {"sent", "failed", "late"}

\* A read that fails leaves the reply; one of no bytes takes it.
LinuxReceive == {"read", "interrupted", "empty"}
WindowsReceive == {"read", "interrupted", "empty"}

On(linux, windows) == IF machine.os = "linux" THEN linux ELSE windows

-----------------------------------------------------------------------------
\* Open and OpenWatchdog.
Open ==
    /\ at = "open"
    /\ \E outcome \in On(LinuxInit, WindowsInit) :
        IF outcome = "connected"
        THEN fd' = ClientOf(ask) /\ at' = IF ask = "initialize" THEN "answered" ELSE "send"
        ELSE fd' = "closed" /\ at' = "failed"
    /\ UNCHANGED <<device, mishaps, wire, ask, part, got>>

\* The first half of Call: a write that fails, or is short, ends it.
Send ==
    /\ at = "send"
    /\ \E outcome \in On(LinuxSend, WindowsSend) :
        /\ at' = IF outcome = "sent" THEN "receive" ELSE "failed"
        /\ IF outcome = "failed" THEN Undelivered ELSE Deliver
    /\ UNCHANGED <<fd, ask, part, got>>

\* The second half.
Receive ==
    /\ at = "receive" /\ wire # <<>>
    /\ \E outcome \in On(LinuxReceive, WindowsReceive) :
        /\ at' = IF outcome = "read" THEN "answered" ELSE "failed"
        /\ wire' = IF outcome = "interrupted" THEN wire ELSE Tail(wire)
        /\ got' = IF outcome = "read" THEN Head(wire) ELSE got
    /\ UNCHANGED <<device, mishaps, fd, ask, part>>

Close == fd' = "closed" /\ wire' = <<>>
=============================================================================
