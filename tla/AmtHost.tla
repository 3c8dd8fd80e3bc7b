------------------------------ MODULE AmtHost ------------------------------
(***************************************************************************)
(* The operations of amt.AMTCommand over the HECI driver, pkg/amt.  Each   *)
(* opens a handle, makes its calls on it and closes it again: one request  *)
(* for most; for the certificate hashes one for the handles and one for    *)
(* each hash; for a version as many as it takes until one succeeds or the  *)
(* time given is over.  The conversions of the results to text are left    *)
(* out.  Operations only the local activation uses (EnableAMT, DisableAMT, *)
(* GetLocalSystemAccount, StartConfigurationHBased, StopConfiguration) are *)
(* calls of one request and belong to Activation.                          *)
(***************************************************************************)
EXTENDS HeciDriver

VARIABLES
    ticks,    \* how often a version may still be asked for again
    res       \* what the operation returned, when "at" is "back"

callVars == <<at, ask, part, got, ticks, res>>

Result(ok, value) == [ok |-> ok, value |-> value]
NoResult == Result(FALSE, 0)

HostTypeOK ==
    /\ DriverTypeOK
    /\ ticks \in Nat /\ res \in [ok : BOOLEAN, value : Nat]

IdleCall ==
    /\ at = "idle" /\ ask = "initialize" /\ part = 0 /\ ticks = 0
    /\ got = NoReply /\ res = NoResult

HostInit ==
    /\ fd = "closed" /\ wire = <<>>
    /\ IdleCall

\* The caller goes on; what it needs of the result it has taken.
Forget ==
    /\ at' = "idle" /\ ask' = "initialize" /\ part' = 0 /\ ticks' = 0
    /\ got' = NoReply /\ res' = NoResult

\* An operation is called; n: the ticks of 15 seconds its time allows.
Begin(a, n) ==
    /\ at' = "open" /\ ask' = a /\ part' = 0 /\ ticks' = n
    /\ got' = NoReply /\ res' = NoResult

\* The deferred Close, and the return.
Return(ok, value) ==
    /\ at' = "back" /\ res' = Result(ok, value)
    /\ got' = NoReply /\ ticks' = 0
    /\ Close
    /\ UNCHANGED <<ask, part>>

-----------------------------------------------------------------------------
Versions == {"amt", "build", "sku"}

\* The next request on the same handle.
Ask(a, i) ==
    /\ at' = "send" /\ ask' = a /\ part' = i /\ got' = NoReply
    /\ UNCHANGED <<fd, wire, ticks, res>>

\* Mutant: each tick asks again, for ever.
AskVersionAgain_Forever ==
    /\ at = "failed" /\ fd # "closed"
    /\ ask \in Versions
    /\ Ask(ask, 0)

\* GetVersionDataFromME: a tick, and the request once more.
AskVersionAgain ==
    /\ at = "failed" /\ fd # "closed"
    /\ ask \in Versions /\ ticks > 0
    /\ ticks' = ticks - 1
    /\ at' = "send" /\ got' = NoReply
    /\ UNCHANGED <<fd, wire, ask, part, res>>

\* Mutant: a hash that cannot be read is left out and the next one asked for.
AskHash_GoesOn ==
    /\ \/ at = "answered" /\ ask = "handles" /\ got.value > 0
       \/ at = "answered" /\ ask = "hash" /\ part < Hashes
       \/ at = "failed" /\ fd # "closed" /\ ask = "hash" /\ part < Hashes
    /\ Ask("hash", part + 1)

\* GetCertificateHashes: the entry of the next handle.
AskHash ==
    /\ at = "answered"
    /\ \/ ask = "handles" /\ got.value > 0
       \/ ask = "hash" /\ part < Hashes
    /\ Ask("hash", part + 1)

\* The operation fails: the handle is closed if it was opened.
OperationFails ==
    /\ at = "failed"
    /\ ~(fd # "closed" /\ ask \in Versions /\ ticks > 0)
    /\ Return(FALSE, 0)

\* A version that is not among those of the reply is an error as well.
OperationReturns ==
    /\ at = "answered"
    /\ ~(ask = "handles" /\ got.value > 0)
    /\ ~(ask = "hash" /\ part < Hashes)
    /\ Return(ask \in Versions => got.value > 0, got.value)

HostStep ==
    \/ Open /\ UNCHANGED <<ticks, res>>
    \/ Send /\ UNCHANGED <<ticks, res>>
    \/ Receive /\ UNCHANGED <<ticks, res>>
    \/ (AskVersionAgain \/ AskHash \/ OperationFails \/ OperationReturns)
        /\ UNCHANGED <<device, mishaps>>
=============================================================================
