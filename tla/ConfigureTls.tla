---------------------------- MODULE ConfigureTls ----------------------------
(***************************************************************************)
(* The command tls of internal/commands/configure.  Settings of a port     *)
(* take effect when they are committed, a change of the credential context *)
(* at once: so the device is assumed to behave.                            *)
(***************************************************************************)
EXTENDS ConfigureProcess

Own == Tls(runs)

\* Mutant: no deferred cleanup.
OnError_None == "idle"

\* A failure while TLS is enabled runs the deferred pruneCerts.
OnError == IF EnablesTls THEN "cleanup" ELSE "idle"

AddIssuer ==
    /\ pc = "issuer"
    /\ Upload(Issuer(runs), "genkey", OnError)

\* generateKeyPair and getDERKey; with "ea", after the calls that ask for a profile.
GenerateKeyPair ==
    /\ pc = "genkey"
    /\ Call(AddKey(Own), UNCHANGED store, "amtcert", OnError)
    /\ Same

AddClientCert ==
    /\ pc = "amtcert"
    /\ Upload(Own, "context", OnError)

(* Without a handle of the certificate it is left out.  The device refuses to  *)
(* create a second context, and the code takes that well.                      *)
UpdateTLSCredentialContext ==
    /\ pc = "context"
    /\ \/ Own \notin got /\ Lacks(Own) /\ Goto("enumerate") /\ UNCHANGED ctx
       \/ /\ Own \in got /\ UNCHANGED store
          /\ \/ tls # {} /\ Call(ctx' = {Own}, UNCHANGED ctx, "commitctx", OnError)
             \/ tls = {} /\ ctx = {} /\ Call(ctx' = {Own}, UNCHANGED ctx, "enumerate", OnError)
             \/ tls = {} /\ ctx # {} /\ Call(UNCHANGED ctx, UNCHANGED ctx, "enumerate", OnError)
    /\ UNCHANGED <<wifi, wired, ports, remote, process>>

Commit(place, next) ==
    /\ pc = place
    /\ Invoke(tls' = staged, UNCHANGED tls, next, OnError)
    /\ UNCHANGED <<store, profiles, staged, enforced, remote, process>>

EnumerateTLSSettingData ==
    /\ pc = "enumerate"
    /\ \/ todo' = Ports /\ Goto("put")
       \/ FailsTo(OnError) /\ UNCHANGED todo
    /\ UNCHANGED <<store, profiles, ports, remote, runs, cmd, known, got>>

AfterPut(p) == IF todo = {p} THEN "commit" ELSE "put"

\* In the order in which the device lists its ports.
ConfigureTLSSettings(p) ==
    /\ pc = "put" /\ p \in todo
    /\ todo' = todo \ {p}
    /\ \/ EnablesTls /\ Call(staged' = staged \cup {p}, UNCHANGED staged, AfterPut(p), OnError)
       \/ /\ ~EnablesTls /\ p \notin enforced
          /\ Call(staged' = staged \ {p}, UNCHANGED staged, AfterPut(p), OnError)
       \/ ~EnablesTls /\ p \in enforced /\ Ends("error") /\ UNCHANGED staged
    /\ UNCHANGED <<store, profiles, tls, enforced, remote, runs, cmd, known, got>>

CommitTls == Commit("commitctx", "enumerate") \/ Commit("commit", "prune")

TlsCommand ==
    \/ AddIssuer \/ GenerateKeyPair \/ AddClientCert \/ UpdateTLSCredentialContext
    \/ EnumerateTLSSettingData \/ (\E p \in Ports : ConfigureTLSSettings(p)) \/ CommitTls
=============================================================================
