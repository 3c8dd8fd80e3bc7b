-------------------------- MODULE ConfigureProcess --------------------------
(***************************************************************************)
(* What the configure commands of internal/commands/configure share: one   *)
(* rpc process after the other on an activated device, each a sequence of  *)
(* calls any of which may fail, or do its work and have its reply lost;    *)
(* and the two operations several of them use, PruneCerts and              *)
(* ConfigureIEEE8021xCertificates.                                         *)
(***************************************************************************)
EXTENDS CertStore

VARIABLES
    tls,       \* the ports TLS is enabled on
    staged,    \* the same, after the next commit
    enforced,  \* the ports that cannot be without TLS
    mps,       \* the management presence servers, by the process that added them
    rules,     \* the policy rules, a pair of trigger and server each
    applied,   \* the rules that apply
    cira       \* client initiated remote access was enabled

VARIABLES
    runs,      \* processes started
    cmd,       \* the current or last command
    pc,        \* where it is
    known,     \* the certificates GetCertificates found
    got,       \* the certificates it has a handle of
    todo,      \* the ports whose settings are still to be put
    result,    \* what it reported
    faults     \* what went wrong in it: "call", "prune", "unseen" (history)

ports == <<tls, staged, enforced>>
remote == <<mps, rules, applied, cira>>
profiles == <<wifi, wired, ctx>>
process == <<runs, cmd, known, got, todo>>

Ports == {"remote", "local"}
Triggers == {"periodic", "user"}
None == "none"
ASSUME CredsAssumption == None \notin Creds

(* What Validate lets through.  "purge" is wireless --purge, "untls" is tls    *)
(* with mode None, "ea" is tls with a certificate of the Enterprise            *)
(* Assistant.  With 802.1x, which is on when its profile is named, the private *)
(* key, the client certificate and the CA are given in any combination: nobody *)
(* asks whether all three are, or whether the key is the certificate's.        *)
Part == Creds \cup {None}
Command(names, parts, cas, on, eaptls) ==
    [name : names, key : parts, client : parts, ca : cas, on8021x : on, eaptls : eaptls]
Plain(names) == Command(names, {None}, {FALSE}, {FALSE}, {FALSE})
Commands ==
    Command({"wireless"}, Part, BOOLEAN, {TRUE}, {FALSE})
    \cup Command({"wired"}, Part, BOOLEAN, {TRUE}, BOOLEAN)
    \cup Plain({"wireless", "purge", "wired", "tls", "ea", "untls", "cira"})

Uses8021x == cmd.on8021x
EnablesTls == cmd.name \in {"tls", "ea"}

Pcs == {"idle", "wifi", "prune", "again", "settings", "key", "client", "root", "addwifi",
        "ethernet", "disable", "enable", "setcerts",
        "issuer", "genkey", "amtcert", "context", "commitctx", "enumerate", "put",
        "commit", "cleanup",
        "rules", "servers", "mpscert", "addmps", "rule1", "rule2", "apply1", "apply0",
        "state", "detect"}

TypeOK ==
    /\ StoreTypeOK
    /\ tls \subseteq Ports /\ staged \subseteq Ports /\ enforced \subseteq Ports
    /\ mps \subseteq 1..MaxRuns /\ rules \subseteq Triggers \X (1..MaxRuns)
    /\ applied \subseteq Triggers \X (1..MaxRuns) /\ cira \in BOOLEAN
    /\ runs \in 0..MaxRuns /\ cmd \in Commands /\ pc \in Pcs
    /\ known \subseteq Clients \cup Roots /\ got \subseteq Clients \cup Roots
    /\ todo \subseteq Ports
    /\ result \in {"none", "ok", "error", "panic", "killed"}
    /\ faults \subseteq {"call", "prune", "unseen"}

Init ==
    /\ StoreInit
    /\ enforced \in {{}, {"local"}} /\ tls = enforced /\ staged = enforced
    /\ mps = {} /\ rules = {} /\ applied = {} /\ cira = FALSE
    /\ runs = 0 /\ pc = "idle" /\ known = {} /\ got = {} /\ todo = {}
    /\ cmd \in Plain({"purge"})
    /\ result = "none" /\ faults = {}

-----------------------------------------------------------------------------
(* A step of the process. *)

Goto(place) == pc' = place /\ UNCHANGED <<result, faults>>
Ends(outcome) == pc' = "idle" /\ result' = outcome /\ UNCHANGED faults
Reaches(place, outcome) ==
    pc' = place /\ result' = IF place = "idle" THEN outcome ELSE result
\* It goes on to a place, or ends well.
Then(place) == Reaches(place, "ok") /\ UNCHANGED faults
\* A call has failed: it goes on to a place, or ends with an error.
FailsTo(place) == Reaches(place, "error") /\ faults' = faults \cup {"call"}
Fails == FailsTo("idle")

(* A call that changes something: it goes on when the work is done; or the   *)
(* work is done and the reply lost, or nothing is done.                      *)
Call(Work, Nothing, next, onError) ==
    \/ Work /\ Then(next)
    \/ (Work \/ Nothing) /\ FailsTo(onError)

(* A method whose ReturnValue nobody looks at: what the device refuses without *)
(* an error passes for done.                                                   *)
Unseen(next) == Reaches(next, "ok") /\ faults' = faults \cup {"unseen"}
Invoke(Work, Nothing, next, onError) ==
    Call(Work, Nothing, next, onError) \/ (Nothing /\ Unseen(next))

Begin ==
    /\ pc = "idle" /\ runs < MaxRuns
    /\ runs' = runs + 1 /\ cmd' \in Commands /\ result' = "none" /\ faults' = {}
    /\ pc' = CASE cmd'.name \in {"wireless", "purge"} -> "wifi"
               [] cmd'.name = "wired" -> "ethernet"
               [] cmd'.name = "tls" -> "issuer"
               [] cmd'.name = "ea" -> "genkey"
               [] cmd'.name = "untls" -> "enumerate"
               [] cmd'.name = "cira" -> "rules"
    /\ known' = {} /\ got' = {} /\ todo' = {}
    /\ lacking' = IF cmd'.client \notin {cmd'.key, None} THEN lacking \cup {Eap(cmd'.client)}
                                                         ELSE lacking
    /\ UNCHANGED <<certs, keys, profiles, ports, remote>>

\* The user or the system ends the process between two of its calls.
Kill ==
    /\ pc # "idle" /\ Ends("killed")
    /\ UNCHANGED <<store, profiles, ports, remote, process>>

-----------------------------------------------------------------------------
(* PruneCerts, called by wireless, wired and tls. *)

AfterPrune ==
    CASE cmd.name = "wireless" -> IF Uses8021x THEN "settings" ELSE "addwifi"
      [] cmd.name = "wired" -> IF Uses8021x THEN "settings" ELSE "idle"
      [] OTHER -> "idle"

Prune(place, outcome) ==
    /\ pc = place
    /\ \/ KeyMissing /\ Ends("panic") /\ UNCHANGED store
       \/ /\ ~KeyMissing /\ DeleteUnused
          /\ faults' = IF Pruned THEN faults ELSE faults \cup {"prune"}
          /\ Reaches(AfterPrune, outcome)
    /\ UNCHANGED <<profiles, ports, remote, process>>

(* What cannot be read is an error to the purge; tls tries once more, in its *)
(* deferred call; the others go on.                                          *)
PruneUnread(place, outcome) ==
    /\ pc = place
    /\ faults' = faults \cup {"prune"}
    /\ Reaches(IF EnablesTls /\ place = "prune" THEN "again" ELSE AfterPrune, outcome)
    /\ UNCHANGED <<store, profiles, ports, remote, process>>

PruneCerts ==
    \/ Prune("prune", "ok") \/ Prune("again", "ok") \/ Prune("cleanup", "error")
    \/ PruneUnread("prune", IF cmd.name = "purge" THEN "error" ELSE "ok")
    \/ PruneUnread("again", "ok") \/ PruneUnread("cleanup", "error")

-----------------------------------------------------------------------------
(* ConfigureIEEE8021xCertificates, called by wireless and wired. *)

Same == UNCHANGED <<profiles, ports, remote, process>>

GetCertificates ==
    /\ pc = "settings"
    /\ \/ KeyMissing /\ Ends("panic") /\ UNCHANGED known
       \/ ~KeyMissing /\ known' = certs /\ Goto("key")
       \/ Fails /\ UNCHANGED known
    /\ UNCHANGED <<store, profiles, ports, remote, runs, cmd, got, todo>>

\* An upload: the process has a handle when the reply says so.
Upload(c, next, onError) ==
    /\ \/ AddCert(c) /\ got' = got \cup {c} /\ Then(next)
       \/ (AddCert(c) \/ UNCHANGED store) /\ FailsTo(onError) /\ UNCHANGED got
       \/ UNCHANGED <<store, got>> /\ Unseen(next)
    /\ UNCHANGED <<profiles, ports, remote, runs, cmd, known, todo>>

\* It is on the device, with a handle.
Finds(c, next) ==
    /\ c \in known /\ got' = got \cup {c} /\ Goto(next)
    /\ UNCHANGED <<store, profiles, ports, remote, runs, cmd, known, todo>>

\* It was not given.
Skips(next) == Goto(next) /\ UNCHANGED store /\ Same

\* Mutant: a key that cannot be added is not missed.
GetPrivateKeyHandle_GoesOn ==
    /\ pc = "key"
    /\ \/ cmd.key = None /\ Skips("client")
       \/ /\ cmd.key # None
          /\ Call(AddKey(Eap(cmd.key)), UNCHANGED store, "client", "client") /\ Same

(* A key on the device is looked for by comparing the private key with the   *)
(* public ones, and so never found; the device refuses to add it again.      *)
GetPrivateKeyHandle ==
    /\ pc = "key"
    /\ \/ cmd.key = None /\ Skips("client")
       \/ /\ Eap(cmd.key) \in keys /\ (Ends("error") \/ Unseen("client"))
          /\ UNCHANGED store /\ Same
       \/ /\ cmd.key # None /\ Eap(cmd.key) \notin keys
          /\ \/ Call(AddKey(Eap(cmd.key)), UNCHANGED store, "client", "idle")
             \/ Lacks(Eap(cmd.key)) /\ Unseen("client")
          /\ Same

\* Mutant: it is uploaded also when none was given.
GetClientCertHandle_Always ==
    /\ pc = "client"
    /\ \/ Finds(Eap(cmd.client), "root")
       \/ Eap(cmd.client) \notin known /\ Upload(Eap(cmd.client), "root", "idle")

GetClientCertHandle ==
    /\ pc = "client"
    /\ \/ cmd.client = None /\ Skips("root")
       \/ Finds(Eap(cmd.client), "root")
       \/ /\ cmd.client # None /\ Eap(cmd.client) \notin known
          /\ Upload(Eap(cmd.client), "root", "idle")

GetTrustedRootCertHandle ==
    LET next == IF cmd.name = "wired" THEN "enable" ELSE "addwifi"
    IN  /\ pc = "root"
        /\ \/ ~cmd.ca /\ Skips(next)
           \/ cmd.ca /\ Finds(Ca, next)
           \/ cmd.ca /\ Ca \notin known /\ Upload(Ca, next, "idle")

Configure8021x ==
    GetCertificates \/ GetPrivateKeyHandle \/ GetClientCertHandle \/ GetTrustedRootCertHandle
=============================================================================
