-------------------------- MODULE ConfigureProofs ---------------------------
EXTENDS Configure, TLAPS

\* Which commands are at a place.
Places ==
    /\ pc \in {"key", "client", "root", "enable", "setcerts", "settings"} => Uses8021x
    /\ pc \in {"settings", "key", "client", "root"} => cmd.name \in {"wireless", "wired"}
    /\ pc = "wifi" => cmd.name \in {"wireless", "purge"}
    /\ pc = "addwifi" => cmd.name = "wireless"
    /\ pc \in {"ethernet", "disable", "enable", "setcerts"} => cmd.name = "wired"
    /\ pc \in {"issuer", "genkey", "amtcert", "context", "commitctx", "cleanup", "again"} => EnablesTls
    /\ pc \in {"enumerate", "put", "commit"} => EnablesTls \/ cmd.name = "untls"
    /\ pc \in {"rules", "servers", "mpscert", "addmps", "rule1", "rule2", "apply1", "apply0",
               "state", "detect"} => cmd.name = "cira"
    /\ pc = "prune" => cmd.name # "cira"
    /\ pc # "idle" => runs \in 1..MaxRuns
    /\ result # "none" => pc = "idle"

\* Nothing uses a certificate that is not there, or one whose key should be there and is not.
Held(used) == used \subseteq certs /\ used \cap Clients \subseteq keys \cup lacking

\* What is on the device before something is made to use it.
Uploaded ==
    /\ cmd.client \notin {cmd.key, None} => Eap(cmd.client) \in lacking
    /\ pc \in {"key", "client", "root"} => known \subseteq certs
    /\ pc \in {"client", "root", "enable", "setcerts", "addwifi"} /\ cmd.client # None
          => Eap(cmd.client) \in keys \cup lacking
    /\ pc \in {"client", "root", "enable", "setcerts", "addwifi", "genkey", "amtcert", "context"}
          => got \subseteq certs
    /\ pc \in {"amtcert", "context"} => Own \in keys

\* The handles a process has are those of the certificates it was given.
Handles ==
    /\ pc \in {"wifi", "ethernet", "disable", "settings", "key", "client", "issuer"} => got = {}
    /\ pc \in {"prune", "enumerate", "put", "commit"} /\ ~EnablesTls => got = {}
    /\ pc = "root" => got \subseteq Given \ {Ca} /\ ("unseen" \notin faults => got = Given \ {Ca})
    /\ pc \in {"enable", "setcerts", "addwifi"} =>
          got \subseteq Given /\ ("unseen" \notin faults => got = Given)
    /\ pc = "context" /\ "unseen" \notin faults => Own \in got

\* TLS comes with its credential context.
Backed == ctx # {} \/ \E r \in 1..MaxRuns : Tls(r) \in lacking
Credential ==
    /\ (tls \cup staged) \ enforced # {} => Backed
    /\ pc \in {"commitctx", "enumerate", "put", "commit"} /\ EnablesTls =>
          Backed /\ ("unseen" \notin faults => ctx # {})

Policies ==
    "unseen" \notin faults =>
        /\ pc = "rule2" => \E s \in 1..MaxRuns : <<"periodic", s>> \in rules
        /\ pc = "apply1" => TwoPolicies

\* Why a command can fail.
Causes ==
    /\ pc \in {"rule1", "rule2"} => mps # {} \/ "unseen" \in faults
    /\ pc = "cleanup" => faults # {}

(* What a command has done by each of its places. *)

WirelessDone ==
    cmd.name \in {"wireless", "purge"} /\ "call" \notin faults
        /\ pc \in {"prune", "settings", "key", "client", "root", "addwifi"} => wifi = {}

WiredDone ==
    /\ cmd.name = "wired" /\ "call" \notin faults /\ pc = "prune" => ~wired.on
    /\ pc = "setcerts" => wired.on

TlsDone ==
    /\ pc = "put" => todo # {}
    /\ pc = "put" /\ EnablesTls => Ports \ todo \subseteq staged
    /\ pc = "put" /\ ~EnablesTls => staged \subseteq todo
    /\ pc = "commit" => staged = IF EnablesTls THEN Ports ELSE {}
    /\ pc \in {"prune", "again"} /\ EnablesTls /\ "unseen" \notin faults => tls = Ports /\ ctx # {}
    /\ pc = "prune" /\ cmd.name = "untls" /\ "unseen" \notin faults => tls = {}

Cleared == {"servers", "mpscert", "addmps", "rule1"}
CiraDone ==
    "unseen" \notin faults =>
        /\ pc \in Cleared => rules = {}
        /\ pc \in Cleared \cup {"rule2", "apply1"} => applied = {}
        /\ pc \in {"mpscert", "addmps"} => mps = {}
        /\ pc \in {"addmps", "rule1", "rule2", "apply1", "apply0", "state", "detect"} => MpsRoot \in certs
        /\ pc \in {"rule1", "rule2", "apply1", "apply0", "state", "detect"} => mps = {runs}
        /\ pc = "rule2" => rules = {<<"periodic", runs>>}
        /\ pc \in {"apply1", "apply0", "state", "detect"} => rules = Triggers \X {runs}
        /\ pc = "apply0" => \E r \in rules : applied = {r}
        /\ pc \in {"state", "detect"} => applied = rules
        /\ pc = "detect" => cira

Done == WirelessDone /\ WiredDone /\ TlsDone /\ CiraDone

Inv ==
    /\ TypeOK /\ Places /\ Held(InUse) /\ Uploaded /\ Handles /\ Credential /\ Policies /\ Causes
    /\ Done /\ NoPanic /\ SuccessMeansInEffect /\ FailedTlsCleansUp /\ RetryRecovers

-----------------------------------------------------------------------------
\* The kinds of certificates are told apart by their tags.
LEMMA Kinds ==
    /\ Ca \notin Clients /\ MpsRoot \notin Clients
    /\ \A r : Issuer(r) \notin Clients
    /\ \A c \in Creds : Eap(c) \in Clients
    /\ \A r \in 1..MaxRuns : Tls(r) \in Clients
BY DEF Clients, Ca, MpsRoot, Issuer, Eap, Tls

\* The initial states satisfy the invariant.
LEMMA InitInv == Init => Inv
<1> SUFFICES ASSUME Init PROVE Inv
  OBVIOUS
<1>1. TypeOK
  <2>1. cmd \in Commands
    BY DEF Init, Commands, Command, Plain, Part
  <2>2. StoreTypeOK
    BY DEF Init, StoreInit, StoreTypeOK, Profiles
  <2>3. pc \in Pcs /\ result = "none" /\ faults = {}
    BY DEF Init, Pcs
  <2>4. tls \subseteq Ports /\ staged \subseteq Ports /\ enforced \subseteq Ports
    BY DEF Init, Ports
  <2>5. runs \in 0..MaxRuns
    BY MaxRunsAssumption DEF Init
  <2>6. QED
    BY <2>1, <2>2, <2>3, <2>4, <2>5 DEF Init, TypeOK
<1>2. /\ Places /\ Uploaded /\ Handles /\ Policies /\ Causes /\ Done
      /\ NoPanic /\ SuccessMeansInEffect /\ FailedTlsCleansUp /\ RetryRecovers
  BY DEF Init, Plain, Command, Places, Uploaded, Handles, EnablesTls, Policies, Causes, Done,
     WirelessDone, WiredDone, TlsDone, CiraDone, Cleared, NoPanic, SuccessMeansInEffect,
     FailedTlsCleansUp, RetryRecovers
<1>3. Held(InUse) /\ Credential
  BY DEF Init, StoreInit, Held, InUse, Credential
<1>4. QED
  BY <1>1, <1>2, <1>3 DEF Inv

-----------------------------------------------------------------------------
\* How a step ends does not depend on what it did.
Control == pc \in Pcs /\ result \in {"none", "ok", "error", "panic", "killed"}
           /\ faults \subseteq {"call", "prune", "unseen"}

LEMMA Ways ==
    ASSUME Control, NEW p \in Pcs, NEW o \in {"ok", "error", "panic", "killed"}
    PROVE  /\ Goto(p) => Control'
           /\ Ends(o) => Control'
           /\ Then(p) => Control'
           /\ FailsTo(p) => Control'
           /\ Fails => Control'
           /\ Unseen(p) => Control'
           /\ Reaches(p, o) => pc' \in Pcs /\ result' \in {"none", "ok", "error", "panic", "killed"}
BY DEF Control, Goto, Ends, Then, FailsTo, Fails, Unseen, Reaches, Pcs

LEMMA Destinations ==
    /\ AfterPrune \in Pcs /\ OnError \in Pcs
    /\ \A p \in Ports : AfterPut(p) \in Pcs
BY DEF AfterPrune, OnError, AfterPut, Pcs

LEMMA ControlStep ==
    ASSUME TypeOK, Next PROVE Control'
<1> USE Ways, Destinations
<1>0. Control
  BY DEF TypeOK, Control
<1>1. CASE Begin
  BY <1>0, <1>1 DEF Begin, Commands, Command, Control, Pcs, Plain, Part
<1>2. CASE Kill
  BY <1>0, <1>2 DEF Kill, Pcs
<1>3. CASE PruneCerts
  BY <1>0, <1>3 DEF PruneCerts, Prune, PruneUnread, Control, Pcs
<1>4. CASE ClearWirelessProfiles
  BY <1>0, <1>4 DEF ClearWirelessProfiles, Control, Call, Pcs, Invoke, Unseen
<1>5. CASE AddWiFiSettings
  BY <1>0, <1>5 DEF AddWiFiSettings, Call, Pcs, Invoke, Unseen
<1>6. CASE PutEthernetSettings
  BY <1>0, <1>6 DEF PutEthernetSettings, Call, Pcs, Invoke, Unseen
<1>7. CASE Disable8021xProfile
  BY <1>0, <1>7 DEF Disable8021xProfile, Control, Call, Pcs, Invoke, Unseen
<1>8. CASE PutIEEE8021xSettings
  BY <1>0, <1>8 DEF PutIEEE8021xSettings, AfterEnable, Call, Pcs, Invoke, Unseen
<1>9. CASE SetIEEE8021xCertificates
  BY <1>0, <1>9 DEF SetIEEE8021xCertificates, Call, Pcs, Invoke, Unseen
<1>10. CASE AddIssuer
  BY <1>0, <1>10 DEF AddIssuer, Call, Pcs, Invoke, Unseen, Upload
<1>11. CASE GenerateKeyPair
  BY <1>0, <1>11 DEF GenerateKeyPair, Call, Pcs, Invoke, Unseen
<1>12. CASE AddClientCert
  BY <1>0, <1>12 DEF AddClientCert, Call, Pcs, Invoke, Unseen, Upload
<1>13. CASE UpdateTLSCredentialContext
  BY <1>0, <1>13 DEF UpdateTLSCredentialContext, Call, Pcs, Invoke, Unseen
<1>14. CASE EnumerateTLSSettingData
  BY <1>0, <1>14 DEF EnumerateTLSSettingData, Call, Pcs, Invoke, Unseen
<1>15. CASE CommitTls
  BY <1>0, <1>15 DEF CommitTls, Commit, Call, Pcs, Invoke, Unseen
<1>16. CASE ClearRules
  BY <1>0, <1>16 DEF ClearRules, Call, Pcs, Invoke, Unseen
<1>17. CASE ClearServers
  BY <1>0, <1>17 DEF ClearServers, Call, Pcs, Invoke, Unseen
<1>18. CASE AddMpsRoot
  BY <1>0, <1>18 DEF AddMpsRoot, Call, Pcs, Invoke, Unseen
<1>19. CASE AddMPS
  BY <1>0, <1>19 DEF AddMPS, Call, Pcs, Invoke, Unseen
<1>20. CASE ApplyPolicies
  BY <1>0, <1>20 DEF ApplyPolicies, Call, Pcs, Invoke, Unseen
<1>21. CASE RequestStateChangeCIRA
  BY <1>0, <1>21 DEF RequestStateChangeCIRA, Call, Pcs, Invoke, Unseen
<1>22. CASE PutEnvironmentDetection
  BY <1>0, <1>22 DEF PutEnvironmentDetection, Call, Pcs, Invoke, Unseen
<1>23. CASE GetCertificates
  BY <1>0, <1>23 DEF GetCertificates, Call, Pcs, Invoke, Unseen
<1>24. CASE GetPrivateKeyHandle
  BY <1>0, <1>24 DEF GetPrivateKeyHandle, Call, Pcs, Invoke, Unseen, Skips
<1>25. CASE GetClientCertHandle
  BY <1>0, <1>25 DEF GetClientCertHandle, Call, Pcs, Invoke, Unseen, Upload, Finds, Skips, Same
<1>26. CASE GetTrustedRootCertHandle
  BY <1>0, <1>26 DEF GetTrustedRootCertHandle, Call, Pcs, Invoke, Unseen, Upload, Finds, Skips,
     Same
<1>27. CASE \E p \in Ports : ConfigureTLSSettings(p)
  BY <1>0, <1>27 DEF ConfigureTLSSettings, Call, Pcs, Invoke, Unseen
<1>28. CASE AddPolicyRule("rule1", "periodic", "rule2") \/ AddPolicyRule("rule2", "user", "apply1")
  BY <1>0, <1>28 DEF AddPolicyRule, Call, Pcs, Invoke, Unseen
<1>29. CASE Finished
  BY <1>0, <1>29 DEF Finished, vars, Control
<1>30. QED
  BY <1>1, <1>2, <1>3, <1>4, <1>5, <1>6, <1>7, <1>8, <1>9, <1>10, <1>11, <1>12, <1>13, <1>14,
     <1>15, <1>16, <1>17, <1>18, <1>19, <1>20, <1>21, <1>22, <1>23, <1>24, <1>25, <1>26, <1>27,
     <1>28, <1>29 DEF Next, Step, Configure8021x, Wireless, Wired, TlsCommand, CiraCommand

-----------------------------------------------------------------------------
\* What a step can change.
LEMMA StoreChanges ==
    ASSUME Next
    PROVE  \/ Begin \/ PruneCerts \/ UpdateTLSCredentialContext
           \/ AddIssuer \/ GenerateKeyPair \/ AddClientCert \/ AddMpsRoot
           \/ GetPrivateKeyHandle \/ GetClientCertHandle \/ GetTrustedRootCertHandle
           \/ UNCHANGED store
<1>1. CASE Kill \/ Finished
  BY <1>1 DEF Kill, Finished, vars
<1>2. CASE Wireless \/ Wired
  BY <1>2 DEF Wireless, Wired, ClearWirelessProfiles, AddWiFiSettings, PutEthernetSettings,
     Disable8021xProfile, PutIEEE8021xSettings, SetIEEE8021xCertificates
<1>3. CASE TlsCommand
  BY <1>3 DEF TlsCommand, UpdateTLSCredentialContext, EnumerateTLSSettingData,
     ConfigureTLSSettings, CommitTls, Commit
<1>4. CASE CiraCommand
  BY <1>4 DEF CiraCommand, ClearRules, ClearServers, AddMPS, AddPolicyRule, ApplyPolicies,
     RequestStateChangeCIRA, PutEnvironmentDetection
<1>5. CASE Configure8021x
  BY <1>5 DEF Configure8021x, GetCertificates
<1>6. QED
  BY <1>1, <1>2, <1>3, <1>4, <1>5 DEF Next, Step

LEMMA ProfileChanges ==
    ASSUME Next
    PROVE  \/ ClearWirelessProfiles \/ AddWiFiSettings
           \/ Disable8021xProfile \/ PutIEEE8021xSettings \/ SetIEEE8021xCertificates
           \/ UpdateTLSCredentialContext
           \/ UNCHANGED profiles
<1>1. CASE Begin \/ Kill \/ Finished
  BY <1>1 DEF Begin, Kill, Finished, vars
<1>2. CASE PruneCerts \/ Configure8021x
  BY <1>2 DEF PruneCerts, Prune, PruneUnread, Configure8021x, GetCertificates,
     GetPrivateKeyHandle, GetClientCertHandle, GetTrustedRootCertHandle, Same, Upload, Finds,
     Skips, Unseen
<1>3. CASE Wireless \/ Wired
  BY <1>3 DEF Wireless, Wired, PutEthernetSettings, Same
<1>4. CASE TlsCommand
  BY <1>4 DEF TlsCommand, AddIssuer, GenerateKeyPair, AddClientCert, EnumerateTLSSettingData,
     ConfigureTLSSettings, CommitTls, Commit, Same, Upload, Unseen
<1>5. CASE CiraCommand
  BY <1>5 DEF CiraCommand, ClearRules, ClearServers, AddMpsRoot, AddMPS, AddPolicyRule,
     ApplyPolicies, RequestStateChangeCIRA, PutEnvironmentDetection, Same
<1>6. QED
  BY <1>1, <1>2, <1>3, <1>4, <1>5 DEF Next, Step

LEMMA PortChanges ==
    ASSUME Next
    PROVE  (\E p \in Ports : ConfigureTLSSettings(p)) \/ CommitTls \/ UNCHANGED ports
<1>1. CASE Begin \/ Kill \/ Finished
  BY <1>1 DEF Begin, Kill, Finished, vars
<1>2. CASE PruneCerts \/ Configure8021x
  BY <1>2 DEF PruneCerts, Prune, PruneUnread, Configure8021x, GetCertificates,
     GetPrivateKeyHandle, GetClientCertHandle, GetTrustedRootCertHandle, Same, Upload, Finds,
     Skips, Unseen
<1>3. CASE Wireless \/ Wired
  BY <1>3 DEF Wireless, Wired, ClearWirelessProfiles, AddWiFiSettings, PutEthernetSettings,
     Disable8021xProfile, PutIEEE8021xSettings, SetIEEE8021xCertificates, Same
<1>4. CASE TlsCommand
  BY <1>4 DEF TlsCommand, AddIssuer, GenerateKeyPair, AddClientCert, UpdateTLSCredentialContext,
     EnumerateTLSSettingData, Same, Upload, Unseen
<1>5. CASE CiraCommand
  BY <1>5 DEF CiraCommand, ClearRules, ClearServers, AddMpsRoot, AddMPS, AddPolicyRule,
     ApplyPolicies, RequestStateChangeCIRA, PutEnvironmentDetection, Same
<1>6. QED
  BY <1>1, <1>2, <1>3, <1>4, <1>5 DEF Next, Step

LEMMA RemoteChanges ==
    ASSUME Next PROVE CiraCommand \/ UNCHANGED remote
<1>1. CASE Begin \/ Kill \/ Finished
  BY <1>1 DEF Begin, Kill, Finished, vars
<1>2. CASE PruneCerts \/ Configure8021x
  BY <1>2 DEF PruneCerts, Prune, PruneUnread, Configure8021x, GetCertificates,
     GetPrivateKeyHandle, GetClientCertHandle, GetTrustedRootCertHandle, Same, Upload, Finds,
     Skips, Unseen
<1>3. CASE Wireless \/ Wired
  BY <1>3 DEF Wireless, Wired, ClearWirelessProfiles, AddWiFiSettings, PutEthernetSettings,
     Disable8021xProfile, PutIEEE8021xSettings, SetIEEE8021xCertificates, Same
<1>4. CASE TlsCommand
  BY <1>4 DEF TlsCommand, AddIssuer, GenerateKeyPair, AddClientCert, UpdateTLSCredentialContext,
     EnumerateTLSSettingData, ConfigureTLSSettings, CommitTls, Commit, Same, Upload, Unseen
<1>5. QED
  BY <1>1, <1>2, <1>3, <1>4 DEF Next, Step

\* Only Begin gives the process a command.
LEMMA ProcessChanges ==
    ASSUME Next
    PROVE  \/ Begin
           \/ GetCertificates /\ UNCHANGED <<runs, cmd, got, todo>>
           \/ EnumerateTLSSettingData /\ UNCHANGED <<runs, cmd, known, got>>
           \/ (\E p \in Ports : ConfigureTLSSettings(p)) /\ UNCHANGED <<runs, cmd, known, got>>
           \/ /\ GetClientCertHandle \/ GetTrustedRootCertHandle \/ AddIssuer \/ AddClientCert
              /\ UNCHANGED <<runs, cmd, known, todo>>
           \/ UNCHANGED process
<1>1. CASE Kill \/ Finished
  BY <1>1 DEF Kill, Finished, vars
<1>2. CASE PruneCerts \/ Configure8021x
  BY <1>2 DEF PruneCerts, Prune, PruneUnread, Configure8021x, GetCertificates,
     GetPrivateKeyHandle, GetClientCertHandle, GetTrustedRootCertHandle, Same, Upload, Finds,
     Skips, Unseen
<1>3. CASE Wireless \/ Wired
  BY <1>3 DEF Wireless, Wired, ClearWirelessProfiles, AddWiFiSettings, PutEthernetSettings,
     Disable8021xProfile, PutIEEE8021xSettings, SetIEEE8021xCertificates, Same
<1>4. CASE TlsCommand
  BY <1>4 DEF TlsCommand, AddIssuer, GenerateKeyPair, AddClientCert, UpdateTLSCredentialContext,
     EnumerateTLSSettingData, ConfigureTLSSettings, CommitTls, Commit, Same, Upload, Unseen
<1>5. CASE CiraCommand
  BY <1>5 DEF CiraCommand, ClearRules, ClearServers, AddMpsRoot, AddMPS, AddPolicyRule,
     ApplyPolicies, RequestStateChangeCIRA, PutEnvironmentDetection, Same
<1>6. QED
  BY <1>1, <1>2, <1>3, <1>4, <1>5 DEF Next, Step

\* A command goes on with what it was asked for, and what went wrong stays wrong.
LEMMA Asked ==
    ASSUME Next, ~Begin PROVE cmd' = cmd /\ runs' = runs /\ faults \subseteq faults'
<1>1. SUFFICES faults \subseteq faults'
  BY ProcessChanges DEF process
<1>2. CASE Kill \/ Finished
  BY <1>2 DEF Kill, Ends, Finished, vars
<1>3. CASE PruneCerts \/ Configure8021x
  BY <1>3 DEF PruneCerts, Prune, PruneUnread, Configure8021x, GetCertificates,
     GetPrivateKeyHandle, GetClientCertHandle, GetTrustedRootCertHandle, Call, Goto, Ends, Then,
     Fails, FailsTo, Invoke, Unseen, Upload, Finds, Skips, Same
<1>4. CASE Wireless \/ Wired
  BY <1>4 DEF Wireless, ClearWirelessProfiles, AddWiFiSettings, Wired, PutEthernetSettings,
     Disable8021xProfile, PutIEEE8021xSettings, SetIEEE8021xCertificates, Call, Goto, Then, Fails,
     FailsTo, Invoke, Unseen
<1>5. CASE TlsCommand
  BY <1>5 DEF TlsCommand, AddIssuer, GenerateKeyPair, AddClientCert, UpdateTLSCredentialContext,
     EnumerateTLSSettingData, ConfigureTLSSettings, CommitTls, Commit, Call, Goto, Ends, Then,
     FailsTo, Invoke, Unseen, Upload
<1>6. CASE CiraCommand
  BY <1>6 DEF CiraCommand, ClearRules, ClearServers, AddMpsRoot, AddMPS, AddPolicyRule,
     ApplyPolicies, RequestStateChangeCIRA, PutEnvironmentDetection, Call, Goto, Ends, Then, Fails,
     FailsTo, Invoke, Unseen
<1>7. QED
  BY <1>2, <1>3, <1>4, <1>5, <1>6 DEF Next, Step

-----------------------------------------------------------------------------
\* Every step keeps the types.
LEMMA Parts ==
    ASSUME TypeOK
    PROVE  /\ cmd.key \in Part /\ cmd.client \in Part
           /\ cmd.name \in {"wireless", "purge", "wired", "tls", "ea", "untls", "cira"}
           /\ Uses8021x => cmd.name \in {"wireless", "wired"}
           /\ ~Uses8021x => cmd.client = None /\ ~cmd.ca
           /\ cmd.eaptls \in BOOLEAN /\ cmd.ca \in BOOLEAN
BY DEF TypeOK, Commands, Command, Plain, Part, Uses8021x

LEMMA StoreStep ==
    ASSUME TypeOK, Places, Next
    PROVE  certs' \subseteq Clients \cup Roots /\ keys' \subseteq Clients /\ lacking' \subseteq Clients
<1>0. certs \subseteq Clients \cup Roots /\ keys \subseteq Clients /\ lacking \subseteq Clients
  BY DEF TypeOK, StoreTypeOK
<1>1. CASE PruneCerts
  BY <1>0, <1>1 DEF PruneCerts, Prune, PruneUnread, DeleteUnused, store
<1>2. CASE AddIssuer \/ AddMpsRoot
  <2>1. MpsRoot \in Roots /\ (runs \in 1..MaxRuns => Issuer(runs) \in Roots)
    BY DEF Roots
  <2>2. QED
    BY <1>0, <1>2, <2>1 DEF Places, AddIssuer, AddMpsRoot, Upload, Call, Invoke, AddCert, store
<1>3. CASE GenerateKeyPair \/ AddClientCert \/ UpdateTLSCredentialContext
  BY <1>0, <1>3, Kinds DEF Places, GenerateKeyPair, AddClientCert, UpdateTLSCredentialContext,
     Own, Upload, Call, AddCert, AddKey, Lacks, store
<1>4. CASE GetPrivateKeyHandle \/ GetClientCertHandle
  <2>1. \A c \in Part : c # None => Eap(c) \in Clients
    BY Kinds DEF Part
  <2>2. CASE GetPrivateKeyHandle
    BY <1>0, <2>1, <2>2, Parts DEF GetPrivateKeyHandle, Skips, Call, AddKey, Lacks, store
  <2>3. CASE GetClientCertHandle
    BY <1>0, <2>1, <2>3, Parts DEF GetClientCertHandle, Skips, Finds, Upload, AddCert, store
  <2>4. QED
    BY <1>4, <2>2, <2>3
<1>5. CASE GetTrustedRootCertHandle
  BY <1>0, <1>5 DEF GetTrustedRootCertHandle, Skips, Finds, Upload, AddCert, store, Roots
<1>6. CASE UNCHANGED store
  BY <1>0, <1>6 DEF store
<1>7. CASE Begin
  <2>1. cmd'.client \in Part
    BY <1>7 DEF Begin, Commands, Command, Plain, Part
  <2>2. cmd'.client # None => Eap(cmd'.client) \in Clients
    BY <2>1, Kinds DEF Part
  <2>3. QED
    BY <1>0, <1>7, <2>2 DEF Begin
<1>8. QED
  BY <1>1, <1>2, <1>3, <1>4, <1>5, <1>6, <1>7, StoreChanges

LEMMA WiredType ==
    ASSUME NEW on \in BOOLEAN, NEW used \in Profiles, SetWired(on, used)
    PROVE  wired' \in [on : BOOLEAN, certs : Profiles] /\ wired'.on = on /\ wired'.certs = used
BY DEF SetWired

\* What a process was given makes a profile, and so does a part of it.
LEMMA GivenProfile ==
    ASSUME TypeOK PROVE \A p : p \subseteq Given => p \in Profiles
<1>1. cmd.client \in Part
  BY Parts
<1>2. Given \subseteq {Eap(c) : c \in Creds} \cup {Ca}
  BY <1>1 DEF Given, Part
<1>3. \A c, d \in Creds : Eap(c) \in Given /\ Eap(d) \in Given => c = d
  BY DEF Given, Eap, Ca
<1>4. QED
  BY <1>2, <1>3 DEF Profiles

LEMMA ProfileStep ==
    ASSUME TypeOK, Places, Handles, Next
    PROVE  /\ wifi' \subseteq Profiles
           /\ wired' \in [on : BOOLEAN, certs : Profiles]
           /\ ctx' \in {{}} \cup {{Tls(r)} : r \in 1..MaxRuns}
<1>0. /\ wifi \subseteq Profiles /\ wired.certs \in Profiles
      /\ wired \in [on : BOOLEAN, certs : Profiles]
      /\ ctx \in {{}} \cup {{Tls(r)} : r \in 1..MaxRuns}
  BY DEF TypeOK, StoreTypeOK
<1>1. CASE ClearWirelessProfiles
  BY <1>0, <1>1 DEF ClearWirelessProfiles
<1>2. CASE AddWiFiSettings
  <2>2. got \in Profiles
    BY <1>2, GivenProfile DEF AddWiFiSettings, Handles
  <2>3. QED
    BY <1>0, <1>2, <2>2 DEF AddWiFiSettings, Call, Invoke, Unseen
<1>3. CASE Disable8021xProfile
  <2>1. {} \in Profiles
    BY DEF Profiles
  <2>2. SetWired(FALSE, {}) \/ UNCHANGED wired
    BY <1>3 DEF Disable8021xProfile
  <2>3. wired' \in [on : BOOLEAN, certs : Profiles]
    BY <1>0, <2>1, <2>2, WiredType
  <2>4. QED
    BY <1>0, <1>3, <2>3 DEF Disable8021xProfile
<1>4. CASE PutIEEE8021xSettings
  <2>1. SetWired(TRUE, wired.certs) \/ UNCHANGED wired
    BY <1>4 DEF PutIEEE8021xSettings, Call, Invoke, Unseen
  <2>2. wired' \in [on : BOOLEAN, certs : Profiles]
    BY <1>0, <2>1, WiredType
  <2>3. QED
    BY <1>0, <1>4, <2>2 DEF PutIEEE8021xSettings
<1>5. CASE SetIEEE8021xCertificates
  <2>1. got \in Profiles
    BY <1>5, GivenProfile DEF SetIEEE8021xCertificates, Handles
  <2>2. SetWired(TRUE, got) \/ UNCHANGED wired
    BY <1>5 DEF SetIEEE8021xCertificates, Call, Invoke, Unseen
  <2>3. wired' \in [on : BOOLEAN, certs : Profiles]
    BY <1>0, <2>1, <2>2, WiredType
  <2>4. QED
    BY <1>0, <1>5, <2>3 DEF SetIEEE8021xCertificates
<1>6. CASE UpdateTLSCredentialContext
  BY <1>0, <1>6 DEF UpdateTLSCredentialContext, Places, Call, Own, Invoke, Unseen
<1>7. CASE UNCHANGED profiles
  BY <1>0, <1>7 DEF profiles
<1>8. QED
  BY <1>1, <1>2, <1>3, <1>4, <1>5, <1>6, <1>7, ProfileChanges

LEMMA PortStep ==
    ASSUME TypeOK, Next
    PROVE  tls' \subseteq Ports /\ staged' \subseteq Ports /\ enforced' \subseteq Ports
<1>0. tls \subseteq Ports /\ staged \subseteq Ports /\ enforced \subseteq Ports
  BY DEF TypeOK
<1>1. CASE \E p \in Ports : ConfigureTLSSettings(p)
  BY <1>0, <1>1 DEF ConfigureTLSSettings, Call, Invoke, Unseen
<1>2. CASE CommitTls
  BY <1>0, <1>2 DEF CommitTls, Commit, Call, Invoke, Unseen
<1>3. CASE UNCHANGED ports
  BY <1>0, <1>3 DEF ports
<1>4. QED
  BY <1>1, <1>2, <1>3, PortChanges

LEMMA RemoteStep ==
    ASSUME TypeOK, Places, Next
    PROVE  /\ mps' \subseteq 1..MaxRuns /\ rules' \subseteq Triggers \X (1..MaxRuns)
           /\ applied' \subseteq Triggers \X (1..MaxRuns) /\ cira' \in BOOLEAN
<1>0. /\ mps \subseteq 1..MaxRuns /\ rules \subseteq Triggers \X (1..MaxRuns)
      /\ applied \subseteq Triggers \X (1..MaxRuns) /\ cira \in BOOLEAN
  BY DEF TypeOK
<1>1. CASE ClearRules \/ ClearServers
  BY <1>0, <1>1 DEF ClearRules, ClearServers
<1>2. CASE AddMpsRoot \/ RequestStateChangeCIRA \/ PutEnvironmentDetection
  BY <1>0, <1>2 DEF AddMpsRoot, RequestStateChangeCIRA, PutEnvironmentDetection, Call, Same,
     remote, Invoke, Unseen
<1>3. CASE AddMPS
  BY <1>0, <1>3 DEF AddMPS, Call, Places, Invoke, Unseen
<1>4. ASSUME NEW place, NEW trigger \in Triggers, NEW next, AddPolicyRule(place, trigger, next)
      PROVE  rules' \subseteq Triggers \X (1..MaxRuns) /\ UNCHANGED <<mps, applied, cira>>
  <2>1. \A s \in mps : <<trigger, s>> \in Triggers \X (1..MaxRuns)
    BY <1>0
  <2>2. QED
    BY <1>0, <1>4, <2>1 DEF AddPolicyRule, Call, Invoke, Unseen
<1>5. CASE ApplyPolicies
  BY <1>0, <1>5 DEF ApplyPolicies, Call, Invoke, Unseen
<1>6. CASE UNCHANGED remote
  BY <1>0, <1>6 DEF remote
<1>7. "periodic" \in Triggers /\ "user" \in Triggers
  BY DEF Triggers
<1>8. QED
  BY <1>0, <1>1, <1>2, <1>3, <1>4, <1>5, <1>6, <1>7, RemoteChanges DEF CiraCommand

LEMMA ProcessStep ==
    ASSUME TypeOK, Places, Next
    PROVE  /\ runs' \in 0..MaxRuns /\ cmd' \in Commands
           /\ known' \subseteq Clients \cup Roots /\ got' \subseteq Clients \cup Roots
           /\ todo' \subseteq Ports
<1>0. /\ runs \in 0..MaxRuns /\ cmd \in Commands
      /\ known \subseteq Clients \cup Roots /\ got \subseteq Clients \cup Roots /\ todo \subseteq Ports
      /\ certs \subseteq Clients \cup Roots
  BY DEF TypeOK, StoreTypeOK
<1>1. CASE Begin
  BY <1>0, <1>1, MaxRunsAssumption DEF Begin
<1>2. CASE GetCertificates /\ UNCHANGED <<runs, cmd, got, todo>>
  BY <1>0, <1>2 DEF GetCertificates
<1>3. CASE EnumerateTLSSettingData /\ UNCHANGED <<runs, cmd, known, got>>
  BY <1>0, <1>3 DEF EnumerateTLSSettingData
<1>4. CASE (\E p \in Ports : ConfigureTLSSettings(p)) /\ UNCHANGED <<runs, cmd, known, got>>
  BY <1>0, <1>4 DEF ConfigureTLSSettings
<1>5. CASE UNCHANGED process
  BY <1>0, <1>5 DEF process
<1>6. CASE /\ GetClientCertHandle \/ GetTrustedRootCertHandle \/ AddIssuer \/ AddClientCert
           /\ UNCHANGED <<runs, cmd, known, todo>>
  <2>1. /\ \A c \in Part : c # None => Eap(c) \in Clients
        /\ Ca \in Roots
        /\ runs \in 1..MaxRuns => Issuer(runs) \in Roots /\ Tls(runs) \in Clients
    BY Kinds DEF Part, Roots
  <2>2. got' \subseteq Clients \cup Roots
    <3>1. CASE GetClientCertHandle
      BY <1>0, <2>1, <3>1, Parts DEF GetClientCertHandle, Skips, Same, process, Finds, Upload
    <3>2. CASE GetTrustedRootCertHandle
      BY <1>0, <2>1, <3>2 DEF GetTrustedRootCertHandle, Skips, Same, process, Finds, Upload
    <3>3. CASE AddIssuer \/ AddClientCert
      BY <1>0, <2>1, <3>3 DEF AddIssuer, AddClientCert, Own, Upload, Places
    <3>4. QED
      BY <1>6, <3>1, <3>2, <3>3
  <2>3. QED
    BY <1>0, <1>6, <2>2
<1>7. QED
  BY <1>1, <1>2, <1>3, <1>4, <1>5, <1>6, ProcessChanges

LEMMA TypeStep ==
    ASSUME TypeOK, Places, Handles, Next PROVE TypeOK'
BY ControlStep, StoreStep, ProfileStep, PortStep, RemoteStep, ProcessStep
   DEF TypeOK, StoreTypeOK, Control

-----------------------------------------------------------------------------
\* Only the command it belongs to reaches a place.
LEMMA PlacesStep ==
    ASSUME TypeOK, Places, Next PROVE Places'
<1>0. /\ runs \in 0..MaxRuns
      /\ cmd.name \in {"wireless", "purge", "wired", "tls", "ea", "untls", "cira"}
      /\ (Uses8021x => cmd.name \in {"wireless", "wired"})
  BY Parts DEF TypeOK
<1>1. CASE Begin
  <2>1. runs' \in 1..MaxRuns /\ result' = "none"
    BY <1>0, <1>1, MaxRunsAssumption DEF Begin
  <2>2. cmd'.name \in {"wireless", "purge", "wired", "tls", "ea", "untls", "cira"}
    BY <1>1 DEF Begin, Commands, Command, Plain, Part
  <2>3. pc' = CASE cmd'.name \in {"wireless", "purge"} -> "wifi"
               [] cmd'.name = "wired" -> "ethernet"
               [] cmd'.name = "tls" -> "issuer"
               [] cmd'.name = "ea" -> "genkey"
               [] cmd'.name = "untls" -> "enumerate"
               [] cmd'.name = "cira" -> "rules"
    BY <1>1 DEF Begin
  <2>4. QED
    BY <2>1, <2>2, <2>3 DEF Places, EnablesTls
<1>2. CASE Kill
  BY <1>2 DEF Kill, Ends, Places
<1>3. CASE Finished
  BY <1>3 DEF Finished, vars, process, Places, EnablesTls
<1>4. CASE PruneCerts
  BY <1>0, <1>4 DEF PruneCerts, Prune, PruneUnread, AfterPrune, Reaches, Ends, process, Places,
     EnablesTls, Uses8021x
<1>5. CASE GetCertificates \/ GetPrivateKeyHandle
  BY <1>5 DEF Uses8021x, GetCertificates, GetPrivateKeyHandle, Same, process, Call, Goto, Ends,
     Then, Fails, FailsTo, Reaches, Places, EnablesTls, Invoke, Unseen, Skips
<1>6. CASE GetClientCertHandle \/ GetTrustedRootCertHandle
  BY <1>6 DEF Uses8021x, GetClientCertHandle, GetTrustedRootCertHandle, Same, process, Call,
     Goto, Then, FailsTo, Reaches, Places, EnablesTls, Invoke, Unseen, Upload, Finds, Skips
<1>7. CASE Wireless
  BY <1>0, <1>7 DEF Wireless, ClearWirelessProfiles, AddWiFiSettings, AfterPrune, process, Call,
     Then, FailsTo, Reaches, Places, EnablesTls, Uses8021x, Invoke, Unseen
<1>8. CASE Wired
  <2>1. UNCHANGED <<runs, cmd>>
    BY <1>8 DEF Wired, PutEthernetSettings, Disable8021xProfile, PutIEEE8021xSettings,
       SetIEEE8021xCertificates, Same, process
  <2>2. /\ pc \in {"ethernet", "disable", "enable", "setcerts"}
        /\ pc' # "idle" => result' = result
    BY <1>8 DEF Wired, PutEthernetSettings, Disable8021xProfile, PutIEEE8021xSettings,
       SetIEEE8021xCertificates, Call, Invoke, Goto, Then, Fails, FailsTo, Unseen, Reaches
  <2>3. \/ pc' \in {"idle", "disable", "prune"}
        \/ pc' = "settings" /\ Uses8021x
        \/ pc' = "setcerts" /\ pc = "enable"
    BY <1>8 DEF Wired, PutEthernetSettings, Disable8021xProfile, PutIEEE8021xSettings,
       AfterEnable, SetIEEE8021xCertificates, AfterPrune, Call, Invoke, Goto, Then, Fails, FailsTo,
       Unseen, Reaches, Places
  <2>4. QED
    BY <2>1, <2>2, <2>3 DEF Places, EnablesTls, Uses8021x
<1>9. CASE AddIssuer \/ GenerateKeyPair \/ AddClientCert \/ UpdateTLSCredentialContext
  BY <1>9 DEF Uses8021x, AddIssuer, GenerateKeyPair, AddClientCert, UpdateTLSCredentialContext,
     OnError, Same, process, Call, Goto, Then, FailsTo, Reaches, Places, EnablesTls, Invoke,
     Unseen, Upload
<1>10. CASE EnumerateTLSSettingData \/ CommitTls
  BY <1>10 DEF EnumerateTLSSettingData, CommitTls, Commit, OnError, process, Call, Goto, Then,
     FailsTo, Reaches, Places, EnablesTls, Invoke, Unseen
<1>11. CASE \E p \in Ports : ConfigureTLSSettings(p)
  BY <1>11 DEF ConfigureTLSSettings, AfterPut, OnError, Call, Ends, Then, FailsTo, Reaches,
     Places, EnablesTls, Invoke, Unseen
<1>12. CASE CiraCommand
  BY <1>12 DEF CiraCommand, ClearRules, ClearServers, AddMpsRoot, AddMPS, AddPolicyRule,
     ApplyPolicies, RequestStateChangeCIRA, PutEnvironmentDetection, Same, process, Call, Goto,
     Ends, Then, Fails, FailsTo, Reaches, Places, EnablesTls, Invoke, Unseen
<1>13. QED
  BY <1>1, <1>2, <1>3, <1>4, <1>5, <1>6, <1>7, <1>8, <1>9, <1>10, <1>11, <1>12
     DEF Next, Step, Configure8021x, TlsCommand

-----------------------------------------------------------------------------
\* Only PruneCerts removes something, and nothing that is used.
LEMMA StoreKeeps ==
    ASSUME Next
    PROVE  /\ InUse \cap certs \subseteq certs' /\ InUse \cap keys \subseteq keys'
           /\ lacking \subseteq lacking'
           /\ PruneCerts \/ (certs \subseteq certs' /\ keys \subseteq keys')
<1>1. CASE PruneCerts
  BY <1>1 DEF PruneCerts, Prune, PruneUnread, DeleteUnused, store, InUse, Associated
<1>2. CASE AddIssuer \/ GenerateKeyPair \/ AddClientCert \/ AddMpsRoot
  BY <1>2 DEF AddIssuer, GenerateKeyPair, AddClientCert, AddMpsRoot, Call, AddCert, AddKey,
     store, Invoke, Unseen, Upload, Lacks
<1>3. CASE GetPrivateKeyHandle \/ GetClientCertHandle \/ GetTrustedRootCertHandle
  BY <1>3 DEF GetPrivateKeyHandle, GetClientCertHandle, GetTrustedRootCertHandle, Call, AddCert,
     AddKey, store, Invoke, Unseen, Upload, Finds, Skips, Same, Lacks
<1>4. CASE UNCHANGED store
  BY <1>4 DEF store
<1>5. CASE Begin \/ UpdateTLSCredentialContext
  BY <1>5 DEF Begin, UpdateTLSCredentialContext, Lacks, store
<1>6. QED
  BY <1>1, <1>2, <1>3, <1>4, <1>5, StoreChanges

\* The certificates a process has handles of can be used.
LEMMA GotHeld ==
    ASSUME Uploaded, Handles, pc \in {"addwifi", "setcerts"} PROVE Held(got)
<1>1. got \subseteq certs /\ got \subseteq Given
  BY DEF Uploaded, Handles
<1>2. Given \cap Clients \subseteq keys \cup lacking
  BY Kinds DEF Given, Uploaded
<1>3. QED
  BY <1>1, <1>2 DEF Held

\* What a step makes the device use is held already.
LEMMA UseGrows ==
    ASSUME TypeOK, Places, Uploaded, Handles, Next
    PROVE  \/ InUse' \subseteq InUse
           \/ \E new : Held(new) /\ InUse' \subseteq InUse \cup new /\ UNCHANGED store
<1>0. wired \in [on : BOOLEAN, certs : Profiles] /\ {} \in Profiles
  BY DEF TypeOK, StoreTypeOK, Profiles
<1>1. CASE ClearWirelessProfiles
  BY <1>1 DEF ClearWirelessProfiles, InUse
<1>2. CASE AddWiFiSettings
  <2>1. wifi' \subseteq wifi \cup {got} /\ UNCHANGED <<store, wired, ctx>>
    BY <1>2 DEF AddWiFiSettings, Call, Invoke
  <2>2. InUse' \subseteq InUse \cup got
    BY <2>1 DEF InUse
  <2>3. Held(got)
    BY <1>2, GotHeld DEF AddWiFiSettings
  <2>4. \E new : Held(new) /\ InUse' \subseteq InUse \cup new /\ UNCHANGED store
    <3> WITNESS got
    <3> QED
      BY <2>1, <2>2, <2>3
  <2>5. QED
    BY <2>4
<1>3. CASE Disable8021xProfile \/ PutIEEE8021xSettings
  <2>1. UNCHANGED <<wifi, ctx>> /\ (SetWired(FALSE, {}) \/ SetWired(TRUE, wired.certs) \/ UNCHANGED wired)
    BY <1>3 DEF Disable8021xProfile, PutIEEE8021xSettings, Call, Invoke, Unseen
  <2>2. wired'.certs \subseteq wired.certs
    BY <1>0, <2>1, WiredType
  <2>3. QED
    BY <2>1, <2>2 DEF InUse
<1>4. CASE SetIEEE8021xCertificates
  <2>1. /\ UNCHANGED <<store, wifi, ctx>>
        /\ SetWired(TRUE, got) \/ UNCHANGED wired
    BY <1>4 DEF SetIEEE8021xCertificates, Call, Invoke, Unseen
  <2>2. Held(got)
    BY <1>4, GotHeld DEF SetIEEE8021xCertificates
  <2>3. got \in Profiles
    BY <1>4, GivenProfile DEF SetIEEE8021xCertificates, Handles
  <2>4. wired'.certs \subseteq wired.certs \cup got
    BY <1>0, <2>1, <2>3, WiredType
  <2>5. InUse' \subseteq InUse \cup got
    BY <2>1, <2>4 DEF InUse
  <2>6. \E new : Held(new) /\ InUse' \subseteq InUse \cup new /\ UNCHANGED store
    <3> WITNESS got
    <3> QED
      BY <2>1, <2>2, <2>5
  <2>7. QED
    BY <2>6
<1>5. CASE UpdateTLSCredentialContext
  <2>1. CASE Own \notin got
    BY <1>5, <2>1 DEF UpdateTLSCredentialContext, InUse
  <2>2. CASE Own \in got
    <3>1. Held({Own})
      BY <1>5, <2>2 DEF UpdateTLSCredentialContext, Uploaded, Held
    <3>2. UNCHANGED <<store, wifi, wired>> /\ ctx' \subseteq ctx \cup {Own}
      BY <1>5, <2>2 DEF UpdateTLSCredentialContext, Call
    <3>3. InUse' \subseteq InUse \cup {Own}
      BY <3>2 DEF InUse
    <3>4. \E new : Held(new) /\ InUse' \subseteq InUse \cup new /\ UNCHANGED store
      <4> WITNESS {Own}
      <4> QED
        BY <3>1, <3>2, <3>3
    <3>5. QED
      BY <3>4
  <2>3. QED
    BY <2>1, <2>2
<1>6. CASE UNCHANGED profiles
  BY <1>6 DEF profiles, InUse
<1>7. QED
  BY <1>1, <1>2, <1>3, <1>4, <1>5, <1>6, ProfileChanges

LEMMA HeldStep ==
    ASSUME TypeOK, Places, Held(InUse), Uploaded, Handles, Next PROVE Held(InUse)'
<1>1. CASE InUse' \subseteq InUse
  BY <1>1, StoreKeeps DEF Held
<1>2. ASSUME NEW new, Held(new), InUse' \subseteq InUse \cup new, UNCHANGED store
      PROVE  Held(InUse)'
  BY <1>2 DEF Held, store
<1>3. QED
  BY <1>1, <1>2, UseGrows

-----------------------------------------------------------------------------
LEMMA Beginning ==
    Begin => pc' \in {"wifi", "ethernet", "issuer", "genkey", "enumerate", "rules"}
BY DEF Begin, Commands, Command, Plain, Part

\* At the places where a process counts on what it has put on the device,
\* nothing is pruned.
LEMMA UploadedStep ==
    ASSUME TypeOK, Places, Uploaded, Handles, Next PROVE Uploaded'
<1>0. /\ ~Begin => cmd' = cmd /\ runs' = runs /\ Own' = Own
      /\ lacking \subseteq lacking'
      /\ ~PruneCerts => certs \subseteq certs' /\ keys \subseteq keys'
  BY Asked, StoreKeeps DEF Own
<1>1. (cmd.client \notin {cmd.key, None} => Eap(cmd.client) \in lacking)'
  <2>1. CASE Begin
    BY <2>1 DEF Begin
  <2>2. CASE ~Begin
    BY <1>0, <2>2 DEF Uploaded
  <2>3. QED
    BY <2>1, <2>2
<1>2. CASE Begin
  <2>1. pc' \in {"wifi", "ethernet", "issuer", "genkey", "enumerate", "rules"} /\ got' = {}
    BY <1>2, Beginning DEF Begin
  <2>2. QED
    BY <1>1, <2>1 DEF Uploaded
<1>3. CASE Kill
  BY <1>1, <1>3 DEF Kill, Ends, Uploaded
<1>4. CASE Finished
  BY <1>4 DEF Finished, vars, store, process, Own, Uploaded
<1>5. CASE PruneCerts \/ ClearWirelessProfiles
  <2>1. pc' \in {"idle", "prune", "again", "settings", "addwifi"}
    BY <1>5 DEF PruneCerts, Prune, PruneUnread, ClearWirelessProfiles, AfterPrune, FailsTo,
       Reaches, Ends
  <2>2. pc' = "addwifi" => ~Uses8021x /\ cmd.name = "wireless" /\ pc \in {"prune", "wifi"}
    BY <1>5 DEF PruneCerts, Prune, PruneUnread, ClearWirelessProfiles, AfterPrune, FailsTo,
       Reaches, Ends, Places, EnablesTls
  <2>3. ~Begin /\ got' = got
    BY <1>5 DEF PruneCerts, Prune, PruneUnread, ClearWirelessProfiles, process, Begin
  <2>4. pc' = "addwifi" => got' = {} /\ cmd'.client = None
    BY <1>0, <2>2, <2>3, Parts DEF Handles, EnablesTls
  <2>5. QED
    BY <1>1, <2>1, <2>4 DEF Uploaded
<1>6. CASE GetCertificates \/ GetPrivateKeyHandle
  <2>1. ~Begin /\ ~PruneCerts /\ got' = got
    BY <1>6 DEF GetCertificates, GetPrivateKeyHandle, Skips, Same, process, Begin, PruneCerts,
       Prune, PruneUnread
  <2>2. CASE GetCertificates
    <3>1. pc' = "idle" \/ (pc' = "key" /\ known' = certs)
      BY <2>2 DEF GetCertificates, Ends, Goto, Fails, FailsTo, Reaches
    <3>2. QED
      BY <1>0, <1>1, <2>1, <3>1 DEF Uploaded
  <2>3. CASE GetPrivateKeyHandle
    <3>1. pc = "key" /\ got = {} /\ known' = known
      BY <2>3 DEF GetPrivateKeyHandle, Skips, Same, process, Handles
    <3>2. pc' \in {"idle", "client"}
      BY <2>3 DEF GetPrivateKeyHandle, Skips, Call, Ends, Goto, Then, FailsTo, Unseen, Reaches
    <3>3. pc' = "client" /\ cmd.key # None => Eap(cmd.key) \in keys' \cup lacking'
      BY <2>3 DEF GetPrivateKeyHandle, Skips, Call, FailsTo, Reaches, AddKey, Lacks, store
    <3>4. pc' = "client" /\ cmd'.client # None => Eap(cmd'.client) \in keys' \cup lacking'
      BY <1>0, <1>1, <2>1, <3>3
    <3>5. QED
      BY <1>0, <1>1, <2>1, <3>1, <3>2, <3>4 DEF Uploaded
  <2>4. QED
    BY <1>6, <2>2, <2>3
<1>7. CASE GetClientCertHandle \/ GetTrustedRootCertHandle
  <2>1. /\ pc \in {"client", "root"} /\ pc' \in {"idle", "root", "enable", "addwifi"}
        /\ known' = known /\ known \subseteq certs /\ got \subseteq certs
    BY <1>7 DEF GetClientCertHandle, GetTrustedRootCertHandle, Skips, Finds, Upload, Same,
       process, Goto, Then, FailsTo, Unseen, Reaches, Uploaded
  <2>2. ~Begin /\ ~PruneCerts
    BY <2>1 DEF Begin, PruneCerts, Prune, PruneUnread
  <2>3. got' \subseteq certs'
    BY <1>7, <2>1 DEF GetClientCertHandle, GetTrustedRootCertHandle, Skips, Finds, Upload, Same,
       process, AddCert, store
  <2>4. QED
    BY <1>0, <1>1, <2>1, <2>2, <2>3 DEF Uploaded
<1>8. CASE AddWiFiSettings
  BY <1>1, <1>8 DEF AddWiFiSettings, Call, Invoke, Then, FailsTo, Unseen, Reaches, Uploaded
<1>9. CASE Wired
  <2>1. /\ UNCHANGED <<store, cmd, got>>
        /\ \/ pc' \in {"idle", "disable", "prune", "settings"}
           \/ pc' = "setcerts" /\ pc = "enable"
    BY <1>9 DEF Wired, PutEthernetSettings, Disable8021xProfile, PutIEEE8021xSettings,
       SetIEEE8021xCertificates, AfterEnable, AfterPrune, Call, Invoke, Goto, Then, Fails, FailsTo,
       Unseen, Reaches, Places, Same, process
  <2>2. QED
    BY <1>1, <2>1 DEF Uploaded, store
<1>10. CASE AddIssuer \/ GenerateKeyPair \/ AddClientCert
  <2>1. ~Begin /\ ~PruneCerts
    BY <1>10 DEF AddIssuer, GenerateKeyPair, AddClientCert, Begin, PruneCerts, Prune,
       PruneUnread
  <2>2. got \subseteq certs
    BY <1>10 DEF AddIssuer, GenerateKeyPair, AddClientCert, Uploaded, Handles
  <2>3. got' \subseteq certs'
    BY <1>10, <2>2 DEF AddIssuer, GenerateKeyPair, AddClientCert, Upload, Call, Same, process,
       AddCert, AddKey, store
  <2>4. pc' \in {"idle", "cleanup", "genkey", "amtcert", "context"}
    BY <1>10 DEF AddIssuer, GenerateKeyPair, AddClientCert, OnError, Upload, Call, Then,
       FailsTo, Unseen, Reaches
  <2>5. pc' \in {"amtcert", "context"} => Own \in keys'
    BY <1>10 DEF AddIssuer, GenerateKeyPair, AddClientCert, OnError, Upload, Call, Then,
       FailsTo, Unseen, Reaches, AddCert, AddKey, store, Uploaded
  <2>6. QED
    BY <1>0, <1>1, <2>1, <2>3, <2>4, <2>5 DEF Uploaded
<1>11. CASE UpdateTLSCredentialContext \/ EnumerateTLSSettingData \/ CommitTls
  BY <1>1, <1>11 DEF UpdateTLSCredentialContext, EnumerateTLSSettingData, CommitTls, Commit,
     OnError, Call, Invoke, Goto, Then, FailsTo, Unseen, Reaches, Uploaded
<1>12. CASE \E p \in Ports : ConfigureTLSSettings(p)
  BY <1>1, <1>12 DEF ConfigureTLSSettings, AfterPut, OnError, Call, Ends, Then, FailsTo,
     Reaches, Uploaded
<1>13. CASE CiraCommand
  BY <1>1, <1>13 DEF CiraCommand, ClearRules, ClearServers, AddMpsRoot, AddMPS, AddPolicyRule,
     ApplyPolicies, RequestStateChangeCIRA, PutEnvironmentDetection, Call, Invoke, Goto, Ends,
     Then, Fails, FailsTo, Unseen, Reaches, Uploaded
<1>14. QED
  BY <1>2, <1>3, <1>4, <1>5, <1>6, <1>7, <1>8, <1>9, <1>10, <1>11, <1>12, <1>13
     DEF Next, Step, Configure8021x, Wireless, TlsCommand

\* The handles come from what the process was given, one by one.
LEMMA HandlesStep ==
    ASSUME TypeOK, Places, Handles, Next PROVE Handles'
<1>0. ~Begin => cmd' = cmd /\ Given' = Given /\ EnablesTls' = EnablesTls /\ faults \subseteq faults'
  BY Asked DEF Given, EnablesTls
<1>1. CASE Begin
  <2>1. pc' \in {"wifi", "ethernet", "issuer", "genkey", "enumerate", "rules"} /\ got' = {}
    BY <1>1, Beginning DEF Begin
  <2>2. QED
    BY <2>1 DEF Handles
<1>2. CASE Kill
  BY <1>2 DEF Kill, Ends, Handles
<1>3. CASE Finished
  BY <1>0, <1>3 DEF Finished, vars, process, Begin, Own, EnablesTls, Given, Handles
<1>4. CASE PruneCerts \/ ClearWirelessProfiles
  <2>1. pc' \in {"idle", "prune", "again", "settings", "addwifi"}
    BY <1>4 DEF PruneCerts, Prune, PruneUnread, ClearWirelessProfiles, AfterPrune, FailsTo,
       Reaches, Ends
  <2>2. /\ pc' \in {"settings", "addwifi"} =>
              cmd.name \in {"wireless", "wired"} /\ pc \in {"prune", "wifi"}
        /\ pc' = "addwifi" => ~Uses8021x
        /\ pc' = "prune" => pc = "wifi"
    BY <1>4, Parts DEF PruneCerts, Prune, PruneUnread, ClearWirelessProfiles, AfterPrune,
       FailsTo, Reaches, Ends, Places, EnablesTls
  <2>3. ~Begin /\ got' = got
    BY <1>4 DEF PruneCerts, Prune, PruneUnread, ClearWirelessProfiles, process, Begin
  <2>4. pc' \in {"settings", "addwifi", "prune"} => got' = {}
    BY <2>2, <2>3 DEF Handles, EnablesTls
  <2>5. pc' = "addwifi" => Given' = {}
    BY <1>0, <2>2, <2>3, Parts DEF Given
  <2>6. QED
    BY <2>1, <2>4, <2>5 DEF Handles
<1>5. CASE GetCertificates \/ GetPrivateKeyHandle
  <2>1. got' = got /\ pc' \in {"idle", "key", "client"} /\ pc \in {"settings", "key"}
    BY <1>5 DEF GetCertificates, GetPrivateKeyHandle, Skips, Same, process, Call, Ends, Goto,
       Then, Fails, FailsTo, Unseen, Reaches
  <2>2. QED
    BY <2>1 DEF Handles
<1>6. CASE GetClientCertHandle
  <2>1. ~Begin /\ pc = "client" /\ got = {} /\ pc' \in {"idle", "root"}
    BY <1>6 DEF GetClientCertHandle, Skips, Finds, Upload, Goto, Then, FailsTo, Unseen, Reaches,
       Begin, Handles
  <2>2. Given \ {Ca} = IF cmd.client # None THEN {Eap(cmd.client)} ELSE {}
    BY DEF Given, Eap, Ca
  <2>3. /\ got' \subseteq Given \ {Ca}
        /\ pc' = "root" /\ "unseen" \notin faults' => got' = Given \ {Ca}
    <3>1. CASE cmd.client = None /\ Skips("root")
      BY <2>1, <2>2, <3>1 DEF Skips, Same, process
    <3>2. CASE cmd.client # None /\ Finds(Eap(cmd.client), "root")
      BY <2>1, <2>2, <3>2 DEF Finds
    <3>3. CASE cmd.client # None /\ Upload(Eap(cmd.client), "root", "idle")
      BY <2>1, <2>2, <3>3 DEF Upload, FailsTo, Unseen, Reaches
    <3>4. cmd.client = None => Eap(cmd.client) \notin known
      BY Kinds, CredsAssumption DEF TypeOK, Clients, Roots, Eap, Tls, Issuer, Ca, MpsRoot
    <3>5. QED
      BY <1>6, <3>1, <3>2, <3>3, <3>4 DEF GetClientCertHandle, Finds
  <2>4. QED
    BY <1>0, <2>1, <2>3 DEF Handles
<1>7. CASE GetTrustedRootCertHandle
  <2>1. ~Begin /\ pc = "root" /\ pc' \in {"idle", "enable", "addwifi"}
    BY <1>7 DEF GetTrustedRootCertHandle, Skips, Finds, Upload, Goto, Then, FailsTo, Unseen,
       Reaches, Begin
  <2>2. got \subseteq Given \ {Ca} /\ ("unseen" \notin faults => got = Given \ {Ca})
    BY <2>1 DEF Handles
  <2>3. cmd.ca <=> Ca \in Given
    BY Parts DEF Given, Eap, Ca
  <2>4. got' \subseteq Given
    BY <1>7, <2>2, <2>3 DEF GetTrustedRootCertHandle, Skips, Finds, Upload, Same, process
  <2>5. pc' # "idle" /\ "unseen" \notin faults' =>
           got' = IF cmd.ca THEN got \cup {Ca} ELSE got
    BY <1>7 DEF GetTrustedRootCertHandle, Skips, Finds, Upload, Same, process, FailsTo, Unseen,
       Reaches
  <2>6. pc' # "idle" /\ "unseen" \notin faults' => got' = Given
    BY <1>0, <2>1, <2>2, <2>3, <2>5
  <2>7. QED
    BY <1>0, <2>1, <2>4, <2>6 DEF Handles
<1>8. CASE AddWiFiSettings
  BY <1>8 DEF AddWiFiSettings, Call, Invoke, Then, FailsTo, Unseen, Reaches, Handles
<1>9. CASE Wired
  <2>1. ~Begin /\ got' = got
    BY <1>9 DEF Wired, PutEthernetSettings, Disable8021xProfile, PutIEEE8021xSettings,
       SetIEEE8021xCertificates, Same, process, Begin
  <2>2. \/ pc' = "idle"
        \/ pc' \in {"disable", "prune", "settings"} /\ pc \in {"ethernet", "disable"}
        \/ pc' = "setcerts" /\ pc = "enable"
    BY <1>9 DEF Wired, PutEthernetSettings, Disable8021xProfile, PutIEEE8021xSettings,
       SetIEEE8021xCertificates, AfterEnable, AfterPrune, Call, Invoke, Goto, Then, Fails, FailsTo,
       Unseen, Reaches, Places
  <2>3. QED
    BY <1>0, <2>1, <2>2 DEF Handles
<1>10. CASE TlsCommand
  <2>1. ~Begin
    BY <1>10 DEF TlsCommand, AddIssuer, GenerateKeyPair, AddClientCert,
       UpdateTLSCredentialContext, EnumerateTLSSettingData, ConfigureTLSSettings, CommitTls,
       Commit, Begin
  <2>2. CASE AddClientCert
    <3>1. pc' \in {"idle", "cleanup", "context"} /\ Own' = Own
      BY <2>2 DEF AddClientCert, OnError, Upload, Then, FailsTo, Unseen, Reaches, Own
    <3>2. pc' = "context" /\ "unseen" \notin faults' => Own \in got'
      BY <2>2 DEF AddClientCert, OnError, Upload, Then, FailsTo, Unseen, Reaches
    <3>3. QED
      BY <3>1, <3>2 DEF Handles
  <2>3. CASE AddIssuer \/ GenerateKeyPair
    BY <2>3 DEF AddIssuer, GenerateKeyPair, OnError, Upload, Call, Then, FailsTo, Unseen,
       Reaches, Handles
  <2>4. CASE UpdateTLSCredentialContext \/ EnumerateTLSSettingData \/ Commit("commitctx", "enumerate")
    BY <1>0, <2>1, <2>4 DEF UpdateTLSCredentialContext, EnumerateTLSSettingData, Commit,
       OnError, Call, Invoke, Goto, Then, FailsTo, Unseen, Reaches, process, Places, Handles
  <2>5. CASE \E p \in Ports : ConfigureTLSSettings(p)
    BY <1>0, <2>1, <2>5 DEF ConfigureTLSSettings, AfterPut, OnError, Call, Ends, Then, FailsTo,
       Reaches, Handles
  <2>6. CASE Commit("commit", "prune")
    <3>1. pc' \in {"idle", "cleanup", "prune"} /\ pc = "commit" /\ got' = got
      BY <2>6 DEF Commit, OnError, Call, Invoke, Then, FailsTo, Unseen, Reaches, process
    <3>2. EnablesTls \/ got = {}
      BY <3>1 DEF Handles
    <3>3. QED
      BY <1>0, <2>1, <3>1, <3>2 DEF Handles
  <2>7. QED
    BY <1>10, <2>2, <2>3, <2>4, <2>5, <2>6 DEF TlsCommand, CommitTls
<1>11. CASE CiraCommand
  BY <1>11 DEF CiraCommand, ClearRules, ClearServers, AddMpsRoot, AddMPS, AddPolicyRule,
     ApplyPolicies, RequestStateChangeCIRA, PutEnvironmentDetection, Call, Invoke, Goto, Ends,
     Then, Fails, FailsTo, Unseen, Reaches, Handles
<1>12. QED
  BY <1>1, <1>2, <1>3, <1>4, <1>5, <1>6, <1>7, <1>8, <1>9, <1>10, <1>11
     DEF Next, Step, Configure8021x, Wireless

\* TLS is not turned on before there is a credential context.
LEMMA CredentialStep ==
    ASSUME TypeOK, Places, Handles, Credential, Next PROVE Credential'
<1>0. lacking \subseteq lacking' /\ (~Begin => cmd' = cmd /\ faults \subseteq faults')
  BY StoreKeeps, Asked
<1>1. CASE TlsCommand
  <2>0. cmd' = cmd /\ faults \subseteq faults'
    BY <1>0, <1>1 DEF TlsCommand, AddIssuer, GenerateKeyPair, AddClientCert,
       UpdateTLSCredentialContext, EnumerateTLSSettingData, ConfigureTLSSettings, CommitTls,
       Commit, Begin
  <2>1. CASE AddIssuer \/ GenerateKeyPair \/ AddClientCert
    <3>1. UNCHANGED <<tls, staged, enforced, ctx>>
      BY <2>1 DEF AddIssuer, GenerateKeyPair, AddClientCert, Upload, Same, profiles, ports
    <3>2. pc' \notin {"commitctx", "enumerate", "put", "commit"}
      BY <2>1 DEF AddIssuer, GenerateKeyPair, AddClientCert, OnError, Upload, Call, Then,
         FailsTo, Unseen, Reaches
    <3>3. QED
      BY <1>0, <3>1, <3>2 DEF Credential, Backed
  <2>2. CASE UpdateTLSCredentialContext
    <3>1. UNCHANGED <<tls, staged, enforced>> /\ pc' \notin {"put", "commit"} /\ pc = "context"
      BY <2>2 DEF UpdateTLSCredentialContext, OnError, Call, Goto, Then, FailsTo, Reaches, ports
    <3>2. CASE Own \notin got
      <4>1. Own \in lacking' /\ faults' = faults /\ runs \in 1..MaxRuns
        BY <2>2, <3>1, <3>2 DEF UpdateTLSCredentialContext, Lacks, Goto, Places
      <4>2. Backed'
        BY <4>1 DEF Backed, Own
      <4>3. "unseen" \in faults'
        BY <3>1, <3>2, <4>1 DEF Handles
      <4>4. QED
        BY <4>2, <4>3 DEF Credential
    <3>3. CASE Own \in got
      <4>1. ctx # {} => ctx' # {}
        BY <2>2, <3>3 DEF UpdateTLSCredentialContext, Call
      <4>2. pc' \in {"commitctx", "enumerate"} => ctx' # {}
        BY <2>2, <3>3 DEF UpdateTLSCredentialContext, OnError, Call, Then, FailsTo, Reaches
      <4>3. QED
        BY <1>0, <3>1, <4>1, <4>2 DEF Credential, Backed
    <3>4. QED
      BY <3>2, <3>3
  <2>3. CASE EnumerateTLSSettingData \/ \E p \in Ports : ConfigureTLSSettings(p)
    <3>1. UNCHANGED <<tls, enforced, ctx>> /\ pc \in {"enumerate", "put"}
      BY <2>3 DEF EnumerateTLSSettingData, ConfigureTLSSettings, profiles, ports
    <3>2. EnablesTls \/ staged' \subseteq staged
      BY <2>3 DEF EnumerateTLSSettingData, ConfigureTLSSettings, Call, ports
    <3>3. EnablesTls => Backed
      BY <3>1 DEF Credential
    <3>4. QED
      BY <1>0, <2>0, <3>1, <3>2, <3>3 DEF Credential, Backed, EnablesTls
  <2>4. CASE CommitTls
    <3>1. UNCHANGED <<staged, enforced, ctx>> /\ tls' \subseteq tls \cup staged
      BY <2>4 DEF CommitTls, Commit, Call, Invoke, profiles
    <3>2. pc \in {"commitctx", "commit"} /\ pc' \in {"idle", "cleanup", "enumerate", "prune"}
      BY <2>4 DEF CommitTls, Commit, OnError, Call, Invoke, Then, FailsTo, Unseen, Reaches
    <3>3. QED
      BY <1>0, <2>0, <3>1, <3>2 DEF Credential, Backed, EnablesTls
  <2>5. QED
    BY <1>1, <2>1, <2>2, <2>3, <2>4 DEF TlsCommand
<1>2. CASE ~TlsCommand
  <2>1. UNCHANGED ports /\ UNCHANGED ctx
    BY <1>2, PortChanges, ProfileChanges DEF TlsCommand, ClearWirelessProfiles, AddWiFiSettings,
       Disable8021xProfile, PutIEEE8021xSettings, AfterEnable, SetIEEE8021xCertificates, profiles
  <2>2. pc' \in {"commitctx", "enumerate", "put", "commit"} /\ EnablesTls'
           => pc = pc' /\ EnablesTls /\ faults' = faults
    <3>1. CASE Begin
      BY <3>1 DEF Begin, EnablesTls, Commands, Command, Plain, Part
    <3>2. CASE Kill \/ Finished
      BY <3>2 DEF Kill, Finished, Ends, vars, process, EnablesTls
    <3>3. CASE PruneCerts \/ Configure8021x
      BY <3>3 DEF PruneCerts, Prune, PruneUnread, AfterPrune, Configure8021x, GetCertificates,
         GetPrivateKeyHandle, GetClientCertHandle, GetTrustedRootCertHandle, Call, Goto, Ends,
         Then, Fails, FailsTo, Reaches, Invoke, Unseen, Upload, Finds, Skips, Same
    <3>4. CASE Wireless \/ Wired
      BY <3>4 DEF Wireless, ClearWirelessProfiles, AddWiFiSettings, Wired, PutEthernetSettings,
         Disable8021xProfile, PutIEEE8021xSettings, AfterEnable, SetIEEE8021xCertificates,
         AfterPrune, Call, Goto, Then, Fails, FailsTo, Reaches, Invoke, Unseen
    <3>5. CASE CiraCommand
      BY <3>5 DEF CiraCommand, ClearRules, ClearServers, AddMpsRoot, AddMPS, AddPolicyRule,
         ApplyPolicies, RequestStateChangeCIRA, PutEnvironmentDetection, Call, Goto, Ends, Then,
         Fails, FailsTo, Reaches, Invoke, Unseen
    <3>6. QED
      BY <1>2, <3>1, <3>2, <3>3, <3>4, <3>5 DEF Next, Step
  <2>3. QED
    BY <1>0, <2>1, <2>2 DEF Credential, Backed, ports
<1>3. QED
  BY <1>1, <1>2

\* Both policies exist when they are used by their positions.
LEMMA PoliciesStep ==
    ASSUME TypeOK, Places, Policies, Next PROVE Policies'
<1>0. ~Begin => faults \subseteq faults'
  BY Asked
<1>1. CASE CiraCommand
  <2>1. CASE AddPolicyRule("rule1", "periodic", "rule2")
    BY <2>1 DEF AddPolicyRule, Call, Ends, Then, FailsTo, Reaches, TypeOK, Policies, Invoke,
       Unseen
  <2>2. CASE AddPolicyRule("rule2", "user", "apply1")
    <3>1. SUFFICES ASSUME pc' = "apply1", "unseen" \notin faults' PROVE TwoPolicies'
      BY <2>2 DEF AddPolicyRule, Call, Invoke, Ends, Then, FailsTo, Unseen, Reaches, Policies
    <3>2. "unseen" \notin faults /\ \E t \in mps : rules' = rules \cup {<<"user", t>>}
      BY <2>2, <3>1 DEF AddPolicyRule, Call, Invoke, Ends, Then, FailsTo, Unseen, Reaches
    <3>3. PICK s \in 1..MaxRuns : <<"periodic", s>> \in rules
      BY <2>2, <3>2 DEF AddPolicyRule, Policies
    <3>4. \A t : <<"periodic", s>> # <<"user", t>>
      OBVIOUS
    <3>5. PICK t \in mps : rules' = rules \cup {<<"user", t>>}
      BY <3>2
    <3>6. <<"periodic", s>> \in rules' /\ <<"user", t>> \in rules'
      BY <3>3, <3>5
    <3>7. \E r, q \in rules' : r # q
      BY <3>4, <3>6
    <3>8. QED
      BY <3>7 DEF TwoPolicies
  <2>3. CASE ClearRules \/ ClearServers \/ AddMpsRoot \/ AddMPS \/ ApplyPolicies
             \/ RequestStateChangeCIRA \/ PutEnvironmentDetection
    BY <2>3 DEF ClearRules, ClearServers, AddMpsRoot, AddMPS, ApplyPolicies,
       RequestStateChangeCIRA, PutEnvironmentDetection, Call, Goto, Ends, Then, Fails, FailsTo,
       Reaches, Policies, Invoke, Unseen
  <2>4. QED
    BY <1>1, <2>1, <2>2, <2>3 DEF CiraCommand
<1>2. CASE Begin \/ Kill
  BY <1>2, Beginning DEF Kill, Ends, Policies
<1>3. CASE Finished
  BY <1>3 DEF Finished, vars, remote, Policies, TwoPolicies
<1>4. CASE PruneCerts \/ Configure8021x
  BY <1>4 DEF PruneCerts, Prune, PruneUnread, AfterPrune, Configure8021x, GetCertificates,
     GetPrivateKeyHandle, GetClientCertHandle, GetTrustedRootCertHandle, Call, Goto, Ends, Then,
     Fails, FailsTo, Reaches, Policies, Invoke, Unseen, Upload, Finds, Skips, Same
<1>5. CASE Wireless \/ Wired
  BY <1>5 DEF Wireless, ClearWirelessProfiles, AddWiFiSettings, Wired, PutEthernetSettings,
     Disable8021xProfile, PutIEEE8021xSettings, AfterEnable, SetIEEE8021xCertificates, AfterPrune,
     Call, Goto, Then, Fails, FailsTo, Reaches, Policies, Invoke, Unseen
<1>6. CASE TlsCommand
  BY <1>6 DEF TlsCommand, AddIssuer, GenerateKeyPair, AddClientCert, UpdateTLSCredentialContext,
     EnumerateTLSSettingData, ConfigureTLSSettings, CommitTls, Commit, AfterPut, OnError, Call,
     Goto, Ends, Then, FailsTo, Reaches, Policies, Invoke, Unseen, Upload
<1>7. QED
  BY <1>1, <1>2, <1>3, <1>4, <1>5, <1>6 DEF Next, Step

\* Every certificate in use has its key, or never had it: PruneCerts panics on no other.
LEMMA NoPanicStep ==
    ASSUME TypeOK, Places, Held(InUse), Policies, NoPanic, Next PROVE NoPanic'
<1>0. KeyMissing => InUse \cap lacking # {}
  BY DEF KeyMissing, Held, InUse, Associated
<1>1. CASE Finished
  BY <1>1 DEF Finished, vars, store, profiles, process, InUse, NoPanic
<1>2. CASE Begin \/ Kill
  BY <1>2 DEF Begin, Kill, Ends, NoPanic
<1>3. CASE PruneCerts
  <2>1. result' = "panic" => KeyMissing /\ UNCHANGED <<store, profiles>>
    BY <1>3 DEF PruneCerts, Prune, PruneUnread, Reaches, Ends, Places
  <2>2. QED
    BY <1>0, <2>1 DEF store, profiles, InUse, NoPanic
<1>4. CASE Configure8021x
  <2>1. result' = "panic" => KeyMissing /\ UNCHANGED <<store, profiles>>
    BY <1>4 DEF Configure8021x, GetCertificates, GetPrivateKeyHandle, GetClientCertHandle,
       GetTrustedRootCertHandle, Skips, Finds, Upload, Same, Call, Goto, Ends, Then, Fails,
       FailsTo, Unseen, Reaches, Places
  <2>2. QED
    BY <1>0, <2>1 DEF store, profiles, InUse, NoPanic
<1>5. CASE Wireless \/ Wired
  BY <1>5 DEF Wireless, ClearWirelessProfiles, AddWiFiSettings, Wired, PutEthernetSettings,
     Disable8021xProfile, PutIEEE8021xSettings, AfterEnable, SetIEEE8021xCertificates, Call,
     Invoke, Goto, Then, Fails, FailsTo, Unseen, Reaches, Places, NoPanic
<1>6. CASE TlsCommand
  BY <1>6 DEF TlsCommand, AddIssuer, GenerateKeyPair, AddClientCert, UpdateTLSCredentialContext,
     EnumerateTLSSettingData, ConfigureTLSSettings, CommitTls, Commit, Upload, Call, Invoke, Goto,
     Ends, Then, FailsTo, Unseen, Reaches, Places, NoPanic
<1>7. CASE CiraCommand
  <2>1. cmd' = cmd /\ cmd.name = "cira"
    BY <1>7 DEF CiraCommand, ClearRules, ClearServers, AddMpsRoot, AddMPS, AddPolicyRule,
       ApplyPolicies, RequestStateChangeCIRA, PutEnvironmentDetection, Same, process, Places
  <2>2. result' = "panic" => pc = "apply1" /\ ~TwoPolicies /\ faults' = faults
    BY <1>7 DEF CiraCommand, ClearRules, ClearServers, AddMpsRoot, AddMPS, AddPolicyRule,
       ApplyPolicies, RequestStateChangeCIRA, PutEnvironmentDetection, Call, Invoke, Goto, Ends,
       Then, Fails, FailsTo, Unseen, Reaches, Places
  <2>3. QED
    BY <2>1, <2>2 DEF Policies, NoPanic
<1>8. QED
  BY <1>1, <1>2, <1>3, <1>4, <1>5, <1>6, <1>7 DEF Next, Step

\* A tls that fails while it enables TLS fails through its cleanup.
LEMMA FailedTlsStep ==
    ASSUME TypeOK, Places, FailedTlsCleansUp, Next PROVE FailedTlsCleansUp'
<1>1. CASE Begin \/ Kill
  BY <1>1 DEF Begin, Kill, Ends, FailedTlsCleansUp
<1>2. CASE Finished
  BY <1>2 DEF Finished, vars, store, profiles, process, EnablesTls, InUse, FailedTlsCleansUp
<1>3. CASE PruneCerts
  <2>1. CASE \E place, outcome : PruneUnread(place, outcome)
    BY <2>1 DEF PruneUnread, FailedTlsCleansUp
  <2>2. ASSUME NEW place, NEW outcome, Prune(place, outcome) PROVE FailedTlsCleansUp'
    BY <2>2 DEF Prune, Pruned, Ends, profiles, InUse, Associated, FailedTlsCleansUp
  <2>3. QED
    BY <1>3, <2>1, <2>2 DEF PruneCerts
<1>4. CASE Configure8021x \/ Wireless \/ Wired \/ CiraCommand
  <2>1. cmd.name \in {"wireless", "purge", "wired", "cira"}
    BY <1>4 DEF Configure8021x, GetCertificates, GetPrivateKeyHandle, GetClientCertHandle,
       GetTrustedRootCertHandle, Wireless, ClearWirelessProfiles, AddWiFiSettings, Wired,
       PutEthernetSettings, Disable8021xProfile, PutIEEE8021xSettings, SetIEEE8021xCertificates,
       CiraCommand, ClearRules, ClearServers, AddMpsRoot, AddMPS, AddPolicyRule, ApplyPolicies,
       RequestStateChangeCIRA, PutEnvironmentDetection, Places, Upload, Finds, Skips, Same, Unseen
  <2>2. UNCHANGED cmd
    BY <1>4, ProcessChanges DEF Configure8021x, GetCertificates, GetPrivateKeyHandle,
       GetClientCertHandle, GetTrustedRootCertHandle, Wireless, ClearWirelessProfiles,
       AddWiFiSettings, Wired, PutEthernetSettings, Disable8021xProfile, PutIEEE8021xSettings,
       SetIEEE8021xCertificates, CiraCommand, ClearRules, ClearServers, AddMpsRoot, AddMPS,
       AddPolicyRule, ApplyPolicies, RequestStateChangeCIRA, PutEnvironmentDetection, Same,
       process, Upload, Finds, Skips, Unseen
  <2>3. QED
    BY <2>1, <2>2 DEF EnablesTls, FailedTlsCleansUp
<1>5. CASE TlsCommand
  <2>1. UNCHANGED cmd
    BY <1>5 DEF TlsCommand, AddIssuer, GenerateKeyPair, AddClientCert,
       UpdateTLSCredentialContext, EnumerateTLSSettingData, ConfigureTLSSettings, CommitTls,
       Commit, Same, process, Upload, Unseen
  <2>2. pc # "idle"
    BY <1>5 DEF TlsCommand, AddIssuer, GenerateKeyPair, AddClientCert,
       UpdateTLSCredentialContext, EnumerateTLSSettingData, ConfigureTLSSettings, CommitTls,
       Commit, Upload, Unseen
  <2>3. result = "none"
    BY <2>2 DEF Places
  <2>4. result' = "error" => ~EnablesTls
    BY <1>5, <2>3 DEF TlsCommand, AddIssuer, GenerateKeyPair, AddClientCert,
       UpdateTLSCredentialContext, EnumerateTLSSettingData, ConfigureTLSSettings, CommitTls,
       Commit, OnError, Call, Goto, Ends, Then, FailsTo, Reaches, Invoke, Unseen, Upload
  <2>5. QED
    BY <2>1, <2>4 DEF EnablesTls, FailedTlsCleansUp
<1>6. QED
  BY <1>1, <1>2, <1>3, <1>4, <1>5 DEF Next, Step

LEMMA CausesStep ==
    ASSUME Causes, Next PROVE Causes'
<1>1. CASE CiraCommand
  BY <1>1 DEF CiraCommand, ClearRules, ClearServers, AddMpsRoot, AddMPS, AddPolicyRule,
     ApplyPolicies, RequestStateChangeCIRA, PutEnvironmentDetection, Call, Goto, Ends, Then, Fails,
     FailsTo, Reaches, Causes, Invoke, Unseen
<1>2. CASE Begin \/ Kill
  BY <1>2, Beginning DEF Kill, Ends, Causes
<1>3. CASE Finished
  BY <1>3 DEF Finished, vars, remote, Causes
<1>4. CASE PruneCerts \/ Configure8021x
  BY <1>4 DEF PruneCerts, Prune, PruneUnread, AfterPrune, Configure8021x, GetCertificates,
     GetPrivateKeyHandle, GetClientCertHandle, GetTrustedRootCertHandle, Call, Goto, Ends, Then,
     Fails, FailsTo, Reaches, Causes, Invoke, Unseen, Upload, Finds, Skips, Same
<1>5. CASE Wireless \/ Wired
  BY <1>5 DEF Wireless, ClearWirelessProfiles, AddWiFiSettings, Wired, PutEthernetSettings,
     Disable8021xProfile, PutIEEE8021xSettings, AfterEnable, SetIEEE8021xCertificates, AfterPrune,
     Call, Goto, Then, Fails, FailsTo, Reaches, Causes, Invoke, Unseen
<1>6. CASE TlsCommand
  BY <1>6 DEF TlsCommand, AddIssuer, GenerateKeyPair, AddClientCert, UpdateTLSCredentialContext,
     EnumerateTLSSettingData, ConfigureTLSSettings, CommitTls, Commit, AfterPut, OnError, Call,
     Goto, Ends, Then, FailsTo, Reaches, Causes, Invoke, Unseen, Upload
<1>7. QED
  BY <1>1, <1>2, <1>3, <1>4, <1>5, <1>6 DEF Next, Step

\* Without a failing call only the two exceptions make a command fail.
LEMMA RetryStep ==
    ASSUME Places, Causes, RetryRecovers, Next PROVE RetryRecovers'
<1>1. CASE Begin \/ Kill
  BY <1>1 DEF Begin, Kill, Ends, RetryRecovers
<1>2. CASE Finished
  BY <1>2 DEF Finished, vars, store, ports, process, Uses8021x, RetryRecovers
<1>3. CASE PruneCerts
  <2>1. result = "none"
    BY <1>3 DEF PruneCerts, Prune, PruneUnread, Places
  <2>2. CASE \E place, outcome : PruneUnread(place, outcome)
    BY <2>2 DEF PruneUnread, RetryRecovers
  <2>3. CASE Prune("prune", "ok") \/ Prune("again", "ok")
    BY <2>1, <2>3 DEF Prune, Ends, Reaches, RetryRecovers
  <2>4. CASE Prune("cleanup", "error")
    BY <2>4 DEF Prune, Ends, Reaches, Causes, RetryRecovers
  <2>5. QED
    BY <1>3, <2>2, <2>3, <2>4 DEF PruneCerts
<1>4. CASE GetPrivateKeyHandle
  <2>1. cmd' = cmd /\ Uses8021x
    BY <1>4 DEF GetPrivateKeyHandle, Skips, Same, process, Places
  <2>2. result' = "error" /\ faults' = {} => Eap(cmd.key) \in keys'
    BY <1>4 DEF GetPrivateKeyHandle, Skips, Call, Goto, Ends, Then, FailsTo, Unseen, Reaches,
       store, Places
  <2>3. QED
    BY <2>1, <2>2 DEF Uses8021x, RetryRecovers
<1>5. CASE GetCertificates \/ GetClientCertHandle \/ GetTrustedRootCertHandle
  BY <1>5 DEF GetCertificates, GetClientCertHandle, GetTrustedRootCertHandle, Call, Goto, Ends,
     Then, Fails, FailsTo, Reaches, Places, RetryRecovers, Invoke, Unseen, Upload, Finds, Skips,
     Same
<1>6. CASE Wireless \/ Wired
  BY <1>6 DEF Wireless, ClearWirelessProfiles, AddWiFiSettings, Wired, PutEthernetSettings,
     Disable8021xProfile, PutIEEE8021xSettings, AfterEnable, SetIEEE8021xCertificates, Call, Goto,
     Then, Fails, FailsTo, Reaches, Places, RetryRecovers, Invoke, Unseen
<1>7. CASE AddIssuer \/ GenerateKeyPair \/ AddClientCert \/ UpdateTLSCredentialContext
            \/ EnumerateTLSSettingData \/ CommitTls
  BY <1>7 DEF AddIssuer, GenerateKeyPair, AddClientCert, UpdateTLSCredentialContext,
     EnumerateTLSSettingData, CommitTls, Commit, Call, Goto, Then, FailsTo, Reaches, Places,
     RetryRecovers, Invoke, Unseen, Upload
<1>8. CASE \E p \in Ports : ConfigureTLSSettings(p)
  <2>1. PICK p \in Ports : ConfigureTLSSettings(p)
    BY <1>8
  <2>2. CASE Ends("error") /\ ~EnablesTls /\ p \in enforced
    BY <2>1, <2>2 DEF ConfigureTLSSettings, Places, RetryRecovers
  <2>3. CASE ~(Ends("error") /\ ~EnablesTls /\ p \in enforced)
    BY <2>1, <2>3 DEF ConfigureTLSSettings, Call, Then, FailsTo, Reaches, Places, RetryRecovers,
       Invoke, Unseen
  <2>4. QED
    BY <2>2, <2>3
<1>9. CASE CiraCommand
  BY <1>9 DEF CiraCommand, ClearRules, ClearServers, AddMpsRoot, AddMPS, AddPolicyRule,
     ApplyPolicies, RequestStateChangeCIRA, PutEnvironmentDetection, Call, Goto, Ends, Then, Fails,
     FailsTo, Reaches, Places, Causes, RetryRecovers, Invoke, Unseen
<1>10. QED
  BY <1>1, <1>2, <1>3, <1>4, <1>5, <1>6, <1>7, <1>8, <1>9
     DEF Next, Step, Configure8021x, TlsCommand

-----------------------------------------------------------------------------
(* What a command has done by each of its places, it has not undone.         *)

\* Whose places a step is at.
LEMMA Commanding ==
    ASSUME Places
    PROVE  /\ Wireless => cmd.name \in {"wireless", "purge"}
           /\ Wired => cmd.name = "wired"
           /\ Configure8021x => cmd.name \in {"wireless", "wired"}
           /\ TlsCommand => cmd.name \in {"tls", "ea", "untls"}
           /\ CiraCommand => cmd.name = "cira"
BY DEF Places, EnablesTls, Wireless, ClearWirelessProfiles, AddWiFiSettings, Wired,
   PutEthernetSettings, Disable8021xProfile, PutIEEE8021xSettings, SetIEEE8021xCertificates,
   Configure8021x, GetCertificates, GetPrivateKeyHandle, GetClientCertHandle,
   GetTrustedRootCertHandle, TlsCommand, AddIssuer, GenerateKeyPair, AddClientCert,
   UpdateTLSCredentialContext, EnumerateTLSSettingData, ConfigureTLSSettings, CommitTls, Commit,
   CiraCommand, ClearRules, ClearServers, AddMpsRoot, AddMPS, AddPolicyRule, ApplyPolicies,
   RequestStateChangeCIRA, PutEnvironmentDetection, Upload, Finds, Skips, Same, Unseen

LEMMA WirelessDoneStep ==
    ASSUME Places, WirelessDone, Next PROVE WirelessDone'
<1>1. CASE Begin \/ Kill
  BY <1>1, Beginning DEF Kill, Ends, WirelessDone
<1>2. CASE Finished
  BY <1>2 DEF Finished, vars, profiles, process, WirelessDone
<1>3. CASE PruneCerts \/ Configure8021x
  <2>1. UNCHANGED <<wifi, cmd>> /\ faults \subseteq faults'
    BY <1>3, Asked DEF PruneCerts, Prune, PruneUnread, Configure8021x, GetCertificates,
       GetPrivateKeyHandle, GetClientCertHandle, GetTrustedRootCertHandle, Same, profiles, process,
       Call, Goto, Ends, Then, Fails, FailsTo, Invoke, Unseen, Upload, Finds, Skips
  <2>2. pc' \in {"prune", "settings", "key", "client", "root", "addwifi"}
              => pc \in {"prune", "settings", "key", "client", "root"}
    <3>1. CASE PruneCerts
      BY <3>1 DEF PruneCerts, Prune, PruneUnread, Places, AfterPrune, EnablesTls, Ends, Reaches
    <3>2. CASE Configure8021x
      BY <3>2 DEF Configure8021x, GetCertificates, GetPrivateKeyHandle, GetClientCertHandle,
         GetTrustedRootCertHandle, Upload, Finds, Skips, Same, Unseen
    <3>3. QED
      BY <1>3, <3>1, <3>2
  <2>3. QED
    BY <2>1, <2>2 DEF WirelessDone
<1>4. CASE Wireless
  BY <1>4 DEF Wireless, ClearWirelessProfiles, AddWiFiSettings, process, Call, Then, FailsTo,
     Reaches, WirelessDone, Invoke, Unseen
<1>5. CASE Wired \/ TlsCommand \/ CiraCommand
  <2>1. ~Begin => cmd' = cmd
    BY Asked
  <2>2. cmd.name \notin {"wireless", "purge"} /\ pc # "idle"
    BY <1>5, Commanding DEF Wired, PutEthernetSettings, Disable8021xProfile,
       PutIEEE8021xSettings, SetIEEE8021xCertificates, TlsCommand, AddIssuer, GenerateKeyPair,
       AddClientCert, UpdateTLSCredentialContext, EnumerateTLSSettingData, ConfigureTLSSettings,
       CommitTls, Commit, CiraCommand, ClearRules, ClearServers, AddMpsRoot, AddMPS, AddPolicyRule,
       ApplyPolicies, RequestStateChangeCIRA, PutEnvironmentDetection, Upload, Unseen
  <2>3. QED
    BY <2>1, <2>2 DEF Begin, WirelessDone
<1>6. QED
  BY <1>1, <1>2, <1>3, <1>4, <1>5 DEF Next, Step

LEMMA WiredDoneStep ==
    ASSUME TypeOK, Places, WiredDone, Next PROVE WiredDone'
<1>1. CASE Begin \/ Kill
  BY <1>1, Beginning DEF Kill, Ends, WiredDone
<1>2. CASE Finished
  BY <1>2 DEF Finished, vars, profiles, process, WiredDone
<1>3. CASE PruneCerts \/ Configure8021x
  <2>1. pc' \notin {"prune", "setcerts"}
    BY <1>3 DEF PruneCerts, Prune, PruneUnread, AfterPrune, Configure8021x, GetCertificates,
       GetPrivateKeyHandle, GetClientCertHandle, GetTrustedRootCertHandle, Call, Goto, Ends, Then,
       Fails, FailsTo, Reaches, Invoke, Unseen, Upload, Finds, Skips, Same
  <2>2. QED
    BY <2>1 DEF WiredDone
<1>4. CASE Wired
  <2>1. CASE Disable8021xProfile
    <3>1. pc' = "prune" => SetWired(FALSE, {})
      BY <2>1 DEF Disable8021xProfile, AfterPrune, Goto, Then, Reaches
    <3>2. pc' # "setcerts"
      BY <2>1 DEF Disable8021xProfile, AfterPrune, Goto, Then, Reaches
    <3>3. QED
      BY <3>1, <3>2 DEF SetWired, WiredDone
  <2>2. CASE PutIEEE8021xSettings
    <3>1. pc' = "setcerts" => SetWired(TRUE, wired.certs)
      BY <2>2 DEF PutIEEE8021xSettings, AfterEnable, Call, Then, FailsTo, Reaches, Invoke,
         Unseen
    <3>2. pc' # "prune"
      BY <2>2 DEF PutIEEE8021xSettings, AfterEnable, Call, Then, FailsTo, Reaches, Invoke,
         Unseen
    <3>3. QED
      BY <3>1, <3>2 DEF SetWired, WiredDone
  <2>3. CASE PutEthernetSettings \/ SetIEEE8021xCertificates
    BY <2>3 DEF PutEthernetSettings, SetIEEE8021xCertificates, Call, Goto, Then, Fails, FailsTo,
       Reaches, WiredDone, Invoke, Unseen
  <2>4. QED
    BY <1>4, <2>1, <2>2, <2>3 DEF Wired
<1>5. CASE Wireless \/ TlsCommand \/ CiraCommand
  <2>1. cmd.name # "wired" /\ cmd' = cmd
    BY <1>5, Commanding, Asked DEF Begin, Wireless, ClearWirelessProfiles, AddWiFiSettings,
       TlsCommand, AddIssuer, GenerateKeyPair, AddClientCert, UpdateTLSCredentialContext,
       EnumerateTLSSettingData, ConfigureTLSSettings, CommitTls, Commit, CiraCommand, ClearRules,
       ClearServers, AddMpsRoot, AddMPS, AddPolicyRule, ApplyPolicies, RequestStateChangeCIRA,
       PutEnvironmentDetection, Upload, Unseen
  <2>2. Places'
    BY PlacesStep
  <2>3. QED
    BY <2>1, <2>2 DEF Places, WiredDone
<1>6. QED
  BY <1>1, <1>2, <1>3, <1>4, <1>5 DEF Next, Step

LEMMA TlsDoneStep ==
    ASSUME TypeOK, Places, Credential, TlsDone, Next PROVE TlsDone'
<1>1. CASE Begin \/ Kill
  BY <1>1, Beginning DEF Kill, Ends, TlsDone
<1>2. CASE Finished
  BY <1>2 DEF Finished, vars, ports, profiles, process, EnablesTls, TlsDone
<1>3. CASE PruneCerts
  <2>1. UNCHANGED <<tls, ctx, cmd>> /\ faults \subseteq faults'
    BY <1>3 DEF PruneCerts, Prune, PruneUnread, Ends, ports, profiles, process
  <2>2. pc' \notin {"put", "commit", "prune"} /\ (pc' = "again" => pc = "prune" /\ EnablesTls)
    BY <1>3 DEF PruneCerts, Prune, PruneUnread, AfterPrune, Ends, Reaches
  <2>3. QED
    BY <2>1, <2>2 DEF EnablesTls, TlsDone
<1>4. CASE Configure8021x \/ CiraCommand
  <2>1. pc' \notin {"put", "commit", "prune", "again"}
    BY <1>4 DEF Configure8021x, GetCertificates, GetPrivateKeyHandle, GetClientCertHandle,
       GetTrustedRootCertHandle, CiraCommand, ClearRules, ClearServers, AddMpsRoot, AddMPS,
       AddPolicyRule, ApplyPolicies, RequestStateChangeCIRA, PutEnvironmentDetection, Call, Goto,
       Ends, Then, Fails, FailsTo, Reaches, Invoke, Unseen, Upload, Finds, Skips, Same
  <2>2. QED
    BY <2>1 DEF TlsDone
<1>5. CASE Wireless \/ Wired
  <2>1. pc' \notin {"put", "commit", "again"}
    BY <1>5 DEF Wireless, ClearWirelessProfiles, AddWiFiSettings, AfterPrune, Wired,
       PutEthernetSettings, Disable8021xProfile, PutIEEE8021xSettings, AfterEnable,
       SetIEEE8021xCertificates, Call, Goto, Then, Fails, FailsTo, Reaches, Invoke, Unseen
  <2>2. cmd.name \in {"wireless", "purge", "wired"} /\ cmd' = cmd
    BY <1>5, Commanding, Asked DEF Begin, Wireless, ClearWirelessProfiles, AddWiFiSettings,
       Wired, PutEthernetSettings, Disable8021xProfile, PutIEEE8021xSettings, AfterEnable,
       SetIEEE8021xCertificates
  <2>3. QED
    BY <2>1, <2>2 DEF EnablesTls, TlsDone
<1>6. CASE AddIssuer \/ GenerateKeyPair \/ AddClientCert \/ UpdateTLSCredentialContext
  <2>1. pc' \notin {"put", "commit", "prune", "again"}
    BY <1>6 DEF Goto, AddIssuer, GenerateKeyPair, AddClientCert, UpdateTLSCredentialContext,
       OnError, Call, Then, FailsTo, Reaches, Invoke, Unseen, Upload
  <2>2. QED
    BY <2>1 DEF TlsDone
<1>7. CASE EnumerateTLSSettingData
  BY <1>7 DEF EnumerateTLSSettingData, OnError, Goto, FailsTo, Reaches, TypeOK, ports, Ports,
     EnablesTls, TlsDone
<1>8. CASE \E p \in Ports : ConfigureTLSSettings(p)
  <2>1. PICK p \in Ports : ConfigureTLSSettings(p)
    BY <1>8
  <2>2. pc = "put" /\ p \in todo /\ todo' = todo \ {p} /\ cmd' = cmd
    BY <2>1 DEF ConfigureTLSSettings
  <2>3. pc' \in {"put", "commit"} =>
           /\ pc' = AfterPut(p)
           /\ staged' = IF EnablesTls THEN staged \cup {p} ELSE staged \ {p}
    BY <2>1 DEF ConfigureTLSSettings, OnError, Call, Ends, Then, FailsTo, Reaches, Invoke,
       Unseen
  <2>4. pc' \notin {"prune", "again"}
    BY <2>1 DEF ConfigureTLSSettings, AfterPut, OnError, Call, Ends, Then, FailsTo, Reaches,
       Invoke, Unseen
  <2>5. staged \subseteq Ports
    BY DEF TypeOK
  <2>6. CASE pc' = "put"
    <3>1. todo # {p} /\ staged' = IF EnablesTls THEN staged \cup {p} ELSE staged \ {p}
      BY <2>3, <2>6 DEF AfterPut
    <3>2. QED
      BY <2>2, <2>6, <3>1 DEF EnablesTls, TlsDone
  <2>7. CASE pc' = "commit"
    <3>1. todo = {p} /\ staged' = IF EnablesTls THEN staged \cup {p} ELSE staged \ {p}
      BY <2>3, <2>7 DEF AfterPut
    <3>2. staged' = IF EnablesTls THEN Ports ELSE {}
      BY <2>2, <2>5, <3>1 DEF TlsDone
    <3>3. QED
      BY <2>2, <2>7, <3>2 DEF EnablesTls, TlsDone
  <2>8. QED
    BY <2>4, <2>6, <2>7 DEF TlsDone
<1>9. CASE CommitTls
  <2>1. CASE Commit("commitctx", "enumerate")
    BY <2>1 DEF Commit, OnError, Call, Then, FailsTo, Reaches, TlsDone, Invoke, Unseen
  <2>2. CASE Commit("commit", "prune")
    <3>1. pc' = "prune" => tls' = staged \/ "unseen" \in faults'
      BY <2>2 DEF Commit, OnError, Call, Then, FailsTo, Reaches, Invoke, Unseen
    <3>2. pc' \notin {"put", "commit", "again"} /\ pc = "commit" /\ UNCHANGED <<cmd, ctx>>
      BY <2>2 DEF Commit, OnError, Call, Then, FailsTo, Reaches, profiles, process, Invoke,
         Unseen
    <3>3. EnablesTls /\ "unseen" \notin faults' => ctx # {}
      BY <2>2, <3>2, Asked DEF Begin, Credential
    <3>4. QED
      BY <3>1, <3>2, <3>3 DEF EnablesTls, TlsDone
  <2>3. QED
    BY <1>9, <2>1, <2>2 DEF CommitTls
<1>10. QED
  BY <1>1, <1>2, <1>3, <1>4, <1>5, <1>6, <1>7, <1>8, <1>9 DEF Next, Step, TlsCommand

\* What cira has built up so far: its steps before, at and after the policies.
LEMMA CiraSetUp ==
    ASSUME CiraDone, ClearRules \/ ClearServers \/ AddMpsRoot \/ AddMPS PROVE CiraDone'
<1>1. CASE ClearRules
  BY <1>1 DEF ClearRules, Goto, Fails, FailsTo, Reaches, CiraDone, Cleared
<1>2. CASE ClearServers
  BY <1>2 DEF ClearServers, Goto, Fails, FailsTo, Reaches, CiraDone, Cleared
<1>3. CASE AddMpsRoot
  BY <1>3 DEF AddMpsRoot, Call, Then, FailsTo, Reaches, AddCert, Same, remote, CiraDone,
     Cleared, Invoke, Unseen, Lacks
<1>4. CASE AddMPS
  BY <1>4 DEF AddMPS, Call, Then, FailsTo, Reaches, store, process, CiraDone, Cleared, Invoke,
     Unseen
<1>5. QED
  BY <1>1, <1>2, <1>3, <1>4

LEMMA CiraPolicies ==
    ASSUME CiraDone, AddPolicyRule("rule1", "periodic", "rule2") \/ AddPolicyRule("rule2", "user", "apply1")
    PROVE  CiraDone'
<1>1. UNCHANGED <<certs, mps, applied, runs>> /\ faults \subseteq faults'
  BY DEF AddPolicyRule, Call, Invoke, Then, FailsTo, Ends, Unseen, store, process
<1>2. CASE AddPolicyRule("rule1", "periodic", "rule2")
  <2>1. \/ pc' = "idle" \/ "unseen" \in faults'
        \/ pc' = "rule2" /\ \E s \in mps : rules' = rules \cup {<<"periodic", s>>}
    BY <1>2 DEF AddPolicyRule, Call, Invoke, Ends, Then, FailsTo, Unseen, Reaches
  <2>2. pc = "rule1"
    BY <1>2 DEF AddPolicyRule
  <2>3. pc' = "rule2" /\ "unseen" \notin faults' => rules' = {<<"periodic", runs>>}
    BY <1>1, <2>1, <2>2 DEF CiraDone, Cleared
  <2>4. pc' \in {"idle", "rule2"}
    BY <1>2 DEF AddPolicyRule, Call, Invoke, Ends, Then, FailsTo, Unseen, Reaches
  <2>5. QED
    BY <1>1, <2>2, <2>3, <2>4 DEF CiraDone, Cleared
<1>3. CASE AddPolicyRule("rule2", "user", "apply1")
  <2>1. \/ pc' = "idle" \/ "unseen" \in faults'
        \/ pc' = "apply1" /\ \E s \in mps : rules' = rules \cup {<<"user", s>>}
    BY <1>3 DEF AddPolicyRule, Call, Invoke, Ends, Then, FailsTo, Unseen, Reaches
  <2>2. pc = "rule2"
    BY <1>3 DEF AddPolicyRule
  <2>3. pc' = "apply1" /\ "unseen" \notin faults' => rules' = {<<"periodic", runs>>, <<"user", runs>>}
    BY <1>1, <2>1, <2>2 DEF CiraDone, Cleared
  <2>4. Triggers \X {runs} = {<<"periodic", runs>>, <<"user", runs>>}
    BY DEF Triggers
  <2>5. pc' \in {"idle", "apply1"}
    BY <1>3 DEF AddPolicyRule, Call, Invoke, Ends, Then, FailsTo, Unseen, Reaches
  <2>6. QED
    BY <1>1, <2>2, <2>3, <2>4, <2>5 DEF CiraDone, Cleared
<1>4. QED
  BY <1>2, <1>3

LEMMA CiraApplies ==
    ASSUME CiraDone, ApplyPolicies PROVE CiraDone'
<1>0. SUFFICES ASSUME "unseen" \notin faults' PROVE CiraDone'
  BY DEF CiraDone
<1>1. UNCHANGED <<certs, mps, rules, cira, runs>> /\ "unseen" \notin faults
  BY <1>0 DEF ApplyPolicies, Call, Then, FailsTo, Ends, store, process
<1>2. \/ pc' = "idle"
      \/ pc = "apply1" /\ pc' = "apply0" /\ \E r \in rules : applied' = applied \cup {r}
      \/ pc = "apply0" /\ pc' = "state" /\ \E r \in rules \ applied : applied' = applied \cup {r}
  BY DEF ApplyPolicies, Call, Ends, Then, FailsTo, Reaches, Invoke, Unseen
<1>3. CASE pc' = "idle"
  BY <1>3 DEF CiraDone, Cleared
<1>4. CASE pc = "apply1" /\ pc' = "apply0" /\ \E r \in rules : applied' = applied \cup {r}
  BY <1>1, <1>4 DEF CiraDone, Cleared
<1>5. CASE pc = "apply0" /\ pc' = "state" /\ \E r \in rules \ applied : applied' = applied \cup {r}
  <2>1. PICK q \in rules : applied = {q}
    BY <1>1, <1>5 DEF CiraDone
  <2>2. PICK r \in rules : r # q /\ applied' = {q, r}
    BY <1>5, <2>1
  <2>3. rules = {<<"periodic", runs>>, <<"user", runs>>}
    BY <1>1, <1>5 DEF CiraDone, Triggers
  <2>4. applied' = rules
    BY <2>1, <2>2, <2>3
  <2>5. QED
    BY <1>1, <1>5, <2>4 DEF CiraDone, Cleared
<1>6. QED
  BY <1>2, <1>3, <1>4, <1>5

LEMMA CiraDoneStep ==
    ASSUME Places, CiraDone, Next PROVE CiraDone'
<1>1. CASE Begin \/ Kill
  BY <1>1, Beginning DEF Kill, Ends, CiraDone, Cleared
<1>2. CASE Finished
  BY <1>2 DEF Finished, vars, store, remote, process, CiraDone, Cleared
<1>3. CASE PruneCerts \/ Configure8021x
  <2>1. pc' \in {"idle", "again", "settings", "addwifi", "key", "client", "root", "enable"}
    BY <1>3 DEF PruneCerts, Prune, PruneUnread, AfterPrune, Configure8021x, GetCertificates,
       GetPrivateKeyHandle, GetClientCertHandle, GetTrustedRootCertHandle, Call, Goto, Ends, Then,
       Fails, FailsTo, Reaches, Invoke, Unseen, Upload, Finds, Skips, Same
  <2>2. QED
    BY <2>1 DEF CiraDone, Cleared
<1>4. CASE Wireless \/ Wired
  <2>1. pc' \in {"idle", "prune", "settings", "addwifi", "disable", "setcerts"}
    BY <1>4 DEF Wireless, ClearWirelessProfiles, AddWiFiSettings, Wired, PutEthernetSettings,
       AfterPrune, Disable8021xProfile, PutIEEE8021xSettings, AfterEnable,
       SetIEEE8021xCertificates, Call, Goto, Then, Fails, FailsTo, Reaches, Invoke, Unseen
  <2>2. QED
    BY <2>1 DEF CiraDone, Cleared
<1>5. CASE TlsCommand
  <2>1. pc' \in {"idle", "cleanup", "genkey", "amtcert", "context", "commitctx", "enumerate", "put",
                 "commit", "prune"}
    BY <1>5 DEF TlsCommand, AddIssuer, GenerateKeyPair, AddClientCert,
       UpdateTLSCredentialContext, EnumerateTLSSettingData, ConfigureTLSSettings, CommitTls,
       Commit, AfterPut, OnError, Call, Goto, Ends, Then, FailsTo, Reaches, Invoke, Unseen, Upload
  <2>2. QED
    BY <2>1 DEF CiraDone, Cleared
<1>6. CASE RequestStateChangeCIRA
  BY <1>6 DEF RequestStateChangeCIRA, Call, Then, FailsTo, Reaches, store, process, CiraDone,
     Cleared, Invoke, Unseen
<1>7. CASE PutEnvironmentDetection
  BY <1>7 DEF PutEnvironmentDetection, Ends, Fails, FailsTo, Reaches, CiraDone, Cleared
<1>8. QED
  BY <1>1, <1>2, <1>3, <1>4, <1>5, <1>6, <1>7, CiraSetUp, CiraPolicies, CiraApplies
     DEF Next, Step, CiraCommand

LEMMA DoneStep ==
    ASSUME TypeOK, Places, Credential, Done, Next PROVE Done'
BY WirelessDoneStep, WiredDoneStep, TlsDoneStep, CiraDoneStep DEF Done

\* The last call of a command completes what it was asked for.
LEMMA SuccessStep ==
    ASSUME TypeOK, Places, Handles, Done, SuccessMeansInEffect, Next PROVE SuccessMeansInEffect'
<1>1. CASE Begin \/ Kill
  BY <1>1 DEF Begin, Kill, Ends, SuccessMeansInEffect
<1>2. CASE Finished
  BY <1>2 DEF Finished, vars, store, profiles, ports, remote, process, Uses8021x, EnablesTls,
     Given, InEffect, SuccessMeansInEffect
<1>3. CASE PruneCerts
  <2>1. UNCHANGED <<profiles, ports, remote, process>> /\ faults \subseteq faults' /\ pc # "idle"
    BY <1>3, Asked DEF PruneCerts, Prune, PruneUnread, Begin, Ends, Reaches
  <2>2. SUFFICES ASSUME result' = "ok", "unseen" \notin faults' PROVE InEffect'
    BY DEF SuccessMeansInEffect
  <2>3. /\ pc \in {"prune", "again"} /\ cmd.name # "wireless" /\ ~(cmd.name = "wired" /\ Uses8021x)
        /\ pc = "again" => EnablesTls
    BY <1>3, <2>1, <2>2 DEF PruneCerts, Prune, PruneUnread, Places, AfterPrune, Ends, Reaches
  <2>4. cmd.name \in {"purge", "wired", "tls", "ea", "untls"}
    BY <2>3 DEF TypeOK, Places, Commands, Command, EnablesTls, Plain, Part
  <2>5. CASE cmd.name = "purge"
    BY <2>1, <2>3, <2>5 DEF Done, WirelessDone, InEffect, profiles, process, EnablesTls
  <2>6. CASE cmd.name = "wired"
    BY <2>1, <2>3, <2>6 DEF Done, WiredDone, InEffect, profiles, process, EnablesTls, Uses8021x
  <2>7. CASE cmd.name \in {"tls", "ea", "untls"}
    BY <2>1, <2>2, <2>3, <2>7 DEF Done, TlsDone, InEffect, profiles, ports, process, EnablesTls
  <2>8. QED
    BY <2>4, <2>5, <2>6, <2>7
<1>4. CASE Configure8021x
  BY <1>4 DEF Configure8021x, GetCertificates, GetPrivateKeyHandle, GetClientCertHandle,
     GetTrustedRootCertHandle, Call, Goto, Ends, Then, Fails, FailsTo, Reaches, Places,
     SuccessMeansInEffect, Invoke, Unseen, Upload, Finds, Skips, Same
<1>5. CASE ClearWirelessProfiles
  BY <1>5 DEF ClearWirelessProfiles, FailsTo, Reaches, Places, SuccessMeansInEffect
<1>6. CASE AddWiFiSettings
  <2>1. SUFFICES ASSUME result' = "ok", "unseen" \notin faults' PROVE InEffect'
    BY DEF SuccessMeansInEffect
  <2>2. wifi' = wifi \cup {got} /\ UNCHANGED <<cmd, faults>> /\ pc = "addwifi"
    BY <1>6, <2>1 DEF AddWiFiSettings, Call, Invoke, Then, FailsTo, Unseen, Reaches, process,
       Places
  <2>3. "call" \notin faults => wifi = {}
    BY <2>2 DEF Places, Done, WirelessDone
  <2>4. Given' = Given /\ got = Given
    BY <2>1, <2>2 DEF Given, Handles
  <2>5. cmd.name = "wireless"
    BY <2>2 DEF Places
  <2>6. QED
    BY <2>2, <2>3, <2>4, <2>5 DEF InEffect, EnablesTls
<1>7. CASE Disable8021xProfile
  <2>1. SUFFICES ASSUME result' = "ok", "unseen" \notin faults' PROVE InEffect'
    BY DEF SuccessMeansInEffect
  <2>2. cmd.name = "wired" /\ cmd' = cmd
    BY <1>7 DEF Disable8021xProfile, Places, process
  <2>3. AfterPrune = "idle" /\ ((wired' = wired /\ ~wired.on) \/ "call" \in faults')
    BY <1>7, <2>1 DEF Disable8021xProfile, Places, Goto, Then, Reaches
  <2>4. ~Uses8021x /\ ~Uses8021x'
    BY <2>2, <2>3 DEF AfterPrune, Uses8021x
  <2>5. InEffect' <=> ("call" \notin faults' => ~wired'.on)
    BY <2>2, <2>4 DEF InEffect, EnablesTls
  <2>6. QED
    BY <2>3, <2>5
<1>8. CASE PutIEEE8021xSettings \/ SetIEEE8021xCertificates
  <2>1. SUFFICES ASSUME result' = "ok", "unseen" \notin faults' PROVE InEffect'
    BY DEF SuccessMeansInEffect
  <2>2. cmd.name = "wired" /\ Uses8021x /\ cmd' = cmd /\ Given' = Given
    BY <1>8 DEF PutIEEE8021xSettings, SetIEEE8021xCertificates, Places, process, Given
  <2>3. got = Given
    BY <1>8, <2>1 DEF PutIEEE8021xSettings, SetIEEE8021xCertificates, Call, Invoke, Then,
       FailsTo, Unseen, Handles
  <2>4. \/ SetWired(TRUE, got)
        \/ SetWired(TRUE, wired.certs) /\ ~(cmd.eaptls /\ got # {})
    BY <1>8, <2>1 DEF PutIEEE8021xSettings, AfterEnable, SetIEEE8021xCertificates, Call, Invoke,
       Then, FailsTo, Unseen, Reaches, Places
  <2>5. wired'.on /\ (cmd.eaptls /\ Given # {} => wired'.certs = Given)
    BY <2>3, <2>4 DEF SetWired
  <2>6. InEffect' <=> (wired'.on /\ (cmd.eaptls /\ Given # {} => wired'.certs = Given))
    BY <2>2 DEF Uses8021x, InEffect, EnablesTls
  <2>7. QED
    BY <2>5, <2>6
<1>9. CASE PutEthernetSettings
  BY <1>9 DEF PutEthernetSettings, Goto, Fails, FailsTo, Reaches, Places, SuccessMeansInEffect
<1>10. CASE TlsCommand
  BY <1>10 DEF TlsCommand, AddIssuer, GenerateKeyPair, AddClientCert,
     UpdateTLSCredentialContext, EnumerateTLSSettingData, ConfigureTLSSettings, CommitTls, Commit,
     AfterPut, Call, Goto, Ends, Then, FailsTo, Reaches, Places, SuccessMeansInEffect, Invoke,
     Unseen, Upload
<1>11. CASE CiraCommand
  <2>1. SUFFICES ASSUME result' = "ok", "unseen" \notin faults' PROVE InEffect'
    BY DEF SuccessMeansInEffect
  <2>2. PutEnvironmentDetection /\ cmd.name = "cira"
    BY <1>11, <2>1 DEF CiraCommand, ClearRules, ClearServers, AddMpsRoot, AddMPS, AddPolicyRule,
       ApplyPolicies, RequestStateChangeCIRA, PutEnvironmentDetection, Call, Goto, Ends, Then,
       Fails, FailsTo, Reaches, Places, Invoke, Unseen
  <2>3. pc = "detect" /\ UNCHANGED <<certs, mps, rules, applied, cira, cmd, runs>>
    BY <2>2 DEF PutEnvironmentDetection, Same, store, remote, process
  <2>4. "unseen" \notin faults
    BY <2>1, <2>2 DEF PutEnvironmentDetection, Ends, Fails, FailsTo
  <2>5. QED
    BY <2>2, <2>3, <2>4 DEF Done, CiraDone, EnablesTls, InEffect
<1>12. QED
  BY <1>1, <1>2, <1>3, <1>4, <1>5, <1>6, <1>7, <1>8, <1>9, <1>10, <1>11 DEF Next, Step,
     Wireless, Wired

-----------------------------------------------------------------------------
\* The invariant is inductive.
LEMMA InvStep == Inv /\ [Next]_vars => Inv'
<1> SUFFICES ASSUME Inv, [Next]_vars PROVE Inv'
  OBVIOUS
<1>1. CASE Next
  BY <1>1, TypeStep, PlacesStep, HeldStep, UploadedStep, HandlesStep, CredentialStep,
     PoliciesStep, NoPanicStep, FailedTlsStep, CausesStep, RetryStep, DoneStep, SuccessStep DEF Inv
<1>2. CASE UNCHANGED vars
  <2>1. TypeOK' /\ Places' /\ Held(InUse)' /\ Uploaded' /\ Handles'
    BY <1>2 DEF Inv, vars, store, profiles, ports, remote, process, TypeOK, StoreTypeOK, Places,
       EnablesTls, Held, InUse, Uploaded, Handles, Given, Uses8021x, Own
  <2>2. Credential' /\ Policies' /\ Causes' /\ NoPanic' /\ FailedTlsCleansUp' /\ RetryRecovers'
    BY <1>2 DEF Inv, vars, store, profiles, ports, remote, process, EnablesTls, InUse,
       Uses8021x, Credential, Backed, Policies, TwoPolicies, Causes, NoPanic, FailedTlsCleansUp,
       RetryRecovers
  <2>3. Done'
    BY <1>2 DEF Inv, vars, store, profiles, ports, remote, process, EnablesTls, Done,
       WirelessDone, WiredDone, TlsDone, CiraDone, Cleared
  <2>4. SuccessMeansInEffect'
    BY <1>2 DEF Inv, vars, store, profiles, ports, remote, process, EnablesTls, Given,
       Uses8021x, InEffect, SuccessMeansInEffect
  <2>5. QED
    BY <2>1, <2>2, <2>3, <2>4 DEF Inv
<1>3. QED
  BY <1>1, <1>2

THEOREM Invariance == Spec => []Inv
<1>1. QED
  BY InitInv, InvStep, PTL DEF Spec

\* Type correctness (configure): the variables of the commands and of the device
\* keep their types.
THEOREM TypeCorrect == Spec => []TypeOK
<1>1. Inv => TypeOK
  BY DEF Inv
<1>2. QED
  BY <1>1, Invariance, PTL

\* No command takes away what another one's profile needs (PruneCerts,
\* certs/utils.go), for any number of credentials and processes, whichever parts
\* of a credential are given: what has no key never had it.
THEOREM CredentialsStay == Spec => []CredentialsPresent
<1>1. Inv => CredentialsPresent
  BY DEF Inv, Held, Credential, Backed, CredentialsPresent
<1>2. QED
  BY <1>1, Invariance, PTL

\* PruneCerts (utils.go:151) panics only on a profile in use that never had its
\* key, and cira.go only when the device refused something without an error.
THEOREM NeverPanics == Spec => []NoPanic
<1>1. Inv => NoPanic
  BY DEF Inv
<1>2. QED
  BY <1>1, Invariance, PTL

\* A command that reports success has put in effect what it was asked for, on
\* anything earlier commands left when they failed or were killed, unless the
\* device refused one of its calls without an error.
THEOREM SuccessIsInEffect == Spec => []SuccessMeansInEffect
<1>1. Inv => SuccessMeansInEffect
  BY DEF Inv
<1>2. QED
  BY <1>1, Invariance, PTL

\* A failed tls leaves nothing unused, unless its cleanup failed too (tls.go:184).
THEOREM FailureIsCleanedUp == Spec => []FailedTlsCleansUp
<1>1. Inv => FailedTlsCleansUp
  BY DEF Inv
<1>2. QED
  BY <1>1, Invariance, PTL

\* What earlier commands left never makes a later one fail, but for the two exceptions.
THEOREM RetriesRecover == Spec => []RetryRecovers
<1>1. Inv => RetryRecovers
  BY DEF Inv
<1>2. QED
  BY <1>1, Invariance, PTL
=============================================================================
