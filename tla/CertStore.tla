----------------------------- MODULE CertStore -----------------------------
(***************************************************************************)
(* The certificates and keys on the device, and what rpc does with them:   *)
(* internal/certs/utils.go and ConfigureIEEE8021xCertificates of certs.go. *)
(*                                                                         *)
(* A certificate is told from others by its content, which also names its  *)
(* handle: the device refuses to hold the same content twice.  A key is    *)
(* named by the client certificate it belongs to (the concrete dependency  *)
(* of the two).  What profiles use is the credential contexts.             *)
(***************************************************************************)
EXTENDS Naturals

CONSTANTS Creds,      \* 802.1x credentials, a key and its client certificate each
          MaxRuns     \* bound: processes
ASSUME MaxRunsAssumption == MaxRuns \in Nat

VARIABLES
    certs,    \* the certificates on the device
    keys,     \* its private keys
    wifi,     \* its wireless profiles, each the certificates it uses
    wired,    \* the wired 802.1x profile: enabled or not, and its certificates
    ctx,      \* the certificate of the TLS credential context, in a set
    lacking   \* client certificates given without their key, or refused, they or
              \* their key, without an error (history)

store == <<certs, keys, lacking>>

Eap(c) == <<"eap", c>>
Tls(r) == <<"tls", r>>
Issuer(r) == <<"issuer", r>>
Ca == <<"ca">>
MpsRoot == <<"mps">>

Clients == {Eap(c) : c \in Creds} \cup {Tls(r) : r \in 1..MaxRuns}
Roots == {Issuer(r) : r \in 1..MaxRuns} \cup {Ca, MpsRoot}
Profiles == {p \in SUBSET ({Eap(c) : c \in Creds} \cup {Ca}) :
                \A c, d \in Creds : Eap(c) \in p /\ Eap(d) \in p => c = d}

StoreTypeOK ==
    /\ certs \subseteq Clients \cup Roots /\ keys \subseteq Clients
    /\ wifi \subseteq Profiles
    /\ wired \in [on : BOOLEAN, certs : Profiles]
    /\ ctx \in {{}} \cup {{Tls(r)} : r \in 1..MaxRuns}
    /\ lacking \subseteq Clients

StoreInit ==
    /\ certs = {} /\ keys = {} /\ wifi = {} /\ wired = [on |-> FALSE, certs |-> {}]
    /\ ctx = {} /\ lacking = {}

-----------------------------------------------------------------------------
(***************************************************************************)
(* GetCertificates: which certificates are associated with a profile, and  *)
(* which keys with such a certificate.                                     *)
(***************************************************************************)
\* Mutant: the contexts of wired 802.1x are not processed.
Associated_NoWired == (UNION wifi) \cup ctx

Associated == (UNION wifi) \cup wired.certs \cup ctx

\* The type assertion on profileAssociation.Key, in the loop over the keys: nil without the key.
KeyMissing == keys # {} /\ \E c \in Associated \cap certs \cap Clients : c \notin keys

(***************************************************************************)
(* PruneCerts, once everything was read: deletes what is not associated; a *)
(* deletion that fails is only logged.                                     *)
(***************************************************************************)
DeleteUnused ==
    /\ \E kept \in SUBSET (certs \ Associated) : certs' = (certs \cap Associated) \cup kept
    /\ \E kept \in SUBSET (keys \ Associated) : keys' = (keys \cap Associated) \cup kept
    /\ UNCHANGED lacking
Pruned == certs' \subseteq Associated /\ keys' \subseteq Associated

-----------------------------------------------------------------------------
(* Additions, and what is refused unseen. *)

AddCert(c) == certs' = certs \cup {c} /\ UNCHANGED <<keys, lacking>>
AddKey(c) == keys' = keys \cup {c} /\ UNCHANGED <<certs, lacking>>
Lacks(c) == lacking' = lacking \cup {c} /\ UNCHANGED <<certs, keys>>
=============================================================================
