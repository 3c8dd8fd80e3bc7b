---------------------------- MODULE ConfigureCira ---------------------------
(* The command cira of internal/commands/configure. *)
EXTENDS ConfigureProcess

\* clearCIRA, its first half: the rules are deleted one by one.
ClearRules ==
    /\ pc = "rules"
    /\ \/ rules' = {} /\ Goto("servers")
       \/ (\E kept \in SUBSET Triggers : rules' = {r \in rules : r[1] \in kept}) /\ Fails
    /\ applied' = applied \cap rules'
    /\ UNCHANGED <<store, profiles, ports, mps, cira, process>>

\* clearCIRA, its second half.
ClearServers ==
    /\ pc = "servers"
    /\ \/ mps' = {} /\ Goto("mpscert")
       \/ mps' \in SUBSET mps /\ Fails
    /\ UNCHANGED <<store, profiles, ports, rules, applied, cira, process>>

\* Mutant: a certificate that is on the device is an error.
AddMpsRoot_Strict ==
    /\ pc = "mpscert"
    /\ \/ MpsRoot \in certs /\ Ends("error") /\ UNCHANGED store
       \/ MpsRoot \notin certs /\ Call(AddCert(MpsRoot), UNCHANGED store, "addmps", "idle")
    /\ Same

\* "Root Certificate already exists": it goes on with that one.
AddMpsRoot ==
    /\ pc = "mpscert"
    /\ Invoke(AddCert(MpsRoot), UNCHANGED store, "addmps", "idle")
    /\ Same

AddMPS ==
    /\ pc = "addmps"
    /\ Invoke(mps' = mps \cup {runs}, UNCHANGED mps, "rule1", "idle")
    /\ UNCHANGED <<store, profiles, ports, rules, applied, cira, process>>

\* For the server that GetMPSSAP, called before the first rule, lists first.
AddPolicyRule(place, trigger, next) ==
    /\ pc = place
    /\ \/ \E s \in mps :
             Invoke(rules' = rules \cup {<<trigger, s>>}, UNCHANGED rules, next, "idle")
       \/ mps = {} /\ Ends("error") /\ UNCHANGED rules
    /\ UNCHANGED <<store, profiles, ports, mps, applied, cira, process>>

TwoPolicies == \E r, q \in rules : r # q

(* The policies are used by position, [1] and then [0]: without two, when the *)
(* device refused one without an error, the index is out of range.           *)
ApplyPolicies ==
    /\ \/ /\ pc = "apply1" /\ ~TwoPolicies
          /\ Ends("panic") /\ UNCHANGED applied
       \/ /\ pc = "apply1" /\ TwoPolicies
          /\ \E r \in rules : Call(applied' = applied \cup {r}, UNCHANGED applied, "apply0", "idle")
       \/ /\ pc = "apply0"
          /\ \E r \in rules \ applied :
                Call(applied' = applied \cup {r}, UNCHANGED applied, "state", "idle")
    /\ UNCHANGED <<store, profiles, ports, mps, rules, cira, process>>

RequestStateChangeCIRA ==
    /\ pc = "state"
    /\ Invoke(cira' = TRUE, UNCHANGED cira, "detect", "idle")
    /\ UNCHANGED <<store, profiles, ports, mps, rules, applied, process>>

PutEnvironmentDetection ==
    /\ pc = "detect"
    /\ Ends("ok") \/ Fails
    /\ UNCHANGED store /\ Same

CiraCommand ==
    \/ ClearRules \/ ClearServers \/ AddMpsRoot \/ AddMPS
    \/ AddPolicyRule("rule1", "periodic", "rule2") \/ AddPolicyRule("rule2", "user", "apply1")
    \/ ApplyPolicies \/ RequestStateChangeCIRA \/ PutEnvironmentDetection
=============================================================================
