--------------------------- MODULE AzureICMPRules ---------------------------
(***************************************************************************)
(* The Azure provider's AddICMPRulesIfRequired (provider.go): a Get of    *)
(* the cluster's network security group, and, when the group carries the  *)
(* cluster's ownership tag and lacks one of the three baseline rules, one *)
(* CreateOrUpdate with the rule list of the Get plus the missing rules.   *)
(* The controller calls it on every reconcile of the cluster.             *)
(*                                                                         *)
(* The same security group is written by the cloud controller manager of  *)
(* the user cluster, which adds and removes a rule per LoadBalancer       *)
(* service, and may be edited by an administrator.                         *)
(***************************************************************************)
EXTENDS Naturals, FiniteSets

CONSTANTS
  ForeignRules,  \* rules the cloud controller manager creates
  MaxEdits,      \* bound on writes of the security group by others
  MaxFaults      \* bound on failed calls

ASSUME MaxEdits \in Nat /\ MaxFaults \in Nat

VARIABLES
  sgName,  \* cluster.Spec.Cloud.Azure.SecurityGroup is set
  owned,   \* the security group carries the cluster's ownership tag
  rules,   \* names of the security group's rules in Azure
  pc,      \* step of the current call: "idle", "get" or "write"
  rd,      \* the rule names the Get returned
  edits,   \* writes by others so far
  faults   \* failed calls so far

vars == <<sgName, owned, rules, pc, rd, edits, faults>>

\* denyAllTCPSecGroupRuleName, denyAllUDPSecGroupRuleName and
\* allowAllICMPSecGroupRuleName.
DenyAllTCP == "deny_all_tcp"
DenyAllUDP == "deny_all_udp"
AllowAllICMP == "icmp_by_allow_all"
Baseline == {DenyAllTCP, DenyAllUDP, AllowAllICMP}

(***************************************************************************)
(* The group was created by the cluster's own reconcile, with all three  *)
(* baseline rules or, before the ICMP rule existed, with the two deny     *)
(* rules; or it was pre-provisioned by the user, untagged and without     *)
(* rules.  The name may not have been persisted yet.                      *)
(***************************************************************************)
Init ==
  /\ sgName \in BOOLEAN
  /\ owned \in BOOLEAN
  /\ rules \in IF owned THEN {Baseline, Baseline \ {AllowAllICMP}} ELSE {{}}
  /\ pc = "idle"
  /\ rd = {}
  /\ edits = 0 /\ faults = 0

\* An empty SecurityGroup name returns nil; otherwise the Get follows.
ICMPStart ==
  /\ pc = "idle"
  /\ pc' = IF sgName THEN "get" ELSE "idle"
  /\ UNCHANGED <<sgName, owned, rules, rd, edits, faults>>

\* Plausible bug: the switch over the rule names sets the ICMP flag for
\* the UDP rule (a copy-paste slip), so a lost ICMP rule is not re-added.
HasRulesICMPFromUDP(s) ==
  (s \cap {DenyAllTCP, DenyAllUDP})
    \cup (IF DenyAllUDP \in s THEN {AllowAllICMP} ELSE {})

\* The baseline rules the switch over the rule names finds among rules s.
HasRules(s) == s \cap Baseline

\* The baseline rules a call appends after reading s.
MissingRules(s) == Baseline \ HasRules(s)

\* sgClient.Get; a group without the ownership tag, or one that has all
\* three rules, ends the call.
ICMPGet ==
  /\ pc = "get"
  /\ rd' = rules
  /\ pc' = IF owned /\ MissingRules(rules) /= {} THEN "write" ELSE "idle"
  /\ UNCHANGED <<sgName, owned, rules, edits, faults>>

\* sgClient.CreateOrUpdate with the rules of the Get and the missing ones
\* appended; the body carries no ETag condition.
ICMPWrite ==
  /\ pc = "write"
  /\ rules' = rd \cup MissingRules(rd)
  /\ pc' = "idle"
  /\ UNCHANGED <<sgName, owned, rd, edits, faults>>

\* An error of the credentials, of the Get or of the write ends the call.
ICMPFail ==
  /\ pc \in {"get", "write"}
  /\ faults < MaxFaults
  /\ pc' = "idle"
  /\ faults' = faults + 1
  /\ UNCHANGED <<sgName, owned, rules, rd, edits>>

\* The security group name is persisted by the cluster's reconcile.
PersistName ==
  /\ ~sgName
  /\ sgName' = TRUE
  /\ UNCHANGED <<owned, rules, pc, rd, edits, faults>>

(***************************************************************************)
(* Others: the cloud controller manager adds or removes its rule for a    *)
(* service; an administrator deletes a rule.                               *)
(***************************************************************************)
AddForeign(r) ==
  /\ r \notin rules /\ edits < MaxEdits
  /\ rules' = rules \cup {r}
  /\ edits' = edits + 1
  /\ UNCHANGED <<sgName, owned, pc, rd, faults>>

RemoveRule(r) ==
  /\ r \in rules /\ edits < MaxEdits
  /\ rules' = rules \ {r}
  /\ edits' = edits + 1
  /\ UNCHANGED <<sgName, owned, pc, rd, faults>>

Next ==
  \/ ICMPStart \/ ICMPGet \/ ICMPWrite \/ ICMPFail \/ PersistName
  \/ \E r \in ForeignRules : AddForeign(r)
  \/ \E r \in ForeignRules \cup Baseline : RemoveRule(r)

\* The cluster is reconciled again and again (periodic resync).
Fairness == WF_vars(ICMPStart) /\ WF_vars(ICMPGet) /\ WF_vars(ICMPWrite)

Spec == Init /\ [][Next]_vars /\ Fairness

(***************************************************************************)
(* Properties                                                              *)
(***************************************************************************)
\* That the baseline is restored is checked where the module is composed
\* with reconcileCluster: BaselineKept in AzureProvision.

\* A rule of the cloud controller manager leaves the security group only
\* through the cloud controller manager: AddICMPRulesIfRequired writes back
\* what it read and never removes a rule ("We trust that no one will alter
\* the content of the rules").
ForeignRulesPreserved ==
  [][\A r \in ForeignRules :
       r \in rules /\ r \notin rules' => RemoveRule(r)]_vars

=============================================================================
