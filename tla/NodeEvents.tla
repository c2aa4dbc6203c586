----------------------------- MODULE NodeEvents -----------------------------
(***************************************************************************)
(* Which Node events wake a policy: the watch predicates                   *)
(* (internal/predicate) and the event handler that maps a Node event to    *)
(* the policies it can affect (nodeEventHandler).  The model follows one   *)
(* policy, hence one condition type and one taint key; the node's other    *)
(* conditions and taints never concern it.                                 *)
(*                                                                         *)
(* Nodes are the records of module Remediation, p is a policy's spec.      *)
(***************************************************************************)
EXTENDS PolicySpec

(* Mutant of ConditionState: the presence of a timestamp is churn too. *)
ConditionStatusOnly(node) == [status |-> node.status, hasTimestamp |-> TRUE]

(* A node that does not report the condition has status StatusAbsent and   *)
(* ZeroTime: the zero state.                                               *)
ConditionState(node) ==
  [status       |-> node.status,
   hasTimestamp |-> node.lastTransition # ZeroTime]

ConditionChanged(old, new) == ConditionState(old) # ConditionState(new)

TaintChanged(old, new) == old.hasTaint # new.hasTaint

LabelsChanged(old, new) == old.labels # new.labels

(* The predicate the Node watch is built with. *)
PassesPredicate(old, new) ==
  \/ ConditionChanged(old, new)
  \/ TaintChanged(old, new)
  \/ LabelsChanged(old, new)

(* Mutant of WakingChange: taint changes wake nobody. *)
WakingConditionChange(old, new) == ConditionChanged(old, new)

(* What concerns a policy in a node that stays in its scope. *)
WakingChange(old, new) == ConditionChanged(old, new) \/ TaintChanged(old, new)

(* Create and delete events: every policy that selects the node.           *)
EnqueuesOnExistence(p, node) == Selects(p, node)

(* Update events: nothing to enqueue when the selector does not parse.     *)
EnqueuesOnUpdate(p, old, new) ==
  /\ PassesPredicate(old, new)
  /\ \/ LabelsChanged(old, new) /\ (Selects(p, new) \/ Selects(p, old))
     \/ ~LabelsChanged(old, new) /\ Selects(p, new) /\ WakingChange(old, new)

=============================================================================
