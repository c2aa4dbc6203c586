---------------------------- MODULE Remediation ----------------------------
(***************************************************************************)
(* The pure core of the operator (internal/remediation): the decision one  *)
(* reconcile pass takes for one policy, from the node facts it observed    *)
(* and the current time.  Lists of node names are sets of names: the core  *)
(* never looks at their order and the shell sorts them before publishing.  *)
(*                                                                         *)
(* A policy is a record                                                    *)
(*    [selector, conditionStatus, debounceEnter, debounceExit,             *)
(*     maxAffectedPercent]                                                 *)
(* whose selector is the set of label sets it matches (every label set for *)
(* a nil selector).  facts maps the name of each observed node to          *)
(*    [labels, status, lastTransition, hasTaint].                          *)
(***************************************************************************)
EXTENDS Integers, FiniteSets, FiniteSetsExt

CONSTANT ZeroTime    \* Go's zero time.Time: the condition has no lastTransitionTime

ASSUME ZeroTimeAssumption == ZeroTime \in Int

StatusUnknown == "Unknown"
StatusAbsent  == ""              \* the node does not report the condition

ConditionStatuses == {"True", "False", StatusUnknown}

InScope(p, f) == f.labels \in p.selector

Matches(p, f) == f.status = p.conditionStatus

(* Unknown or unreported: the detector is down or the node unreachable. *)
Indeterminate(f) == f.status \in {StatusUnknown, StatusAbsent}

(* The nodes that count in the denominator of the guard.  The match is     *)
(* tested first, so a policy that triggers on Unknown counts its nodes.    *)
Determinate(p, f) == Matches(p, f) \/ ~Indeterminate(f)

(* Present, not the trigger, not Unknown. *)
Cleared(p, f) == ~Matches(p, f) /\ ~Indeterminate(f)

NoTimestamp(f) == f.lastTransition = ZeroTime

(* Mutant of StableFor: the operands of Sub swapped. *)
StableForReversed(f, now) == f.lastTransition - now

(* Go's now.Sub saturates on a zero time; here the zero time simply lies   *)
(* before every debounce window, so that the difference is as misleading.  *)
StableFor(f, now) == now - f.lastTransition

Selected(p, facts) == {n \in DOMAIN facts : InScope(p, facts[n])}

Matched(p, facts) == {n \in Selected(p, facts) : Matches(p, facts[n])}

(* Mutant of ScopedOutTainted: nodes out of scope are skipped. *)
ScopedOutSkipped(p, facts) == {}

(* Out of scope but still carrying the taint: relabelled after remediation. *)
ScopedOutTainted(p, facts) ==
  {n \in DOMAIN facts \ Selected(p, facts) : facts[n].hasTaint}

DeterminateCount(p, facts) ==
  Cardinality({n \in Selected(p, facts) : Determinate(p, facts[n])})

(* matched/determinate > percent/100, in integers. *)
GuardTripped(p, facts) ==
  /\ DeterminateCount(p, facts) > 0
  /\ Cardinality(Matched(p, facts)) * 100
       > p.maxAffectedPercent * DeterminateCount(p, facts)

(* Mutant of MinPositive: no delay means the shortest one. *)
MinPositiveOrOne(delays) ==
  LET positive == {d \in delays : d > 0}
  IN  IF positive = {} THEN 1 ELSE Min(positive)

(* The smallest strictly positive delay, 0 if there is none: a candidate    *)
(* that is not positive is no requeue and must not cancel the others.      *)
MinPositive(delays) ==
  LET positive == {d \in delays : d > 0}
  IN  IF positive = {} THEN 0 ELSE Min(positive)

(* Matched nodes without the taint whose debounce can be measured. *)
Pending(p, facts) ==
  {n \in Matched(p, facts) : ~facts[n].hasTaint /\ ~NoTimestamp(facts[n])}

(* Cleared nodes with the taint whose debounce can be measured. *)
Exiting(p, facts) ==
  {n \in Selected(p, facts) : /\ Cleared(p, facts[n])
                              /\ facts[n].hasTaint
                              /\ ~NoTimestamp(facts[n])}

(* Nodes that would enter or leave remediation but carry no timestamp. *)
HeldMissingTimestamp(p, facts) ==
  {n \in Selected(p, facts) :
     /\ NoTimestamp(facts[n])
     /\ \/ Matches(p, facts[n]) /\ ~facts[n].hasTaint
        \/ Cleared(p, facts[n]) /\ facts[n].hasTaint}

(* The guard holds all of them back: they wait for an event, not a delay. *)
Entering(p, facts) == IF GuardTripped(p, facts) THEN {} ELSE Pending(p, facts)

ApplyTaint(p, facts, now) ==
  {n \in Entering(p, facts) : StableFor(facts[n], now) >= p.debounceEnter}

RemoveTaint(p, facts, now) ==
  ScopedOutTainted(p, facts)
    \cup {n \in Exiting(p, facts) : StableFor(facts[n], now) >= p.debounceExit}

(* The time each waiting node still has to wait. *)
Waits(p, facts, now) ==
  {p.debounceEnter - StableFor(facts[n], now) :
     n \in Entering(p, facts) \ ApplyTaint(p, facts, now)}
  \cup {p.debounceExit - StableFor(facts[n], now) :
     n \in Exiting(p, facts) \ RemoveTaint(p, facts, now)}

RequeueAfter(p, facts, now) == MinPositive(Waits(p, facts, now))

Decide(p, facts, now) ==
  [applyTaint           |-> ApplyTaint(p, facts, now),
   removeTaint          |-> RemoveTaint(p, facts, now),
   heldMissingTimestamp |-> HeldMissingTimestamp(p, facts),
   requeueAfter         |-> RequeueAfter(p, facts, now),
   selectedNodes        |-> Selected(p, facts),
   matchedNodes         |-> Matched(p, facts),
   pendingNodes         |-> Pending(p, facts),
   unknownNodes         |-> {n \in Selected(p, facts) :
                               ~Matches(p, facts[n]) /\ Indeterminate(facts[n])},
   remediatedNodes      |-> {n \in Selected(p, facts) : facts[n].hasTaint},
   guardTripped         |-> GuardTripped(p, facts)]

=============================================================================
