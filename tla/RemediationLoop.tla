-------------------------- MODULE RemediationLoop --------------------------
(***************************************************************************)
(* The observe/decide/act loop of one live policy over time, with one      *)
(* idealisation: a pass is a single step that sees the nodes as they are.  *)
(* It asks whether the loop is woken when it has something to do: a pass   *)
(* runs only when an event passed the watch filters or when the requeue    *)
(* delay of the previous pass has expired.  Stale caches, partial passes   *)
(* and failures are the subject of module Reconciler.                      *)
(*                                                                         *)
(* Time is relative: the present is 0, a lastTransitionTime is the age of  *)
(* the transition, negated, and a tick makes everything one unit older.    *)
(* Ages saturate at Horizon, beyond every debounce window.                 *)
(***************************************************************************)
EXTENDS NodeEvents

CONSTANTS
  Nodes,      \* the names of the cluster's nodes
  Policies,   \* the specs the policy can be given
  Horizon,    \* ages are counted up to here
  MaxSkew,    \* how far ahead of the operator a node's clock may be
  Never       \* no requeue is scheduled

ASSUME LoopAssumption ==
  /\ IsFiniteSet(Nodes)
  /\ Horizon \in Nat /\ MaxSkew \in Nat
  /\ ZeroTime < -Horizon
  /\ Never \notin Nat
  /\ \A s \in Policies : /\ ValidSelector(s)
                         /\ projectPolicy(s).debounceEnter \in 0 .. Horizon
                         /\ projectPolicy(s).debounceExit \in 0 .. Horizon

VARIABLES
  policy,     \* the live policy's spec
  node,       \* node[n]: labels, watched condition, and whether n has the taint
  wake,       \* delay before the next pass: 0 when one is queued, or Never
  rewound     \* auxiliary: nodes whose timestamp moved back while no pass is queued

vars == <<policy, node, wake, rewound>>

(* projectPolicy succeeds on every spec of Policies. *)
pure == projectPolicy(policy)

Timestamps == {ZeroTime} \cup (-Horizon) .. MaxSkew

Conditions ==
  [status : ConditionStatuses, lastTransition : Timestamps]
    \cup [status : {StatusAbsent}, lastTransition : {ZeroTime}]

(* The types, and a bound that matters: a requeue delay Decide computes    *)
(* never exceeds the longest window plus the clock skew, even for a        *)
(* transition stamped in the operator's future.                            *)
TypeOK ==
  /\ policy \in Policies
  /\ node \in [Nodes -> [labels : Labels, status : ConditionStatuses \cup {StatusAbsent},
                         lastTransition : Timestamps, hasTaint : BOOLEAN]]
  /\ wake \in 0 .. (Horizon + MaxSkew) \cup {Never}
  /\ rewound \in SUBSET Nodes

Init ==
  /\ policy \in Policies
  /\ node \in [Nodes -> [labels : Labels, status : {StatusAbsent},
                         lastTransition : {ZeroTime}, hasTaint : {FALSE}]]
  /\ wake = 0
  /\ rewound = {}

-----------------------------------------------------------------------------

Aged(timestamp) ==
  CASE timestamp = ZeroTime -> ZeroTime
    [] timestamp = -Horizon -> timestamp
    [] OTHER                -> timestamp - 1

Tick ==
  /\ node' = [n \in Nodes |-> [node[n] EXCEPT !.lastTransition = Aged(@)]]
  /\ wake' = IF wake = Never \/ wake = 0 THEN wake ELSE wake - 1
  /\ UNCHANGED <<policy, rewound>>

(* A Node update, as the watch sees it. *)
Update(n, new) ==
  /\ node' = [node EXCEPT ![n] = new]
  /\ wake' = IF EnqueuesOnUpdate(policy, node[n], new) THEN 0 ELSE wake
  /\ rewound' = CASE wake' = 0 -> {}
                  [] wake' # 0 /\ new.lastTransition < node[n].lastTransition -> rewound \cup {n}
                  [] OTHER -> rewound
  /\ UNCHANGED policy

(* A detector flips the condition.  It stamps the flip with its own clock, *)
(* which may be ahead, or leaves the timestamp out.                        *)
FlipCondition(n) ==
  \E c \in Conditions :
    /\ c.status # node[n].status
    /\ c.lastTransition \in {ZeroTime} \cup 0 .. MaxSkew
    /\ Update(n, [node[n] EXCEPT !.status = c.status,
                                 !.lastTransition = c.lastTransition])

(* A detector rewrites the timestamp and keeps the status: it bumps it,    *)
(* adds or drops it, or sets it back when its clock stepped.               *)
Restamp(n) ==
  /\ node[n].status # StatusAbsent
  /\ \E t \in Timestamps :
       Update(n, [node[n] EXCEPT !.lastTransition = t])

Relabel(n) ==
  \E l \in Labels \ {node[n].labels} : Update(n, [node[n] EXCEPT !.labels = l])

(* Somebody else deletes the taint. *)
RemoveOutOfBand(n) ==
  /\ node[n].hasTaint
  /\ Update(n, [node[n] EXCEPT !.hasTaint = FALSE])

(* The policy watch is not filtered. *)
EditSpec ==
  \E p \in Policies \ {policy} :
    /\ policy' = p
    /\ wake' = 0
    /\ rewound' = {}
    /\ UNCHANGED node

(* One reconcile.  Its own taint writes come back through the Node watch.  *)
Reconcile ==
  /\ wake = 0
  /\ rewound' = {}
  /\ UNCHANGED policy
  /\ \E d \in {Decide(pure, node, 0)} :
       /\ node' = [n \in Nodes |->
                     [node[n] EXCEPT !.hasTaint =
                        (@ \/ n \in d.applyTaint) /\ n \notin d.removeTaint]]
       /\ wake' = IF \E n \in Nodes : EnqueuesOnUpdate(policy, node[n], node'[n]) THEN 0
                  ELSE IF d.requeueAfter = 0 THEN Never ELSE d.requeueAfter

Next ==
  \/ Tick
  \/ Reconcile
  \/ EditSpec
  \/ \E n \in Nodes : FlipCondition(n) \/ Restamp(n) \/ Relabel(n) \/ RemoveOutOfBand(n)

(* Clocks advance and controller-runtime serves its queue. *)
Fairness == WF_vars(Tick) /\ WF_vars(Reconcile)

Spec == Init /\ [][Next]_vars /\ Fairness

-----------------------------------------------------------------------------

Tainted == {n \in Nodes : node[n].hasTaint}

(* What a pass would do if it ran t from now. *)
ActsAt(t) ==
  LET d == Decide(pure, node, t) IN d.applyTaint \cup d.removeTaint

(* The loop never sleeps through a deadline: whenever it is not queued,    *)
(* nothing becomes due before the requeue it asked for (Decide's           *)
(* minPositive over all waiting nodes), for ever if it asked for none.     *)
(* Everything that can bring a deadline forward must have passed the       *)
(* watch filters, save one: a timestamp set back is filtered like any bump *)
(* and the node waits for the deadline of its old timestamp, never longer. *)
NoOversleep ==
  wake # 0 =>
    \A t \in 0 .. (2 * Horizon + MaxSkew) :
      /\ wake = Never => ActsAt(t) = {}
      /\ wake # Never /\ t < wake => ActsAt(t) \subseteq rewound

(* The condition has matched beyond the enter window, in scope and under   *)
(* the guard.                                                              *)
DueForTaint(n) ==
  /\ n \in Pending(pure, node) \cup Tainted
  /\ n \in Matched(pure, node)
  /\ ~GuardTripped(pure, node)
  /\ StableFor(node[n], 0) >= pure.debounceEnter

(* A node that stays due is tainted, and tainted again whenever somebody   *)
(* removes the taint: RequeueAfter or a watch event always brings the loop *)
(* back to it.                                                             *)
DueNodesAreTainted ==
  \A n \in Nodes : <>[]DueForTaint(n) => []<>(n \in Tainted)

(* The condition has been clear beyond the exit window, or the node is out *)
(* of scope.                                                               *)
DueForRelease(n) ==
  \/ n \notin Selected(pure, node)
  \/ /\ Cleared(pure, node[n])
     /\ ~NoTimestamp(node[n])
     /\ StableFor(node[n], 0) >= pure.debounceExit

(* A node that stays due for release loses the taint and never gets it     *)
(* back (the removal branches of Decide).                                  *)
DueNodesAreReleased ==
  \A n \in Nodes : <>[]DueForRelease(n) => <>[](n \notin Tainted)

(* Once nothing but the operator and the clock moves, the loop falls       *)
(* silent: its own taint writes settle instead of waking it for ever, and  *)
(* no requeue chases a window that has already expired.                    *)
LoopFallsSilent == <>[][Tick \/ Reconcile]_vars => <>[](wake = Never)

(* What the API says of the guard: it "limits how many nodes a single      *)
(* policy may remediate at once".  Read over the nodes that carry the      *)
(* taint, not over the nodes that match in one pass.                       *)
GuardLimitsRemediated ==
  Cardinality(Selected(pure, node) \cap Tainted) * 100
    <= pure.maxAffectedPercent * Cardinality(Selected(pure, node))

=============================================================================
