----------------------- MODULE RemediationLoopProofs -----------------------
(***************************************************************************)
(* The loop of module RemediationLoop never sleeps through a deadline, for *)
(* any number of nodes, any set of specs and any clock skew.               *)
(***************************************************************************)
EXTENDS RemediationLoop, RemediationProofs

USE LoopAssumption, ZeroTimeAssumption

(* No waiting node is due before the requeue: NoOversleep, said of the     *)
(* delay each node still has to wait and not of every moment to come.      *)
WakesInTime ==
  wake # 0 =>
    /\ ScopedOutTainted(pure, node) = {}
    /\ wake = Never => Entering(pure, node) = {} /\ Exiting(pure, node) = {}
    /\ wake # Never =>
         /\ \A n \in Entering(pure, node) \ rewound :
              wake <= pure.debounceEnter - StableFor(node[n], 0)
         /\ \A n \in Exiting(pure, node) \ rewound :
              wake <= pure.debounceExit - StableFor(node[n], 0)

IInv == TypeOK /\ WakesInTime

-----------------------------------------------------------------------------
(* What the types say. *)

(* The windows of a projected spec lie within the horizon. *)
LEMMA PureType ==
  ASSUME policy \in Policies
  PROVE  /\ ValidSelector(policy)
         /\ pure.debounceEnter \in Int /\ pure.debounceEnter <= Horizon
         /\ pure.debounceExit \in Int /\ pure.debounceExit <= Horizon
BY DEF pure

(* A timestamp is missing, or no older than the horizon and no further   *)
(* ahead than the skew.                                                    *)
LEMMA TimestampType ==
  ASSUME NEW t \in Timestamps
  PROVE  t \in Int /\ t <= MaxSkew /\ (t = ZeroTime \/ -Horizon <= t)
BY DEF Timestamps

(* So are the timestamps of the nodes. *)
LEMMA NodeType ==
  ASSUME TypeOK
  PROVE  /\ DOMAIN node = Nodes
         /\ \A n \in Nodes : /\ node[n].labels \in Labels
                             /\ node[n].lastTransition \in Timestamps
                             /\ node[n].lastTransition \in Int
                             /\ node[n].lastTransition <= MaxSkew
                             /\ node[n].hasTaint \in BOOLEAN
<1>1. \A n \in Nodes : node[n].lastTransition \in Timestamps
  BY DEF TypeOK
<1> QED BY <1>1, TimestampType DEF TypeOK

(* A node selected by the policy is in the scope of its projection. *)
LEMMA ScopeIsSelection ==
  ASSUME policy \in Policies, NEW f
  PROVE  Selects(policy, f) <=> InScope(pure, f)
BY PureType DEF Selects, InScope, pure, projectPolicy

(* An update that wakes nobody concerns a node that stays out of scope, or  *)
(* one that stays in scope and changes in nothing but its timestamp.       *)
LEMMA QuietUpdate ==
  ASSUME policy \in Policies, NEW old, NEW new, old.hasTaint \in BOOLEAN,
         new.hasTaint \in BOOLEAN, ~EnqueuesOnUpdate(policy, old, new)
  PROVE  /\ InScope(pure, new) <=> InScope(pure, old)
         /\ InScope(pure, old) => /\ new.status = old.status
                                  /\ NoTimestamp(new) <=> NoTimestamp(old)
                                  /\ new.hasTaint = old.hasTaint
<1>1. /\ Selects(policy, old) <=> InScope(pure, old)
      /\ Selects(policy, new) <=> InScope(pure, new)
  BY ScopeIsSelection
<1>2. CASE LabelsChanged(old, new)
  BY <1>1, <1>2 DEF EnqueuesOnUpdate, PassesPredicate
<1>3. CASE ~LabelsChanged(old, new)
  <2>1. InScope(pure, new) <=> InScope(pure, old)
    BY <1>3 DEF LabelsChanged, InScope
  <2>2. ~InScope(pure, old) \/ ~WakingChange(old, new)
    BY <1>1, <1>3, <2>1 DEF EnqueuesOnUpdate, PassesPredicate, WakingChange
  <2>3. ~WakingChange(old, new) => /\ new.status = old.status
                                   /\ NoTimestamp(new) <=> NoTimestamp(old)
                                   /\ new.hasTaint = old.hasTaint
    BY DEF WakingChange, ConditionChanged, ConditionState, TaintChanged, NoTimestamp
  <2> QED BY <2>1, <2>2, <2>3
<1> QED BY <1>2, <1>3

-----------------------------------------------------------------------------
(* The clock. *)

(* Ageing keeps a timestamp, and the lack of one. *)
LEMMA AgedType ==
  ASSUME NEW t \in Timestamps
  PROVE  /\ Aged(t) \in Timestamps
         /\ Aged(t) = ZeroTime <=> t = ZeroTime
         /\ t # ZeroTime /\ t # -Horizon => Aged(t) = t - 1
         /\ t # ZeroTime /\ t = -Horizon => Aged(t) = t
BY TimestampType DEF Aged, Timestamps

(* The delay runs down: to the pass, never past it. *)
LEMMA WakeTicks ==
  ASSUME wake \in 0 .. (Horizon + MaxSkew) \cup {Never}, Tick
  PROVE  /\ wake' \in 0 .. (Horizon + MaxSkew) \cup {Never}
         /\ wake' = Never => wake = Never
         /\ wake' # Never /\ wake' # 0 =>
              wake \in Nat /\ wake # 0 /\ wake # Never /\ wake' = wake - 1
         /\ wake' # 0 => wake # 0
<1>1. CASE wake = Never \/ wake = 0
  <2>1. wake' = wake
    BY <1>1 DEF Tick
  <2> QED BY <1>1, <2>1
<1>2. CASE wake # Never /\ wake # 0
  <2>1. wake \in 1 .. (Horizon + MaxSkew) /\ wake' = wake - 1
    BY <1>2 DEF Tick
  <2>2. wake' \in 0 .. (Horizon + MaxSkew) /\ wake \in Nat
    BY <2>1
  <2>3. wake' # Never
    BY <2>2
  <2> QED BY <1>2, <2>1, <2>2, <2>3
<1> QED BY <1>1, <1>2

(* Time brings every deadline closer, and the next pass with it. *)
LEMMA TickInv ==
  ASSUME IInv, Tick
  PROVE  IInv'
<1> USE DEF IInv
<1>1. policy' = policy /\ pure' = pure /\ rewound' = rewound
  BY DEF Tick, pure
<1>2. \A n \in Nodes : /\ node'[n].labels = node[n].labels
                       /\ node'[n].status = node[n].status
                       /\ node'[n].hasTaint = node[n].hasTaint
                       /\ node'[n].lastTransition = Aged(node[n].lastTransition)
  BY DEF Tick, TypeOK
<1>3. \A n \in Nodes : NoTimestamp(node'[n]) <=> NoTimestamp(node[n])
  BY <1>2, NodeType, AgedType DEF NoTimestamp
<1>4. TypeOK'
  <2>1. node' \in [Nodes -> [labels : Labels, status : ConditionStatuses \cup {StatusAbsent},
                             lastTransition : Timestamps, hasTaint : BOOLEAN]]
    <3>1. \A n \in Nodes : Aged(node[n].lastTransition) \in Timestamps
      BY NodeType, AgedType
    <3> QED BY <3>1 DEF Tick, TypeOK
  <2>2. wake' \in 0 .. (Horizon + MaxSkew) \cup {Never}
    BY WakeTicks DEF TypeOK
  <2> QED BY <1>1, <2>1, <2>2 DEF TypeOK
<1>5. /\ Selected(pure, node') = Selected(pure, node)
      /\ DOMAIN node' = DOMAIN node
  BY <1>2, <1>4, NodeType DEF Selected, InScope, TypeOK
<1>6. /\ Entering(pure, node') = Entering(pure, node)
      /\ Exiting(pure, node') = Exiting(pure, node)
  <2>1. Selected(pure, node) \subseteq Nodes
    BY NodeType DEF Selected
  <2> QED BY <1>2, <1>3, <1>5, <2>1, ClassifiedAlike
<1>7. ScopedOutTainted(pure, node') = ScopedOutTainted(pure, node)
  BY <1>2, <1>5, NodeType DEF ScopedOutTainted
<1>8. Entering(pure, node) \cup Exiting(pure, node) \subseteq Nodes
  BY NodeType DEF Entering, Pending, Matched, Exiting, Selected
<1>9. ASSUME wake' # 0, wake' # Never
      PROVE  /\ wake \in Nat /\ wake # 0 /\ wake # Never /\ wake' = wake - 1
             /\ \A n \in Nodes, w \in 0 .. Horizon :
                  /\ ~NoTimestamp(node[n])
                  /\ wake <= w - StableFor(node[n], 0)
                  => wake' <= w - StableFor(node'[n], 0)
  <2>1. wake \in Nat /\ wake # 0 /\ wake # Never /\ wake' = wake - 1
    BY <1>9, WakeTicks DEF TypeOK
  <2>2. ASSUME NEW n \in Nodes, NEW w \in 0 .. Horizon, ~NoTimestamp(node[n]),
               wake <= w - StableFor(node[n], 0)
        PROVE  wake' <= w - StableFor(node'[n], 0)
    <3>1. node[n].lastTransition # -Horizon
      BY <2>1, <2>2 DEF StableFor
    <3>2. node'[n].lastTransition = node[n].lastTransition - 1
      BY <1>2, <2>2, <3>1, NodeType, AgedType DEF NoTimestamp
    <3> QED BY <2>1, <2>2, <3>2, NodeType DEF StableFor
  <2> QED BY <2>1, <2>2
<1>10. \A n \in Entering(pure, node) \cup Exiting(pure, node) : ~NoTimestamp(node[n])
  BY DEF Entering, Pending, Exiting
<1>11. pure.debounceEnter \in 0 .. Horizon /\ pure.debounceExit \in 0 .. Horizon
  BY DEF TypeOK, pure
<1>12. ASSUME wake' # 0 PROVE wake # 0
  BY <1>12, WakeTicks DEF TypeOK
<1>13. wake' = Never => wake = Never
  BY WakeTicks DEF TypeOK
<1>14. WakesInTime'
  BY <1>1, <1>6, <1>7, <1>8, <1>9, <1>10, <1>11, <1>12, <1>13 DEF WakesInTime
<1> QED BY <1>4, <1>14

-----------------------------------------------------------------------------
(* Node events. *)

NodeRecord == [labels : Labels, status : ConditionStatuses \cup {StatusAbsent},
               lastTransition : Timestamps, hasTaint : BOOLEAN]

(* A node whose event is filtered out keeps its class, and unless its       *)
(* timestamp moved back it has to wait at least as long as before.         *)
LEMMA UpdateInv ==
  ASSUME IInv, NEW m \in Nodes, NEW new \in NodeRecord, Update(m, new),
         new.hasTaint => node[m].hasTaint
  PROVE  IInv'
<1> USE DEF IInv
<1>1. policy' = policy /\ pure' = pure
  BY DEF Update, pure
<1>2. /\ node'[m] = new
      /\ \A n \in Nodes \ {m} : node'[n] = node[n]
      /\ node' \in [Nodes -> NodeRecord]
  BY DEF Update, TypeOK, NodeRecord
<1>3. TypeOK'
  <2>1. wake' \in 0 .. (Horizon + MaxSkew) \cup {Never}
    BY DEF Update, TypeOK
  <2>2. rewound' \in SUBSET Nodes
    BY DEF Update, TypeOK
  <2> QED BY <1>1, <1>2, <2>1, <2>2 DEF TypeOK, NodeRecord
<1>4. CASE wake' = 0
  BY <1>3, <1>4 DEF WakesInTime
<1>5. CASE wake' # 0
  <2>1. ~EnqueuesOnUpdate(policy, node[m], new) /\ wake' = wake
    BY <1>5 DEF Update
  <2>2. \A n \in Nodes :
          /\ InScope(pure, node'[n]) <=> InScope(pure, node[n])
          /\ InScope(pure, node[n]) => /\ node'[n].status = node[n].status
                                       /\ NoTimestamp(node'[n]) <=> NoTimestamp(node[n])
                                       /\ node'[n].hasTaint = node[n].hasTaint
    <3>1. node[m].hasTaint \in BOOLEAN /\ new.hasTaint \in BOOLEAN
      BY NodeType DEF NodeRecord
    <3>2. policy \in Policies
      BY DEF TypeOK
    <3> QED BY <1>2, <2>1, <3>1, <3>2, QuietUpdate
  <2>3. Selected(pure, node') = Selected(pure, node) /\ DOMAIN node' = DOMAIN node
    BY <1>2, <2>2, NodeType DEF Selected
  <2>4. /\ Entering(pure, node') = Entering(pure, node)
        /\ Exiting(pure, node') = Exiting(pure, node)
    <3>1. \A n \in Selected(pure, node) : n \in Nodes /\ InScope(pure, node[n])
      BY NodeType DEF Selected
    <3> QED BY <2>2, <2>3, <3>1, ClassifiedAlike
  <2>5. ScopedOutTainted(pure, node') = {}
    <3>1. \A n \in Nodes : node'[n].hasTaint => node[n].hasTaint
      BY <1>2
    <3> QED BY <1>5, <2>1, <2>3, <3>1, NodeType DEF ScopedOutTainted, WakesInTime
  <2>6. \A n \in Nodes \ rewound' :
          n \notin rewound /\ StableFor(node'[n], 0) <= StableFor(node[n], 0)
    <3>1. \A n \in Nodes : /\ node[n].lastTransition \in Int
                           /\ node'[n].lastTransition \in Int
      BY <1>2, NodeType, TimestampType DEF NodeRecord
    <3>2. CASE new.lastTransition < node[m].lastTransition
      <4>1. rewound' = rewound \cup {m}
        BY <1>5, <3>2 DEF Update
      <4> QED BY <1>2, <3>1, <4>1 DEF StableFor
    <3>3. CASE ~(new.lastTransition < node[m].lastTransition)
      <4>1. rewound' = rewound
        BY <1>5, <3>3 DEF Update
      <4>2. node[m].lastTransition <= node'[m].lastTransition
        BY <1>2, <3>1, <3>3
      <4> QED BY <1>2, <3>1, <4>1, <4>2 DEF StableFor
    <3> QED BY <3>2, <3>3
  <2>7. Entering(pure, node) \cup Exiting(pure, node) \subseteq Nodes
    BY NodeType DEF Entering, Pending, Matched, Exiting, Selected
  <2>8. ASSUME wake' # Never, NEW w \in Int, NEW n \in Nodes \ rewound',
               wake <= w - StableFor(node[n], 0)
        PROVE  wake' <= w - StableFor(node'[n], 0)
    <3>1. wake \in Int
      BY <2>1, <2>8 DEF TypeOK
    <3>2. node[n].lastTransition \in Int /\ node'[n].lastTransition \in Int
      BY <1>2, NodeType, TimestampType DEF NodeRecord
    <3> QED BY <2>1, <2>6, <2>8, <3>1, <3>2 DEF StableFor
  <2>9. pure.debounceEnter \in Int /\ pure.debounceExit \in Int
    BY PureType DEF TypeOK
  <2>10. WakesInTime'
    BY <1>1, <1>5, <2>1, <2>4, <2>5, <2>6, <2>7, <2>8, <2>9 DEF WakesInTime
  <2> QED BY <1>3, <2>10
<1> QED BY <1>4, <1>5

(* The four updates that come from outside leave a record of a node, and    *)
(* none of them adds the taint.                                            *)
LEMMA NodeEventInv ==
  ASSUME IInv, NEW m \in Nodes,
         FlipCondition(m) \/ Restamp(m) \/ Relabel(m) \/ RemoveOutOfBand(m)
  PROVE  IInv'
<1>0. node[m] \in NodeRecord
  BY DEF IInv, TypeOK, NodeRecord
<1>1. CASE FlipCondition(m)
  <2>1. PICK c \in Conditions :
          Update(m, [node[m] EXCEPT !.status = c.status, !.lastTransition = c.lastTransition])
    BY <1>1 DEF FlipCondition
  <2> DEFINE new == [node[m] EXCEPT !.status = c.status, !.lastTransition = c.lastTransition]
  <2>2. c.status \in ConditionStatuses \cup {StatusAbsent} /\ c.lastTransition \in Timestamps
    BY DEF Conditions, Timestamps
  <2>3. new \in NodeRecord /\ new.hasTaint = node[m].hasTaint
    BY <1>0, <2>2 DEF NodeRecord
  <2> QED BY <2>1, <2>3, UpdateInv
<1>2. CASE Restamp(m)
  <2>1. PICK t \in Timestamps : Update(m, [node[m] EXCEPT !.lastTransition = t])
    BY <1>2 DEF Restamp
  <2>2. /\ [node[m] EXCEPT !.lastTransition = t] \in NodeRecord
        /\ [node[m] EXCEPT !.lastTransition = t].hasTaint = node[m].hasTaint
    BY <1>0 DEF NodeRecord
  <2> QED BY <2>1, <2>2, UpdateInv
<1>3. CASE Relabel(m)
  <2>1. PICK l \in Labels : Update(m, [node[m] EXCEPT !.labels = l])
    BY <1>3 DEF Relabel
  <2>2. /\ [node[m] EXCEPT !.labels = l] \in NodeRecord
        /\ [node[m] EXCEPT !.labels = l].hasTaint = node[m].hasTaint
    BY <1>0 DEF NodeRecord
  <2> QED BY <2>1, <2>2, UpdateInv
<1>4. CASE RemoveOutOfBand(m)
  <2>1. /\ [node[m] EXCEPT !.hasTaint = FALSE] \in NodeRecord
        /\ [node[m] EXCEPT !.hasTaint = FALSE].hasTaint = FALSE
    BY <1>0 DEF NodeRecord
  <2> QED BY <1>4, <2>1, UpdateInv DEF RemoveOutOfBand
<1> QED BY <1>1, <1>2, <1>3, <1>4

-----------------------------------------------------------------------------
(* A pass. *)

(* A pass whose writes wake nobody wrote to no node in scope: it had nothing *)
(* to do there, and released every node that left the scope.               *)
LEMMA QuietPass ==
  ASSUME TypeOK, Reconcile, wake' # 0
  PROVE  /\ \A n \in Selected(pure, node) : node'[n] = node[n]
         /\ Selected(pure, node') = Selected(pure, node)
         /\ ApplyTaint(pure, node, 0) = {}
         /\ Exiting(pure, node) \cap RemoveTaint(pure, node, 0) = {}
         /\ ScopedOutTainted(pure, node') = {}
<1> DEFINE apply == ApplyTaint(pure, node, 0)
           remove == RemoveTaint(pure, node, 0)
<1>1. node' = [n \in Nodes |-> [node[n] EXCEPT !.hasTaint = (@ \/ n \in apply) /\ n \notin remove]]
  BY DEF Reconcile, Decide
<1>2. \A n \in Nodes : ~EnqueuesOnUpdate(policy, node[n], node'[n])
  BY DEF Reconcile
<1> HIDE DEF apply, remove
<1>3. \A n \in Nodes : /\ node'[n].labels = node[n].labels
                       /\ node'[n].hasTaint = ((node[n].hasTaint \/ n \in apply) /\ n \notin remove)
                       /\ node'[n].hasTaint \in BOOLEAN
                       /\ node'[n].hasTaint = node[n].hasTaint => node'[n] = node[n]
  BY <1>1 DEF TypeOK
<1>4. DOMAIN node' = Nodes /\ DOMAIN node = Nodes
  BY <1>1, NodeType
<1>5. Selected(pure, node') = Selected(pure, node)
  BY <1>3, <1>4 DEF Selected, InScope
<1>6. ASSUME NEW n \in Selected(pure, node)
      PROVE  n \in Nodes /\ node'[n] = node[n] /\ node'[n].hasTaint = node[n].hasTaint
  <2>1. n \in Nodes /\ InScope(pure, node[n])
    BY <1>4 DEF Selected
  <2>2. policy \in Policies /\ node[n].hasTaint \in BOOLEAN
    BY <2>1, NodeType DEF TypeOK
  <2>3. node'[n].hasTaint = node[n].hasTaint
    BY <1>2, <1>3, <2>1, <2>2, QuietUpdate
  <2> QED BY <1>3, <2>1, <2>3
<1>7. apply = {}
  <2>1. ASSUME NEW n \in apply PROVE FALSE
    <3>1. n \in Selected(pure, node) /\ ~node[n].hasTaint /\ Matches(pure, node[n])
      BY ActsChangeTaint DEF apply
    <3>2. n \notin remove
      BY <3>1, ActsChangeTaint DEF remove
    <3>3. n \in Nodes /\ node'[n].hasTaint = node[n].hasTaint
      BY <1>6, <3>1
    <3> QED BY <1>3, <2>1, <3>1, <3>2, <3>3
  <2> QED BY <2>1
<1>8. Exiting(pure, node) \cap remove = {}
  <2>1. ASSUME NEW n \in Exiting(pure, node), n \in remove PROVE FALSE
    <3>1. n \in Selected(pure, node) /\ node[n].hasTaint
      BY DEF Exiting
    <3>2. n \in Nodes /\ node'[n].hasTaint = node[n].hasTaint
      BY <1>6, <3>1
    <3> QED BY <1>3, <2>1, <3>1, <3>2
  <2> QED BY <2>1
<1>9. ScopedOutTainted(pure, node') = {}
  <2>1. ASSUME NEW n \in Nodes, n \notin Selected(pure, node), node'[n].hasTaint PROVE FALSE
    <3>1. node[n].hasTaint /\ n \notin remove
      BY <1>3, <1>7, <2>1
    <3>2. n \in ScopedOutTainted(pure, node)
      BY <1>4, <2>1, <3>1 DEF ScopedOutTainted
    <3> QED BY <3>1, <3>2 DEF remove, RemoveTaint
  <2> QED BY <1>4, <1>5, <2>1 DEF ScopedOutTainted
<1> QED BY <1>5, <1>6, <1>7, <1>8, <1>9 DEF apply, remove

(* A pass asks to be called for whoever it leaves waiting. *)
LEMMA ReconcileInv ==
  ASSUME IInv, Reconcile
  PROVE  IInv'
<1> USE DEF IInv
<1> DEFINE delay == RequeueAfter(pure, node, 0)
<1>1. policy' = policy /\ pure' = pure /\ rewound' = {}
  BY DEF Reconcile, pure
<1>2. \A n \in DOMAIN node : node[n].lastTransition \in Int /\ node[n].lastTransition <= MaxSkew
  BY NodeType
<1>3. /\ pure.debounceEnter \in Int /\ pure.debounceEnter <= Horizon
      /\ pure.debounceExit \in Int /\ pure.debounceExit <= Horizon
  BY PureType DEF TypeOK
<1>4. delay \in 0 .. (Horizon + MaxSkew)
  <2>1. delay \in Nat /\ 0 \in Int
    BY <1>2, <1>3, RequeueType
  <2>2. delay <= Horizon + MaxSkew
    BY <1>2, <1>3, RequeueBound
  <2> QED BY <2>1, <2>2
<1>5. wake' \in {0} \/ wake' = (IF delay = 0 THEN Never ELSE delay)
  BY DEF Reconcile, Decide
<1> HIDE DEF delay
<1>6. TypeOK'
  <2>1. node' \in [Nodes -> [labels : Labels, status : ConditionStatuses \cup {StatusAbsent},
                             lastTransition : Timestamps, hasTaint : BOOLEAN]]
    <3>1. PICK d : node' = [n \in Nodes |->
                              [node[n] EXCEPT !.hasTaint =
                                 (@ \/ n \in d.applyTaint) /\ n \notin d.removeTaint]]
      BY DEF Reconcile
    <3>2. \A n \in Nodes : ((node[n].hasTaint \/ n \in d.applyTaint)
                              /\ n \notin d.removeTaint) \in BOOLEAN
      OBVIOUS
    <3> QED BY <3>1, <3>2 DEF TypeOK
  <2>2. wake' \in 0 .. (Horizon + MaxSkew) \cup {Never}
    BY <1>4, <1>5
  <2> QED BY <1>1, <2>1, <2>2 DEF TypeOK
<1>7. WakesInTime'
  <2>1. SUFFICES ASSUME wake' # 0 PROVE WakesInTime'
    BY DEF WakesInTime
  <2>2. /\ \A n \in Selected(pure, node) : node'[n] = node[n]
        /\ Selected(pure, node') = Selected(pure, node)
        /\ ApplyTaint(pure, node, 0) = {}
        /\ Exiting(pure, node) \cap RemoveTaint(pure, node, 0) = {}
        /\ ScopedOutTainted(pure, node') = {}
    BY <2>1, QuietPass
  <2>3. /\ Entering(pure, node') = Entering(pure, node)
        /\ Exiting(pure, node') = Exiting(pure, node)
    BY <2>2, ClassifiedAlike
  <2>4. \A n \in Entering(pure, node) \cup Exiting(pure, node) : node'[n] = node[n]
    BY <2>2 DEF Entering, Pending, Matched, Exiting
  <2>5. 0 \in Int
    OBVIOUS
  <2>6. /\ delay = 0 => Entering(pure, node) = {} /\ Exiting(pure, node) = {}
        /\ delay # 0 =>
             /\ \A n \in Entering(pure, node) : delay <= pure.debounceEnter - StableFor(node[n], 0)
             /\ \A n \in Exiting(pure, node) : delay <= pure.debounceExit - StableFor(node[n], 0)
    BY <1>2, <1>3, <2>2, <2>5, RequeueCoversWaits DEF delay
  <2>7. wake' = (IF delay = 0 THEN Never ELSE delay)
    BY <1>5, <2>1
  <2> QED BY <1>1, <1>4, <2>2, <2>3, <2>4, <2>6, <2>7 DEF WakesInTime
<1> QED BY <1>6, <1>7

-----------------------------------------------------------------------------

(* Every step preserves the invariant. *)
LEMMA StepInv ==
  ASSUME IInv, [Next]_vars
  PROVE  IInv'
<1>1. CASE Tick
  BY <1>1, TickInv
<1>2. CASE Reconcile
  BY <1>2, ReconcileInv
<1>3. CASE EditSpec
  BY <1>3 DEF EditSpec, IInv, TypeOK, WakesInTime
<1>4. ASSUME NEW n \in Nodes,
             FlipCondition(n) \/ Restamp(n) \/ Relabel(n) \/ RemoveOutOfBand(n)
      PROVE  IInv'
  BY <1>4, NodeEventInv
<1>5. CASE UNCHANGED vars
  BY <1>5 DEF vars, IInv, TypeOK, WakesInTime, pure
<1> QED BY <1>1, <1>2, <1>3, <1>4, <1>5 DEF Next

(* At the start a pass is queued. *)
LEMMA InitInv == Init => IInv
<1>1. StatusAbsent \in ConditionStatuses \cup {StatusAbsent} /\ ZeroTime \in Timestamps
  BY DEF Timestamps
<1>2. Init => TypeOK
  <2>1. [labels : Labels, status : {StatusAbsent}, lastTransition : {ZeroTime}, hasTaint : {FALSE}]
          \subseteq NodeRecord
    BY <1>1 DEF NodeRecord
  <2>2. Init => node \in [Nodes -> NodeRecord]
    BY <2>1 DEF Init
  <2>3. 0 \in 0 .. (Horizon + MaxSkew) \cup {Never}
    OBVIOUS
  <2> QED BY <2>2, <2>3 DEF Init, TypeOK, NodeRecord
<1> QED BY <1>2 DEF Init, IInv, WakesInTime

(* The inductive invariant holds in every reachable state. *)
LEMMA InvHolds == Spec => []IInv
BY InitInv, StepInv, PTL DEF Spec

(* What is due t from now was due after a wait of at most t. *)
LEMMA NothingDueEarly ==
  ASSUME IInv
  PROVE  NoOversleep
<1> USE DEF IInv
<1>1. SUFFICES ASSUME wake # 0, NEW t \in 0 .. (2 * Horizon + MaxSkew)
               PROVE  /\ wake = Never => ActsAt(t) = {}
                      /\ wake # Never /\ t < wake => ActsAt(t) \subseteq rewound
  BY DEF NoOversleep
<1>2. ActsAt(t) = ApplyTaint(pure, node, t) \cup RemoveTaint(pure, node, t)
  BY DEF ActsAt, Decide
<1>3. ScopedOutTainted(pure, node) = {}
  BY <1>1 DEF WakesInTime
<1>4. ASSUME wake = Never PROVE ActsAt(t) = {}
  <2>1. Entering(pure, node) = {} /\ Exiting(pure, node) = {}
    BY <1>1, <1>4 DEF WakesInTime
  <2> QED BY <1>2, <1>3, <2>1 DEF ApplyTaint, RemoveTaint
<1>5. ASSUME wake # Never, t < wake PROVE ActsAt(t) \subseteq rewound
  <2>1. wake \in Int /\ t \in Int
    BY <1>5 DEF TypeOK
  <2>2. \A n \in Entering(pure, node) \cup Exiting(pure, node) :
          node[n].lastTransition \in Int
    BY NodeType DEF Entering, Pending, Matched, Exiting, Selected
  <2>3. pure.debounceEnter \in Int /\ pure.debounceExit \in Int
    BY PureType DEF TypeOK
  <2>4. /\ \A n \in Entering(pure, node) \ rewound :
             wake <= pure.debounceEnter - StableFor(node[n], 0)
        /\ \A n \in Exiting(pure, node) \ rewound :
             wake <= pure.debounceExit - StableFor(node[n], 0)
    BY <1>1, <1>5 DEF WakesInTime
  <2>5. ASSUME NEW n \in ApplyTaint(pure, node, t) PROVE n \in rewound
    BY <1>5, <2>1, <2>2, <2>3, <2>4 DEF ApplyTaint, StableFor
  <2>6. ASSUME NEW n \in RemoveTaint(pure, node, t) PROVE n \in rewound
    BY <1>3, <1>5, <2>1, <2>2, <2>3, <2>4 DEF RemoveTaint, StableFor
  <2> QED BY <1>2, <2>5, <2>6
<1> QED BY <1>4, <1>5

(* Every requeue delay is within the longest window plus the clock skew,    *)
(* and every node's condition keeps its shape, whatever the nodes report   *)
(* and however the policy is edited: what TypeOK says of the loop.         *)
THEOREM LoopTypeCorrect == Spec => []TypeOK
BY InvHolds, PTL DEF IInv

(* No deadline is slept through: whenever no pass of the loop is queued,    *)
(* nothing falls due before the requeue that Decide's minPositive asked    *)
(* for, and nothing at all when it asked for none.  It holds for any       *)
(* number of nodes and any skew, and rests on the watch filters letting    *)
(* through every update that can bring a deadline forward but a timestamp  *)
(* set back.                                                               *)
THEOREM LoopNeverOversleeps == Spec => []NoOversleep
BY InvHolds, NothingDueEarly, PTL

=============================================================================
