--------------------------- MODULE SettlingProofs ---------------------------
(***************************************************************************)
(* What the operator has achieved when it comes to rest, for any nodes,    *)
(* labels and specs, any lag of the caches and any number of changes and   *)
(* faults: the finalizer is settled, the status is truthful and, as long   *)
(* as watches do not break, every node is as the policy wants it.          *)
(***************************************************************************)
EXTENDS ReconcilerProofs

USE ReconcilerAssumption DEF Live, Holds, HasFinalizer

(* The status reports the decision a pass over p would take on facts. *)
Truthful(status, p, facts) ==
  LET d == Decide(projectPolicy(p.spec), facts, 0)
  IN  /\ status.condition.observedGeneration = p.generation
      /\ ValidSelector(p.spec) =>
           /\ status.condition = ProjectedCondition(p, d)
           /\ \A f \in ListNames : /\ status.lists[f] = d[f]
                                    /\ status.counts[f] = Cardinality(d[f])
      /\ ~ValidSelector(p.spec) => status.condition.reason = "InvalidSpec"

(* No pass is queued to look again, and the cache shows the stored policy. *)
Undisturbed == due # 0 /\ Len(policyLog) = 1 /\ Stored(policyLog) # NoPolicy

(* A pass that nobody disturbs works from the stored policy. *)
PassHoldsStored == Undisturbed /\ pc # "idle" => copy = Stored(policyLog)

(* A pass that observes and acts has a live and protected policy. *)
ActingCopyHeld == pc \in {"observe", "act"} => Live(copy) /\ HasFinalizer(copy)

(* It prepares the status its cache deserves. *)
StatusPrepared == Undisturbed /\ pc = "act" => Truthful(newStatus, copy, CachedFacts)

(* When it is over, that is the status of the policy. *)
PolicySettled ==
  Undisturbed /\ pc = "idle" =>
    LET p == Stored(policyLog)
    IN  /\ HasFinalizer(p) = ~p.deleting
        /\ ~p.deleting => Truthful(p.status, p, CachedFacts)

SettleInv ==
  Inv /\ PassHoldsStored /\ ActingCopyHeld /\ StatusPrepared /\ PolicySettled

-----------------------------------------------------------------------------
(* What a policy sees of a node. *)

(* No watch tells two versions of a node apart: they differ at most in the *)
(* age of the condition.                                                   *)
SameShape(v, w) ==
  /\ v = NoNode <=> w = NoNode
  /\ v # NoNode => /\ w.labels = v.labels
                   /\ w.status = v.status
                   /\ NoTimestamp(w) <=> NoTimestamp(v)
                   /\ w.hasTaint = v.hasTaint

(* v is a node that the selector of spec s matches. *)
InSelector(s, v) == v # NoNode /\ v.labels \in nodeSelector(s)

(* A change of a node that is none of the policy's business: it stays out  *)
(* of scope, or it only ages.                                              *)
Unnoticed(s, v, w) == InSelector(s, v) \/ InSelector(s, w) => SameShape(v, w)

(* The step changes no cached node in a way spec s would notice. *)
FactsKept(s) == \A n \in Nodes : Unnoticed(s, Cached(nodeLog[n]), Cached(nodeLog'[n]))

(* The nodes a pass selects. *)
LEMMA SelectedNodes ==
  ASSUME LogsTypeOK, NEW s
  PROVE  /\ Selected(projectPolicy(s), CachedFacts)
              = {n \in Nodes : InSelector(s, Cached(nodeLog[n]))}
         /\ \A n \in Selected(projectPolicy(s), CachedFacts) : CachedFacts[n] = Cached(nodeLog[n])
BY DEF Selected, InScope, projectPolicy, CachedFacts, InSelector

(* The nodes a policy waits for are in its selector. *)
LEMMA WaitingNodes ==
  ASSUME LogsTypeOK, NEW s
  PROVE  \A n \in Entering(projectPolicy(s), CachedFacts) \cup Exiting(projectPolicy(s), CachedFacts) :
           /\ n \in Nodes
           /\ InSelector(s, Cached(nodeLog[n]))
           /\ CachedFacts[n] = Cached(nodeLog[n])
<1> DEFINE pure == projectPolicy(s)
<1> HIDE DEF pure
<1>1. Entering(pure, CachedFacts) \cup Exiting(pure, CachedFacts) \subseteq Selected(pure, CachedFacts)
  BY DEF Entering, Pending, Matched, Exiting
<1> QED BY <1>1, SelectedNodes DEF pure

(* A step that the policy does not notice changes neither what a pass      *)
(* would report nor whom it waits for.                                     *)
LEMMA UnnoticedFacts ==
  ASSUME LogsTypeOK, LogsTypeOK', NEW s, FactsKept(s)
  PROVE  LET pure == projectPolicy(s)
         IN  /\ Entering(pure, CachedFacts') = Entering(pure, CachedFacts)
             /\ Exiting(pure, CachedFacts') = Exiting(pure, CachedFacts)
             /\ \A f \in ListNames :
                  Decide(pure, CachedFacts', 0)[f] = Decide(pure, CachedFacts, 0)[f]
             /\ Decide(pure, CachedFacts', 0).guardTripped = Decide(pure, CachedFacts, 0).guardTripped
<1> DEFINE pure == projectPolicy(s)
           old  == CachedFacts
           new  == CachedFacts'
<1>1. /\ Selected(pure, old) = {n \in Nodes : InSelector(s, Cached(nodeLog[n]))}
      /\ \A n \in Selected(pure, old) : old[n] = Cached(nodeLog[n])
  BY SelectedNodes
<1>2. /\ Selected(pure, new) = {n \in Nodes : InSelector(s, Cached(nodeLog'[n]))}
      /\ \A n \in Selected(pure, new) : new[n] = Cached(nodeLog'[n])
  BY DEF Selected, InScope, projectPolicy, CachedFacts, InSelector
<1> HIDE DEF pure, old, new
<1>3. Selected(pure, new) = Selected(pure, old)
  BY <1>1, <1>2 DEF FactsKept, Unnoticed, InSelector, SameShape
<1>4. \A n \in Selected(pure, old) :
        /\ new[n].status = old[n].status
        /\ NoTimestamp(new[n]) <=> NoTimestamp(old[n])
        /\ new[n].hasTaint = old[n].hasTaint
  BY <1>1, <1>2, <1>3 DEF FactsKept, Unnoticed, InSelector, SameShape
<1>5. /\ Matched(pure, new) = Matched(pure, old)
      /\ GuardTripped(pure, new) = GuardTripped(pure, old)
      /\ Pending(pure, new) = Pending(pure, old)
      /\ Entering(pure, new) = Entering(pure, old)
      /\ Exiting(pure, new) = Exiting(pure, old)
      /\ HeldMissingTimestamp(pure, new) = HeldMissingTimestamp(pure, old)
      /\ Decide(pure, new, 0).unknownNodes = Decide(pure, old, 0).unknownNodes
      /\ Decide(pure, new, 0).remediatedNodes = Decide(pure, old, 0).remediatedNodes
  BY <1>3, <1>4, ClassifiedAlike
<1>6. \A facts : /\ Decide(pure, facts, 0).selectedNodes = Selected(pure, facts)
                 /\ Decide(pure, facts, 0).matchedNodes = Matched(pure, facts)
                 /\ Decide(pure, facts, 0).pendingNodes = Pending(pure, facts)
                 /\ Decide(pure, facts, 0).heldMissingTimestamp = HeldMissingTimestamp(pure, facts)
                 /\ Decide(pure, facts, 0).guardTripped = GuardTripped(pure, facts)
  BY DEF Decide
<1>7. \A f \in ListNames : Decide(pure, new, 0)[f] = Decide(pure, old, 0)[f]
  BY <1>3, <1>5, <1>6 DEF ListNames
<1>8. Decide(pure, new, 0).guardTripped = Decide(pure, old, 0).guardTripped
  BY <1>5, <1>6
<1> QED BY <1>5, <1>7, <1>8 DEF pure, old, new

(* The Remediating condition depends on the lists and the guard alone. *)
LEMMA SameCondition ==
  ASSUME NEW p, NEW d, NEW e, \A f \in ListNames : e[f] = d[f], e.guardTripped = d.guardTripped
  PROVE  ProjectedCondition(p, e) = ProjectedCondition(p, d)
<1>1. /\ e.remediatedNodes = d.remediatedNodes
      /\ e.pendingNodes = d.pendingNodes
      /\ e.heldMissingTimestamp = d.heldMissingTimestamp
      /\ e.unknownNodes = d.unknownNodes
  BY DEF ListNames
<1> QED BY <1>1 DEF ProjectedCondition

(* A truthful status stays truthful. *)
LEMMA StillTruthful ==
  ASSUME LogsTypeOK, LogsTypeOK', NEW status, NEW p, Truthful(status, p, CachedFacts),
         ValidSelector(p.spec) => FactsKept(p.spec)
  PROVE  Truthful(status, p, CachedFacts')
<1>1. CASE ValidSelector(p.spec)
  <2> DEFINE new == Decide(projectPolicy(p.spec), CachedFacts', 0)
             old == Decide(projectPolicy(p.spec), CachedFacts, 0)
  <2>1. (\A f \in ListNames : new[f] = old[f]) /\ new.guardTripped = old.guardTripped
    BY <1>1, UnnoticedFacts
  <2>2. /\ status.condition.observedGeneration = p.generation
        /\ status.condition = ProjectedCondition(p, old)
        /\ \A f \in ListNames : status.lists[f] = old[f] /\ status.counts[f] = Cardinality(old[f])
    BY <1>1 DEF Truthful
  <2> HIDE DEF new, old
  <2>3. ProjectedCondition(p, new) = ProjectedCondition(p, old)
    BY <2>1, SameCondition
  <2>4. \A f \in ListNames : status.lists[f] = new[f] /\ status.counts[f] = Cardinality(new[f])
    BY <2>1, <2>2
  <2> QED BY <1>1, <2>2, <2>3, <2>4 DEF Truthful, new
<1>2. CASE ~ValidSelector(p.spec)
  BY <1>2 DEF Truthful
<1> QED BY <1>1, <1>2

(* An event the handler drops is one the policy does not notice. *)
LEMMA DroppedEvent ==
  ASSUME Cached(policyLog) # NoPolicy, ValidSelector(Cached(policyLog).spec),
         NEW v \in NodeVersion, NEW w \in NodeVersion, ~EnqueuedByNode(v, w)
  PROVE  Unnoticed(Cached(policyLog).spec, v, w)
<1> DEFINE s == Cached(policyLog).spec
<1>1. \A x : x # NoNode => (Selects(s, x) <=> InSelector(s, x))
  BY DEF Selects, InSelector
<1>2. CASE v = NoNode \/ w = NoNode
  BY <1>1, <1>2 DEF EnqueuedByNode, EnqueuesOnExistence, Unnoticed, InSelector, SameShape
<1>3. CASE v # NoNode /\ w # NoNode
  <2>1. ~EnqueuesOnUpdate(s, v, w)
    BY <1>3 DEF EnqueuedByNode
  <2>2. SUFFICES ASSUME InSelector(s, v) \/ InSelector(s, w) PROVE SameShape(v, w)
    BY DEF Unnoticed
  <2>3. ~LabelsChanged(v, w)
    BY <1>1, <1>3, <2>1, <2>2 DEF EnqueuesOnUpdate, PassesPredicate
  <2>4. InSelector(s, w)
    BY <1>3, <2>2, <2>3 DEF InSelector, LabelsChanged
  <2>5. ~WakingChange(v, w)
    BY <1>1, <1>3, <2>1, <2>3, <2>4 DEF EnqueuesOnUpdate, PassesPredicate, WakingChange
  <2>6. v.hasTaint \in BOOLEAN /\ w.hasTaint \in BOOLEAN
    BY <1>3 DEF NodeVersion, NodeObject
  <2> QED BY <1>3, <2>3, <2>5, <2>6 DEF WakingChange, ConditionChanged, ConditionState,
         TaintChanged, LabelsChanged, NoTimestamp, SameShape
<1> QED BY <1>2, <1>3

-----------------------------------------------------------------------------
(* Steps that leave a policy undisturbed. *)

(* A pass that ends with a delay is followed by a pass no later than that. *)
LEMMA EndPassDue ==
  ASSUME due \in Delays \cup {Never}, NEW delay \in Delays \cup {Never}, EndPass(delay)
  PROVE  /\ due' # 0 => due # 0 /\ delay # 0
         /\ due' = Never => due = Never /\ delay = Never
<1>1. due' = Sooner(due, delay)
  BY DEF EndPass
<1>2. CASE due = Never
  BY <1>1, <1>2 DEF Sooner, Delays
<1>3. CASE due # Never /\ delay = Never
  BY <1>1, <1>3 DEF Sooner, Delays
<1>4. CASE due # Never /\ delay # Never
  <2>1. due \in Nat /\ delay \in Nat
    BY <1>4 DEF Delays
  <2>2. due' = IF due <= delay THEN due ELSE delay
    BY <1>1, <1>4 DEF Sooner
  <2>3. due' # 0 => due # 0 /\ delay # 0
    BY <2>1, <2>2
  <2>4. due' # Never
    BY <1>4, <2>2
  <2> QED BY <2>3, <2>4
<1> QED BY <1>2, <1>3, <1>4

(* An error brings the next pass at once. *)
LEMMA ErrorDisturbs ==
  ASSUME due \in Delays \cup {Never}, EndPass(0)
  PROVE  ~Undisturbed'
BY EndPassDue, ZeroDelay DEF Undisturbed

(* A write of the policy has yet to come back through the watch. *)
LEMMA PolicyWriteDisturbs ==
  ASSUME LogsTypeOK, NEW v, policyLog' = Append(policyLog, v)
  PROVE  ~Undisturbed'
<1>1. policyLog \in Seq(PolicyObject \cup {NoPolicy}) /\ Len(policyLog) \in Nat \ {0}
  BY LogStored DEF LogsTypeOK
<1>2. Len(policyLog') = Len(policyLog) + 1
  BY <1>1 DEF LogsTypeOK
<1> QED BY <1>1, <1>2 DEF Undisturbed

(* What remains: the policy is not written, and the pass starts, goes on    *)
(* without an error, or is not concerned.                                  *)
SettledStep ==
  \/ StartPass \/ ReconcileNothing
  \/ /\ Undisturbed
     /\ \/ ObserveInvalidSpec \/ Observe \/ WriteStatus \/ ListNodes
        \/ \E n \in Nodes : TaintStep(n) \/ TaintWriteFails(n)
        \/ UNCHANGED passVars /\ (due' = Never => due = Never)

(* Steps of the worker. *)
LEMMA UndisturbedWorker ==
  ASSUME Inv, WorkerStep, Undisturbed'
  PROVE  policyLog' = policyLog /\ SettledStep
<1>1. due \in Delays \cup {Never} /\ LogsTypeOK
  BY DEF Inv, TypeOK
<1>2. CASE StartPass \/ ReconcileNothing
  BY <1>2 DEF StartPass, ReconcileNothing, SettledStep
<1>3. CASE \/ AddFinalizer \/ AddFinalizerUnacknowledged
           \/ RemoveFinalizer \/ RemoveFinalizerUnacknowledged
  <2>1. \E v : policyLog' = Append(policyLog, v)
    BY <1>3 DEF AddFinalizer, AddFinalizerUnacknowledged, RemoveFinalizer,
       RemoveFinalizerUnacknowledged, StorePolicy
  <2> QED BY <1>1, <2>1, PolicyWriteDisturbs
<1>4. CASE CleanupFailed \/ UpdateConflicts \/ RequestFails \/ WriteStatusFails
  <2>1. EndPass(0)
    BY <1>4 DEF CleanupFailed, UpdateConflicts, RequestFails, WriteStatusFails, EndPassWithError
  <2> QED BY <1>1, <2>1, ErrorDisturbs
<1>5. CASE \/ ObserveInvalidSpec \/ Observe \/ ListNodes
           \/ \E n \in Nodes : TaintStep(n) \/ TaintWriteFails(n)
  <2>1. UNCHANGED <<policyLog, due>>
    BY <1>5 DEF ObserveInvalidSpec, Observe, ListNodes, TaintStep, ApplyTaintTo,
       RemoveTaintFrom, TaintWriteFails
  <2>2. Undisturbed
    BY <2>1 DEF Undisturbed
  <2> QED BY <1>5, <2>1, <2>2 DEF SettledStep
<1>6. CASE WriteStatus
  <2>1. UNCHANGED policyLog \/ \E v : policyLog' = Append(policyLog, v)
    BY <1>6 DEF WriteStatus, StorePatchedStatus, StorePolicy
  <2>2. UNCHANGED policyLog
    BY <1>1, <2>1, PolicyWriteDisturbs
  <2>3. PICK delay \in Delays \cup {Never} : EndPass(delay)
    <3>1. 0 \in Delays \cup {Never} /\ requeue \in Delays \cup {Never} /\ Never \in Delays \cup {Never}
      BY ZeroDelay DEF Inv, TypeOK, PassTypeOK
    <3> QED BY <1>6, <3>1 DEF WriteStatus, FinishPass, EndPassWithError
  <2>4. due # 0
    BY <1>1, <2>3, EndPassDue DEF Undisturbed
  <2>5. Undisturbed
    BY <2>2, <2>4 DEF Undisturbed
  <2> QED BY <1>6, <2>2, <2>5 DEF SettledStep
<1> QED BY <1>2, <1>3, <1>4, <1>5, <1>6 DEF WorkerStep, QuietStep, StatusStep

(* Steps of everybody else. *)
LEMMA UndisturbedCluster ==
  ASSUME Inv, ClusterStep \/ UNCHANGED vars, Undisturbed'
  PROVE  policyLog' = policyLog /\ SettledStep
<1>1. due \in Delays \cup {Never} /\ LogsTypeOK
  BY DEF Inv, TypeOK
<1>2. CASE DeliverPolicy
  <2>1. /\ Len(policyLog) > 1 /\ policyLog' = Tail(policyLog)
        /\ due' = IF EnqueuedByPolicy(policyLog[1], policyLog[2]) THEN 0 ELSE due
    BY <1>2 DEF DeliverPolicy
  <2>2. /\ Len(policyLog') = 1
        /\ policyLog'[1] = policyLog[2]
    BY <1>1, <2>1, LogTail DEF LogsTypeOK, Undisturbed
  <2>3. policyLog[2] # NoPolicy
    BY <2>2 DEF Undisturbed, Stored
  <2> QED BY <2>1, <2>3 DEF EnqueuedByPolicy, Undisturbed
<1>3. CASE RelistPolicy \/ Restart
  <2>1. policyLog' = <<Stored(policyLog)>>
    BY <1>3 DEF RelistPolicy, Restart
  <2>2. Stored(policyLog) # NoPolicy
    BY <1>1, <2>1, Relisted DEF Undisturbed
  <2>3. due' = 0
    BY <1>3, <2>2 DEF RelistPolicy, Restart, EnqueuedByPolicy
  <2> QED BY <2>3 DEF Undisturbed
<1>4. CASE CreatePolicy \/ EditSpec \/ EditStatus \/ DeletePolicy \/ CollectGarbage
  <2>1. \E v : policyLog' = Append(policyLog, v)
    BY <1>4, PolicyEdited DEF PolicyUpdate, StorePolicy
  <2> QED BY <1>1, <2>1, PolicyWriteDisturbs
<1>5. ASSUME UNCHANGED <<policyLog, passVars>>, due' = Never => due = Never, due = 0 => due' = 0
      PROVE  policyLog' = policyLog /\ SettledStep
  <2>1. Undisturbed
    BY <1>5 DEF Undisturbed
  <2> QED BY <1>5, <2>1 DEF SettledStep
<1>6. CASE RelistNodes \/ \E n \in Nodes : DeliverNode(n)
  <2>1. UNCHANGED <<policyLog, passVars>> /\ (due' = 0 \/ due' = due)
    BY <1>6 DEF RelistNodes, DeliverNode
  <2>2. 0 # Never
    OBVIOUS
  <2> QED BY <1>5, <2>1, <2>2
<1>7. CASE Tick
  <2>1. UNCHANGED <<policyLog, passVars>>
    BY <1>7 DEF Tick
  <2>2. due' = IF due = Never \/ due = 0 THEN due ELSE due - 1
    BY <1>7 DEF Tick
  <2>3. due # Never /\ due # 0 => due' # Never
    <3>1. \A d \in Delays : d # 0 => d - 1 \in Nat
      BY DEF Delays
    <3> QED BY <1>1, <2>2, <3>1
  <2> QED BY <1>5, <2>1, <2>2, <2>3
<1>8. ASSUME NEW n \in Nodes, NodeChange(n)
      PROVE  policyLog' = policyLog /\ SettledStep
  <2>1. UNCHANGED <<policyLog, passVars, due>>
    BY <1>8 DEF NodeChange, FlipCondition, Restamp, Relabel, RemoveOutOfBand, DeleteNode,
       CreateNode, NodeUpdate
  <2> QED BY <1>5, <2>1
<1>9. CASE UNCHANGED vars
  BY <1>5, <1>9 DEF vars
<1> QED BY <1>2, <1>3, <1>4, <1>6, <1>7, <1>8, <1>9 DEF ClusterStep, EnvironmentStep

(* A step after which the policy is undisturbed. *)
LEMMA UndisturbedStep ==
  ASSUME Inv, [Next]_vars, Undisturbed'
  PROVE  policyLog' = policyLog /\ SettledStep
BY UndisturbedWorker, UndisturbedCluster DEF Next

-----------------------------------------------------------------------------
(* What such steps do to the cached nodes. *)

(* A version looks like itself. *)
LEMMA SameShapeReflexive == \A v : SameShape(v, v)
BY DEF SameShape

(* Nothing depends on the order of the two. *)
LEMMA SameShapeSymmetric == \A v, w : SameShape(v, w) => SameShape(w, v)
BY DEF SameShape

(* Versions that look like the same one look alike. *)
LEMMA SameShapeTransitive == \A u, v, w : SameShape(u, v) /\ SameShape(v, w) => SameShape(u, w)
BY DEF SameShape

(* A write of a node does not reach the cache yet. *)
LEMMA NodeAppendKept ==
  ASSUME LogsTypeOK, NEW n \in Nodes, NEW v \in NodeVersion,
         nodeLog' = [nodeLog EXCEPT ![n] = Append(@, v)]
  PROVE  /\ \A m \in Nodes : Cached(nodeLog'[m]) = Cached(nodeLog[m])
         /\ \A m \in Nodes : Len(nodeLog'[m]) >= Len(nodeLog[m])
         /\ Len(nodeLog'[n]) > 1
         /\ Stored(nodeLog'[n]) = v
<1>1. \A m \in Nodes : Len(nodeLog[m]) \in Nat \ {0} /\ nodeLog[m] \in Seq(NodeVersion)
  BY LogStored DEF LogsTypeOK, NodeVersion
<1>2. /\ nodeLog'[n] = Append(nodeLog[n], v)
      /\ \A m \in Nodes \ {n} : nodeLog'[m] = nodeLog[m]
  BY DEF LogsTypeOK
<1>3. /\ Len(nodeLog'[n]) = Len(nodeLog[n]) + 1
      /\ nodeLog'[n][1] = nodeLog[n][1]
      /\ Stored(nodeLog'[n]) = v
  BY <1>1, <1>2, LogAppend
<1> QED BY <1>1, <1>2, <1>3 DEF Cached

(* Ageing is not noticed. *)
LEMMA AgedShape ==
  ASSUME NEW v \in NodeVersion
  PROVE  SameShape(v, Aged(v))
<1>1. CASE v = NoNode
  BY <1>1 DEF Aged, SameShape
<1>2. CASE v # NoNode
  <2> DEFINE t == IF v.lastTransition = ZeroTime \/ v.lastTransition = -Horizon
                    THEN v.lastTransition ELSE v.lastTransition - 1
             w == [v EXCEPT !.lastTransition = t]
  <2>1. v \in NodeObject /\ v.lastTransition \in Timestamps
    BY <1>2 DEF NodeVersion, NodeObject
  <2>2. t \in Timestamps /\ (t = ZeroTime <=> v.lastTransition = ZeroTime)
    BY <2>1, ZeroTimeAssumption DEF Timestamps
  <2>3. Aged(v) = w
    BY <1>2, <2>1 DEF Aged, NodeObject
  <2>4. /\ w \in NodeObject /\ w.hasTaint = v.hasTaint /\ w.labels = v.labels
        /\ w.status = v.status /\ w.lastTransition = t
    <3> HIDE DEF t
    <3> QED BY <2>1, <2>2 DEF NodeObject
  <2> HIDE DEF w, t
  <2> QED BY <1>2, <2>2, <2>3, <2>4 DEF SameShape, NoTimestamp
<1> QED BY <1>1, <1>2

(* Every version ages where it is. *)
LEMMA TickLogs ==
  ASSUME LogsTypeOK, Tick
  PROVE  \A n \in Nodes : /\ Len(nodeLog'[n]) = Len(nodeLog[n])
                          /\ Len(nodeLog[n]) \in Nat \ {0}
                          /\ \A i \in 1 .. Len(nodeLog[n]) :
                               /\ nodeLog[n][i] \in NodeVersion
                               /\ nodeLog'[n][i] = Aged(nodeLog[n][i])
<1>1. ASSUME NEW n \in Nodes
      PROVE  /\ Len(nodeLog[n]) \in Nat \ {0}
             /\ \A i \in 1 .. Len(nodeLog[n]) : nodeLog[n][i] \in NodeVersion
  <2>1. nodeLog[n] \in Seq(NodeVersion) /\ nodeLog[n] # << >>
    BY DEF LogsTypeOK, NodeVersion
  <2> QED BY <2>1
<1>2. \A n \in Nodes : nodeLog'[n] = [i \in 1 .. Len(nodeLog[n]) |-> Aged(nodeLog[n][i])]
  BY DEF Tick
<1>3. ASSUME NEW n \in Nodes PROVE Len(nodeLog'[n]) = Len(nodeLog[n])
  <2>1. \A k \in Nat : Len([i \in 1 .. k |-> Aged(nodeLog[n][i])]) = k
    OBVIOUS
  <2> QED BY <1>1, <1>2, <2>1
<1> QED BY <1>1, <1>2, <1>3

(* So a policy does not notice that time passes. *)
LEMMA TickKept ==
  ASSUME LogsTypeOK, Tick, NEW s
  PROVE  FactsKept(s)
<1>1. ASSUME NEW n \in Nodes PROVE SameShape(Cached(nodeLog[n]), Cached(nodeLog'[n]))
  <2>1. 1 \in 1 .. Len(nodeLog[n])
    BY TickLogs
  <2>2. nodeLog[n][1] \in NodeVersion /\ nodeLog'[n][1] = Aged(nodeLog[n][1])
    BY <2>1, TickLogs
  <2> QED BY <2>2, AgedShape DEF Cached
<1> QED BY <1>1 DEF FactsKept, Unnoticed

(* A watch event that does not enqueue the policy. *)
LEMMA DeliverKept ==
  ASSUME Inv, NEW n \in Nodes, DeliverNode(n), Undisturbed',
         ValidSelector(Stored(policyLog).spec)
  PROVE  /\ Unnoticed(Stored(policyLog).spec, nodeLog[n][1], nodeLog[n][2])
         /\ FactsKept(Stored(policyLog).spec)
         /\ \A m \in Nodes \ {n} : nodeLog'[m] = nodeLog[m]
<1>1. /\ Len(nodeLog[n]) > 1 /\ nodeLog' = [nodeLog EXCEPT ![n] = Tail(@)]
      /\ due' = IF EnqueuedByNode(nodeLog[n][1], nodeLog[n][2]) THEN 0 ELSE due
      /\ UNCHANGED policyLog
  BY DEF DeliverNode
<1>2. Cached(policyLog) = Stored(policyLog) /\ Stored(policyLog) # NoPolicy
  BY <1>1 DEF Undisturbed, Cached, Stored
<1>3. nodeLog[n] \in Seq(NodeVersion) /\ Len(nodeLog[n]) \in Nat
  BY DEF Inv, TypeOK, LogsTypeOK, NodeVersion
<1>4. nodeLog[n][1] \in NodeVersion /\ nodeLog[n][2] \in NodeVersion
  BY <1>1, <1>3
<1>5. Unnoticed(Stored(policyLog).spec, nodeLog[n][1], nodeLog[n][2])
  BY <1>1, <1>2, <1>4, DroppedEvent DEF Undisturbed
<1>6. /\ nodeLog'[n] = Tail(nodeLog[n])
      /\ \A m \in Nodes \ {n} : nodeLog'[m] = nodeLog[m]
  BY <1>1 DEF Inv, TypeOK, LogsTypeOK
<1>7. Cached(nodeLog'[n]) = nodeLog[n][2]
  <2>1. /\ Len(Tail(nodeLog[n])) = Len(nodeLog[n]) - 1
        /\ \A i \in 1 .. Len(Tail(nodeLog[n])) : Tail(nodeLog[n])[i] = nodeLog[n][i + 1]
    BY <1>1, <1>3, LogTail
  <2>2. 1 \in 1 .. Len(Tail(nodeLog[n]))
    BY <1>1, <1>3, <2>1
  <2> QED BY <1>6, <2>1, <2>2 DEF Cached
<1>8. \A m \in Nodes : Unnoticed(Stored(policyLog).spec, Cached(nodeLog[m]), Cached(nodeLog'[m]))
  BY <1>5, <1>6, <1>7, SameShapeReflexive DEF Unnoticed, Cached
<1> QED BY <1>5, <1>6, <1>8 DEF FactsKept

(* A list that does not enqueue the policy. *)
LEMMA RelistKept ==
  ASSUME Inv, RelistNodes, Undisturbed', ValidSelector(Stored(policyLog).spec)
  PROVE  FactsKept(Stored(policyLog).spec)
<1>1. /\ nodeLog' = [n \in Nodes |-> <<Stored(nodeLog[n])>>]
      /\ due' = IF \E n \in Nodes : EnqueuedByNode(Cached(nodeLog[n]), Stored(nodeLog[n]))
                  THEN 0 ELSE due
      /\ UNCHANGED policyLog
  BY DEF RelistNodes
<1>2. Cached(policyLog) = Stored(policyLog) /\ Stored(policyLog) # NoPolicy
  BY <1>1 DEF Undisturbed, Cached, Stored
<1>3. \A n \in Nodes : ~EnqueuedByNode(Cached(nodeLog[n]), Stored(nodeLog[n]))
  BY <1>1 DEF Undisturbed
<1>4. \A n \in Nodes : Cached(nodeLog[n]) \in NodeVersion /\ Stored(nodeLog[n]) \in NodeVersion
  BY LogStored DEF Inv, TypeOK, LogsTypeOK, NodeVersion
<1>5. \A n \in Nodes : Cached(nodeLog'[n]) = Stored(nodeLog[n])
  BY <1>1 DEF Cached
<1> QED BY <1>2, <1>3, <1>4, <1>5, DroppedEvent DEF FactsKept

(* What a step does to the node logs. *)
NodesStep ==
  \/ UNCHANGED nodeLog
  \/ \E n \in Nodes, v \in NodeVersion : nodeLog' = [nodeLog EXCEPT ![n] = Append(@, v)]
  \/ \E n \in Nodes : DeliverNode(n)
  \/ RelistNodes \/ Restart \/ Tick

(* There is no other step. *)
LEMMA StepNodes ==
  ASSUME Inv, [Next]_vars
  PROVE  NodesStep
<1>1. CASE WorkerStep
  <2>1. \/ UNCHANGED nodeLog
        \/ \E n \in Nodes, value \in BOOLEAN : SetTaint(n, value)
    <3>1. ASSUME NEW n \in Nodes, TaintWriteFails(n)
          PROVE  UNCHANGED nodeLog \/ \E value \in BOOLEAN : SetTaint(n, value)
      <4>1. (n \in apply) \in BOOLEAN
        OBVIOUS
      <4> QED BY <3>1, <4>1 DEF TaintWriteFails
    <3>2. ASSUME NEW n \in Nodes, TaintStep(n)
          PROVE  \E value \in BOOLEAN : SetTaint(n, value)
      BY <3>2 DEF TaintStep, ApplyTaintTo, RemoveTaintFrom
    <3>3. CASE StatusStep
      BY <3>3 DEF StatusStep, WriteStatus, WriteStatusFails
    <3>4. CASE QuietStep /\ ~(\E n \in Nodes : TaintWriteFails(n))
      BY <3>4 DEF QuietStep, ReconcileNothing, StartPass, AddFinalizer,
         AddFinalizerUnacknowledged, ObserveInvalidSpec, Observe, ListNodes, CleanupFailed,
         RemoveFinalizer, RemoveFinalizerUnacknowledged, UpdateConflicts, RequestFails
    <3> QED BY <1>1, <3>1, <3>2, <3>3, <3>4 DEF WorkerStep
  <2> QED BY <2>1, SetTaintEffect DEF Inv, TypeOK, NodesStep
<1>2. CASE EnvironmentStep
  <2>1. CASE CreatePolicy \/ EditSpec \/ EditStatus \/ DeletePolicy \/ CollectGarbage
    BY <2>1, PolicyEdited DEF PolicyUpdate, NodesStep
  <2>2. ASSUME NEW n \in Nodes, NodeChange(n)
        PROVE  NodesStep
    BY <2>2, NodeEdited, NodeReplaced DEF NodeChange, NodeUpdate, StoreNode, NodesStep
  <2> QED BY <1>2, <2>1, <2>2 DEF EnvironmentStep
<1>3. CASE DeliverPolicy \/ RelistPolicy \/ UNCHANGED vars
  BY <1>3 DEF DeliverPolicy, RelistPolicy, vars, NodesStep
<1> QED BY <1>1, <1>2, <1>3 DEF Next, ClusterStep, NodesStep

(* No step that leaves the policy undisturbed shows it anything new. *)
LEMMA UndisturbedFacts ==
  ASSUME Inv, [Next]_vars, Undisturbed', ValidSelector(Stored(policyLog).spec)
  PROVE  FactsKept(Stored(policyLog).spec)
<1>1. LogsTypeOK /\ NodesStep
  BY StepNodes DEF Inv, TypeOK
<1>2. CASE UNCHANGED nodeLog
  BY <1>2, SameShapeReflexive DEF FactsKept, Unnoticed
<1>3. CASE \E n \in Nodes, v \in NodeVersion : nodeLog' = [nodeLog EXCEPT ![n] = Append(@, v)]
  <2>1. \A m \in Nodes : Cached(nodeLog'[m]) = Cached(nodeLog[m])
    BY <1>1, <1>3, NodeAppendKept
  <2> QED BY <2>1, SameShapeReflexive DEF FactsKept, Unnoticed
<1>4. CASE Restart
  <2>1. policyLog' = <<Stored(policyLog)>> /\ (Stored(policyLog) # NoPolicy => due' = 0)
    BY <1>4 DEF Restart
  <2> QED BY <1>1, <2>1, Relisted DEF Undisturbed
<1> QED BY <1>1, <1>2, <1>3, <1>4, DeliverKept, RelistKept, TickKept DEF NodesStep

-----------------------------------------------------------------------------
(* The invariant of a pass that nobody disturbs. *)

(* Only AddFinalizer and the cache put a pass on the live branch. *)
LEMMA ActingCopyStep ==
  ASSUME Inv, ActingCopyHeld, [Next]_vars
  PROVE  ActingCopyHeld'
<1>1. ASSUME UNCHANGED <<pc, copy>> PROVE ActingCopyHeld'
  BY <1>1 DEF ActingCopyHeld
<1>2. ASSUME pc' \notin {"observe", "act"} PROVE ActingCopyHeld'
  BY <1>2 DEF ActingCopyHeld
<1>3. CASE StartPass
  BY <1>3 DEF StartPass, NothingToDo, ActingCopyHeld
<1>4. CASE AddFinalizer
  <2>1. copy \in PolicyObject /\ Live(copy) /\ copy' = WithFinalizer(copy)
    BY <1>4 DEF AddFinalizer, Inv, TypeOK, PassTypeOK, BranchFollowsCopy
  <2> DEFINE u == Updated(copy)
             f == u.finalizers \cup {taintCleanupFinalizer}
  <2>2. u \in PolicyObject /\ u.deleting = copy.deleting
    BY <2>1, UpdatedType
  <2>3. f \in SUBSET Finalizers
    <3> HIDE DEF u
    <3> QED BY <2>2 DEF PolicyObject, Finalizers
  <2>4. copy' = [u EXCEPT !.finalizers = f]
    BY <2>1 DEF WithFinalizer
  <2>5. taintCleanupFinalizer \in f
    OBVIOUS
  <2> HIDE DEF u, f
  <2>6. copy' \in PolicyObject /\ ~copy'.deleting /\ taintCleanupFinalizer \in copy'.finalizers
    BY <2>1, <2>2, <2>3, <2>4, <2>5 DEF PolicyObject
  <2> QED BY <2>6 DEF ActingCopyHeld
<1>5. CASE ObserveInvalidSpec \/ Observe
  BY <1>5 DEF ObserveInvalidSpec, Observe, ActingCopyHeld
<1>6. CASE WorkerStep
  <2>1. CASE ReconcileNothing \/ \E n \in Nodes : TaintStep(n) \/ TaintWriteFails(n)
    BY <1>1, <2>1 DEF ReconcileNothing, passVars, TaintStep, ApplyTaintTo, RemoveTaintFrom,
       TaintWriteFails
  <2>2. CASE \/ AddFinalizerUnacknowledged \/ CleanupFailed \/ RemoveFinalizer \/ StatusStep
             \/ RemoveFinalizerUnacknowledged \/ UpdateConflicts \/ RequestFails
    BY <1>2, <2>2 DEF AddFinalizerUnacknowledged, CleanupFailed, RemoveFinalizer, StatusStep,
       RemoveFinalizerUnacknowledged, UpdateConflicts, RequestFails, WriteStatus,
       WriteStatusFails, FinishPass, EndPassWithError, EndPass
  <2>3. CASE ListNodes
    BY <1>2, <2>3 DEF ListNodes
  <2> QED BY <1>3, <1>4, <1>5, <1>6, <2>1, <2>2, <2>3 DEF WorkerStep, QuietStep
<1>7. CASE ClusterStep \/ UNCHANGED vars
  <2>1. CASE Restart
    BY <1>2, <2>1 DEF Restart
  <2>2. CASE CreatePolicy \/ EditSpec \/ EditStatus \/ DeletePolicy \/ CollectGarbage
    BY <1>1, <2>2, PolicyEdited DEF PolicyUpdate
  <2>3. CASE \E n \in Nodes : NodeChange(n)
    BY <1>1, <2>3 DEF NodeChange, FlipCondition, Restamp, Relabel, RemoveOutOfBand,
       DeleteNode, CreateNode, NodeUpdate, passVars
  <2>4. CASE \/ DeliverPolicy \/ RelistPolicy \/ RelistNodes \/ Tick \/ UNCHANGED vars
             \/ \E n \in Nodes : DeliverNode(n)
    BY <1>1, <2>4 DEF DeliverPolicy, RelistPolicy, RelistNodes, Tick, DeliverNode, vars, passVars
  <2> QED BY <1>7, <2>1, <2>2, <2>3, <2>4 DEF ClusterStep, EnvironmentStep
<1> QED BY <1>6, <1>7 DEF Next

(* A pass prepares the status its cache deserves. *)
LEMMA ObservedStatus ==
  ASSUME copy \in PolicyObject,
         \/ ObserveInvalidSpec
         \/ Observe
  PROVE  Truthful(newStatus', copy, CachedFacts)
<1>1. CASE ObserveInvalidSpec
  <2>1. newStatus' = [copy.status EXCEPT !.condition = Mark(copy, "InvalidSpec", 0)]
        /\ ~ValidSelector(copy.spec)
    BY <1>1 DEF ObserveInvalidSpec, InvalidSpecStatus
  <2>2. copy.status \in Status
    BY DEF PolicyObject
  <2>3. newStatus'.condition = Mark(copy, "InvalidSpec", 0)
    BY <2>1, <2>2 DEF Status
  <2> QED BY <2>1, <2>3 DEF Truthful, Mark
<1>2. CASE Observe
  <2> DEFINE d == Decide(projectPolicy(copy.spec), CachedFacts, 0)
  <2>1. newStatus' = ProjectedStatus(copy, d) /\ ValidSelector(copy.spec)
    BY <1>2 DEF Observe
  <2> HIDE DEF d
  <2>2. /\ \A f \in ListNames : ProjectedStatus(copy, d).lists[f] = d[f]
        /\ \A f \in ListNames : ProjectedStatus(copy, d).counts[f] = Cardinality(d[f])
        /\ ProjectedStatus(copy, d).condition = ProjectedCondition(copy, d)
    BY DEF ProjectedStatus
  <2>3. ProjectedCondition(copy, d).observedGeneration = copy.generation
    BY DEF ProjectedCondition, Mark
  <2> QED BY <2>1, <2>2, <2>3 DEF Truthful, d
<1> QED BY <1>1, <1>2

(* A merge patch that changes nothing wanted to change nothing. *)
LEMMA MergedUnchanged ==
  ASSUME NEW old \in Status, NEW new \in Status, Merged(old, old, new) = old
  PROVE  new = old
<1>1. /\ \A f \in ListNames : Merged(old, old, new).lists[f] = new.lists[f]
      /\ \A f \in ListNames : Merged(old, old, new).counts[f] = new.counts[f]
      /\ Merged(old, old, new).condition = new.condition
  BY DEF Merged
<1>2. /\ \A f \in ListNames : old.lists[f] = new.lists[f]
      /\ \A f \in ListNames : old.counts[f] = new.counts[f]
      /\ old.condition = new.condition
  BY <1>1
<1>3. old.lists = new.lists /\ old.counts = new.counts
  BY <1>2 DEF Status
<1> QED BY <1>2, <1>3 DEF Status

(* A deferred write that leaves the policy as it is found it up to date. *)
LEMMA WriteStatusSettles ==
  ASSUME Inv, WriteStatus, UNCHANGED policyLog, copy = Stored(policyLog)
  PROVE  newStatus = copy.status
<1>1. pc = "act" /\ copy \in PolicyObject /\ newStatus \in Status
  BY DEF WriteStatus, Acted, Inv, TypeOK, PassTypeOK
<1>2. copy.status \in Status /\ copy # NoPolicy
  BY <1>1 DEF PolicyObject
<1>3. CASE StatusUnchanged
  BY <1>3 DEF StatusUnchanged
<1>4. CASE ~StatusUnchanged
  <2> DEFINE status == Merged(copy.status, copy.status, newStatus)
             v      == [copy EXCEPT !.status = status]
  <2>1. copy = NoPolicy \/ status = copy.status \/ StorePolicy(v)
    BY <1>4 DEF WriteStatus, StorePatchedStatus
  <2> HIDE DEF v
  <2>2. ~StorePolicy(v)
    <3>1. policyLog \in Seq(PolicyVersion) /\ Len(policyLog) \in Nat
      BY DEF Inv, TypeOK, LogsTypeOK, PolicyVersion
    <3>2. Len(Append(policyLog, v)) = Len(policyLog) + 1
      BY <3>1
    <3>3. Append(policyLog, v) # policyLog
      BY <3>1, <3>2
    <3> QED BY <3>3 DEF StorePolicy
  <2>3. status = copy.status
    BY <1>2, <2>1, <2>2
  <2> QED BY <1>1, <1>2, <2>3, MergedUnchanged
<1> QED BY <1>3, <1>4

(* What the pass does in a step that leaves the policy undisturbed. *)
PassKept == UNCHANGED <<pc, copy, newStatus>>

(* It observes, ends, lists the nodes to clean, or stays where it is. *)
LEMMA SettledStepKinds ==
  ASSUME SettledStep
  PROVE  \/ StartPass
         \/ ReconcileNothing
         \/ /\ Undisturbed
            /\ \/ (ObserveInvalidSpec \/ Observe) /\ UNCHANGED <<nodeLog, copy>> /\ pc' = "act"
               \/ WriteStatus /\ UNCHANGED nodeLog /\ pc' = "idle"
               \/ ListNodes /\ UNCHANGED <<nodeLog, copy>> /\ pc' = "cleanup"
               \/ PassKept
<1>1. ASSUME \E n \in Nodes : TaintStep(n) \/ TaintWriteFails(n) PROVE PassKept
  BY <1>1 DEF TaintStep, ApplyTaintTo, RemoveTaintFrom, TaintWriteFails, PassKept
<1>2. ASSUME UNCHANGED passVars PROVE PassKept
  BY <1>2 DEF PassKept, passVars
<1>3. ASSUME ObserveInvalidSpec \/ Observe PROVE UNCHANGED <<nodeLog, copy>> /\ pc' = "act"
  BY <1>3 DEF ObserveInvalidSpec, Observe
<1>4. ASSUME ListNodes PROVE UNCHANGED <<nodeLog, copy>> /\ pc' = "cleanup"
  BY <1>4 DEF ListNodes
<1>5. ASSUME WriteStatus PROVE UNCHANGED nodeLog /\ pc' = "idle"
  BY <1>5 DEF WriteStatus, FinishPass, EndPassWithError, EndPass
<1> QED BY <1>1, <1>2, <1>3, <1>4, <1>5 DEF SettledStep

(* Every step preserves the invariant: a pass that somebody disturbs       *)
(* promises nothing, because another one follows.                          *)
LEMMA SettleStep ==
  ASSUME SettleInv, [Next]_vars
  PROVE  SettleInv'
<1>1. Inv /\ Inv' /\ ActingCopyHeld /\ ActingCopyHeld'
  BY StepInv, ActingCopyStep DEF SettleInv
<1>2. CASE ~Undisturbed'
  BY <1>1, <1>2 DEF SettleInv, PassHoldsStored, StatusPrepared, PolicySettled
<1>3. CASE Undisturbed'
  <2> DEFINE p == Stored(policyLog)
  <2>1. policyLog' = policyLog /\ SettledStep
    BY <1>1, <1>3, UndisturbedStep
  <2>2. p # NoPolicy /\ p \in PolicyObject /\ Cached(policyLog) = p
    BY <1>1, <1>3, <2>1, StoredTypes DEF Undisturbed, Cached, Stored, PolicyVersion, Inv, TypeOK
  <2>3. Stored(policyLog') = p
    BY <2>1
  <2>4. LogsTypeOK /\ LogsTypeOK'
    BY <1>1 DEF Inv, TypeOK
  <2>5. ASSUME NEW status, Truthful(status, p, CachedFacts)
        PROVE  Truthful(status, p, CachedFacts')
    <3>1. ValidSelector(p.spec) => FactsKept(p.spec)
      BY <1>1, <1>3, UndisturbedFacts
    <3> HIDE DEF p
    <3> QED BY <2>4, <2>5, <3>1, StillTruthful
  <2> HIDE DEF p
  <2>6. ASSUME pc' # "idle" => copy' = p,
               pc' = "act" => Truthful(newStatus', p, CachedFacts'),
               pc' = "idle" => /\ HasFinalizer(p) = ~p.deleting
                               /\ ~p.deleting => Truthful(p.status, p, CachedFacts')
        PROVE  SettleInv'
    <3>1. PassHoldsStored'
      BY <2>3, <2>6 DEF PassHoldsStored
    <3>2. StatusPrepared'
      BY <2>6 DEF StatusPrepared
    <3>3. PolicySettled'
      BY <2>3, <2>6 DEF PolicySettled
    <3> QED BY <1>1, <3>1, <3>2, <3>3 DEF SettleInv
  <2>7. CASE StartPass
    <3>1. copy' = p /\ pc' \notin {"idle", "act"}
      BY <2>2, <2>7 DEF StartPass, PolicyObject
    <3> QED BY <2>6, <3>1
  <2>8. CASE ReconcileNothing
    <3>1. pc' = "idle" /\ p.deleting /\ ~HasFinalizer(p)
      BY <2>2, <2>8 DEF ReconcileNothing, Dequeue, NothingToDo, passVars
    <3> QED BY <2>6, <3>1
  <2>9. ASSUME Undisturbed PROVE pc # "idle" => copy = p
    BY <2>9 DEF p, SettleInv, PassHoldsStored
  <2>10. ASSUME Undisturbed, pc = "act" PROVE Truthful(newStatus, p, CachedFacts)
    BY <2>9, <2>10 DEF SettleInv, StatusPrepared
  <2>11. CASE Undisturbed /\ (ObserveInvalidSpec \/ Observe) /\ UNCHANGED <<nodeLog, copy>> /\ pc' = "act"
    <3>1. pc = "observe"
      BY <2>11 DEF ObserveInvalidSpec, Observe
    <3>2. copy = p
      BY <2>9, <2>11, <3>1
    <3>3. Truthful(newStatus', p, CachedFacts)
      BY <2>2, <2>11, <3>2, ObservedStatus
    <3>4. Truthful(newStatus', p, CachedFacts')
      BY <2>5, <3>3
    <3> QED BY <2>6, <2>11, <3>2, <3>4
  <2>12. CASE Undisturbed /\ WriteStatus /\ UNCHANGED nodeLog /\ pc' = "idle"
    <3>1. pc = "act"
      BY <2>12 DEF WriteStatus, Acted
    <3>2. copy = p /\ Truthful(newStatus, p, CachedFacts)
      BY <2>9, <2>10, <2>12, <3>1
    <3>3. newStatus = p.status
      BY <1>1, <2>1, <2>12, <3>2, WriteStatusSettles DEF p
    <3>4. HasFinalizer(p) /\ ~p.deleting
      BY <1>1, <3>1, <3>2 DEF ActingCopyHeld
    <3>5. Truthful(p.status, p, CachedFacts')
      BY <2>5, <3>2, <3>3
    <3> QED BY <2>6, <2>12, <3>4, <3>5
  <2>13. CASE Undisturbed /\ ListNodes /\ UNCHANGED <<nodeLog, copy>> /\ pc' = "cleanup"
    <3>1. copy = p
      BY <2>9, <2>13 DEF ListNodes
    <3> QED BY <2>6, <2>13, <3>1
  <2>14. CASE Undisturbed /\ PassKept
    <3>1. UNCHANGED <<pc, copy, newStatus>>
      BY <2>14 DEF PassKept
    <3>2. pc' = "act" => Truthful(newStatus', p, CachedFacts')
      BY <2>5, <2>10, <2>14, <3>1
    <3>3. pc = "idle" => /\ HasFinalizer(p) = ~p.deleting
                         /\ ~p.deleting => Truthful(p.status, p, CachedFacts)
      BY <2>14 DEF SettleInv, PolicySettled, p
    <3> QED BY <2>5, <2>6, <2>9, <2>14, <3>1, <3>2, <3>3
  <2> QED BY <2>1, <2>7, <2>8, <2>11, <2>12, <2>13, <2>14, SettledStepKinds
<1> QED BY <1>2, <1>3

(* A policy found at the start is queued. *)
LEMMA SettleInit == Init => SettleInv
<1> SUFFICES ASSUME Init PROVE SettleInv
  OBVIOUS
<1>1. PICK p : policyLog = <<p>> /\ due = IF p = NoPolicy THEN Never ELSE 0
  BY DEF Init
<1>2. Stored(policyLog) = p
  BY <1>1 DEF Stored
<1>3. ~Undisturbed
  BY <1>1, <1>2 DEF Undisturbed
<1> QED BY <1>3, InitInv DEF Init, SettleInv, PassHoldsStored, ActingCopyHeld, StatusPrepared,
       PolicySettled

(* The invariant holds in every reachable state. *)
THEOREM SettleInvHolds == Spec => []SettleInv
BY SettleInit, SettleStep, PTL DEF Spec

(* At rest the cache shows what is stored. *)
LEMMA RestFacts ==
  ASSUME LogsTypeOK, Quiescent
  PROVE  CachedFacts = StoredFacts
<1>1. \A n \in Nodes : Cached(nodeLog[n]) = Stored(nodeLog[n])
  BY DEF Quiescent, Cached, Stored
<1> QED BY <1>1 DEF CachedFacts, StoredFacts, Exists

(* At rest nobody disturbs the policy. *)
LEMMA RestUndisturbed ==
  ASSUME Quiescent, Stored(policyLog) # NoPolicy
  PROVE  Undisturbed /\ pc = "idle"
<1>1. 0 # Never
  OBVIOUS
<1> QED BY <1>1 DEF Quiescent, Undisturbed

(* At rest a live policy is protected and a deleted one has been let go,   *)
(* whatever Reconcile and cleanupTaints went through before.               *)
THEOREM FinalizerSettlesAtRest == Spec => []RestMeansFinalizerSettled
<1>1. SettleInv => RestMeansFinalizerSettled
  BY RestUndisturbed DEF SettleInv, PolicySettled, RestMeansFinalizerSettled
<1> QED BY <1>1, SettleInvHolds, PTL

(* At rest the published status is the one the cluster deserves, although  *)
(* writeStatus sends a merge patch without a lock, against a copy that may *)
(* be stale.                                                               *)
THEOREM StatusTruthfulAtRest == Spec => []RestMeansTruthfulStatus
<1>1. ASSUME SettleInv PROVE RestMeansTruthfulStatus
  <2> DEFINE p == Stored(policyLog)
  <2> SUFFICES ASSUME Quiescent, Live(p)
               PROVE  /\ p.status.condition.observedGeneration = p.generation
                      /\ IF ValidSelector(p.spec)
                           THEN /\ \A f \in ListNames : p.status.lists[f] = Wanted[f]
                                /\ \A f \in ListNames : p.status.counts[f] = Cardinality(Wanted[f])
                                /\ p.status.condition = ProjectedCondition(p, Wanted)
                           ELSE p.status.condition.reason = "InvalidSpec"
    BY DEF RestMeansTruthfulStatus
  <2>1. Truthful(p.status, p, CachedFacts)
    BY <1>1, RestUndisturbed DEF SettleInv, PolicySettled
  <2>2. CachedFacts = StoredFacts
    BY <1>1, RestFacts DEF SettleInv, Inv, TypeOK
  <2>3. Wanted = Decide(projectPolicy(p.spec), CachedFacts, 0)
    BY <2>2 DEF Wanted
  <2> HIDE DEF p
  <2> QED BY <2>1, <2>3 DEF Truthful
<1> QED BY <1>1, SettleInvHolds, PTL

-----------------------------------------------------------------------------
(* No wake-up is lost.  When watches do not break, the next version of a   *)
(* node that a policy waits for always wakes the policy.                   *)

(* A version that a watch can tell from the cached one is on its way. *)
OnItsWay(n) ==
  \E i \in 1 .. Len(nodeLog[n]) : ~SameShape(Cached(nodeLog[n]), nodeLog[n][i])

(* A pass that returns no delay has left no node behind: whoever it does   *)
(* not taint or untaint has changed since.                                 *)
NobodyForgotten ==
  /\ Undisturbed /\ pc = "act" /\ ValidSelector(copy.spec) /\ requeue = 0 /\ ~failed
  => LET pure == projectPolicy(copy.spec)
     IN  /\ \A n \in Entering(pure, CachedFacts) \ apply : OnItsWay(n)
         /\ \A n \in Exiting(pure, CachedFacts) \ remove : OnItsWay(n)

(* When no pass is running or scheduled nobody waits in vain. *)
NobodyWaits ==
  /\ Undisturbed /\ pc = "idle" /\ due = Never
  /\ Live(Stored(policyLog)) /\ ValidSelector(Stored(policyLog).spec)
  => LET pure == projectPolicy(Stored(policyLog).spec)
     IN  \A n \in Entering(pure, CachedFacts) \cup Exiting(pure, CachedFacts) : OnItsWay(n)

ConvergeInv == SettleInv /\ NobodyForgotten /\ NobodyWaits

(* A version that differs stays on its way, unless it wakes the policy: a  *)
(* version the cache takes over unnoticed looks like the one before it.    *)
LEMMA StaysOnItsWay ==
  ASSUME Inv, ~WatchesBreak, [Next]_vars, Undisturbed',
         ValidSelector(Stored(policyLog).spec),
         NEW n \in Nodes, InSelector(Stored(policyLog).spec, Cached(nodeLog[n])), OnItsWay(n)
  PROVE  OnItsWay(n)'
<1>1. NodesStep /\ LogsTypeOK
  BY StepNodes DEF Inv, TypeOK
<1>2. nodeLog[n] \in Seq(NodeVersion) /\ Len(nodeLog[n]) \in Nat \ {0}
  BY <1>1, LogStored DEF LogsTypeOK, NodeVersion
<1>3. PICK i \in 1 .. Len(nodeLog[n]) : ~SameShape(nodeLog[n][1], nodeLog[n][i])
  BY DEF OnItsWay, Cached
<1>4. ASSUME NEW j \in 1 .. Len(nodeLog'[n]), ~SameShape(nodeLog'[n][1], nodeLog'[n][j])
      PROVE  OnItsWay(n)'
  BY <1>4 DEF OnItsWay, Cached
<1>5. CASE nodeLog'[n] = nodeLog[n]
  BY <1>3, <1>4, <1>5
<1>6. CASE \E m \in Nodes, v \in NodeVersion : nodeLog' = [nodeLog EXCEPT ![m] = Append(@, v)]
  <2>1. PICK m \in Nodes, v \in NodeVersion : nodeLog' = [nodeLog EXCEPT ![m] = Append(@, v)]
    BY <1>6
  <2>2. CASE m # n
    <3>1. nodeLog'[n] = nodeLog[n]
      BY <1>1, <2>1, <2>2 DEF LogsTypeOK
    <3> QED BY <1>5, <3>1
  <2>3. CASE m = n
    <3>1. nodeLog'[n] = Append(nodeLog[n], v)
      BY <1>1, <2>1, <2>3 DEF LogsTypeOK
    <3>2. /\ Len(nodeLog'[n]) = Len(nodeLog[n]) + 1
          /\ \A j \in 1 .. Len(nodeLog'[n]) :
               nodeLog'[n][j] = IF j <= Len(nodeLog[n]) THEN nodeLog[n][j] ELSE v
      BY <1>2, <3>1, LogAppend
    <3>3. /\ i \in 1 .. Len(nodeLog'[n]) /\ nodeLog'[n][i] = nodeLog[n][i]
          /\ nodeLog'[n][1] = nodeLog[n][1]
      BY <1>2, <3>2
    <3> QED BY <1>3, <1>4, <3>3
  <2> QED BY <2>2, <2>3
<1>7. CASE \E m \in Nodes : DeliverNode(m)
  <2>1. PICK m \in Nodes : DeliverNode(m)
    BY <1>7
  <2>2. /\ Unnoticed(Stored(policyLog).spec, nodeLog[m][1], nodeLog[m][2])
        /\ \A k \in Nodes \ {m} : nodeLog'[k] = nodeLog[k]
    BY <2>1, DeliverKept
  <2>3. CASE m # n
    BY <1>5, <2>2, <2>3
  <2>4. CASE m = n
    <3>1. SameShape(nodeLog[n][1], nodeLog[n][2])
      BY <2>2, <2>4 DEF Unnoticed, Cached
    <3>2. i # 1 /\ i # 2
      BY <1>3, <3>1, SameShapeReflexive
    <3>3. nodeLog'[n] = Tail(nodeLog[n]) /\ Len(nodeLog[n]) > 1
      BY <1>1, <2>1, <2>4 DEF DeliverNode, LogsTypeOK
    <3>4. /\ Len(nodeLog'[n]) = Len(nodeLog[n]) - 1
          /\ \A j \in 1 .. Len(nodeLog'[n]) : nodeLog'[n][j] = nodeLog[n][j + 1]
      BY <1>2, <3>3, LogTail
    <3>5. /\ i - 1 \in 1 .. Len(nodeLog'[n]) /\ nodeLog'[n][i - 1] = nodeLog[n][i]
          /\ nodeLog'[n][1] = nodeLog[n][2]
      BY <1>2, <3>2, <3>4
    <3>6. ~SameShape(nodeLog[n][2], nodeLog[n][i])
      BY <1>3, <3>1, SameShapeTransitive
    <3> QED BY <1>4, <3>5, <3>6
  <2> QED BY <2>3, <2>4
<1>8. CASE RelistNodes
  BY <1>8 DEF RelistNodes
<1>9. CASE Restart
  <2>1. policyLog' = <<Stored(policyLog)>> /\ (Stored(policyLog) # NoPolicy => due' = 0)
    BY <1>9 DEF Restart
  <2> QED BY <1>1, <2>1, Relisted DEF Undisturbed
<1>10. CASE Tick
  <2>1. /\ Len(nodeLog'[n]) = Len(nodeLog[n])
        /\ \A j \in 1 .. Len(nodeLog[n]) : /\ nodeLog[n][j] \in NodeVersion
                                           /\ nodeLog'[n][j] = Aged(nodeLog[n][j])
    BY <1>1, <1>10, TickLogs
  <2>2. 1 \in 1 .. Len(nodeLog[n]) /\ i \in 1 .. Len(nodeLog'[n])
    BY <1>2, <2>1
  <2> DEFINE v == nodeLog[n][1]
             w == nodeLog[n][i]
  <2>3. /\ nodeLog'[n][1] = Aged(v) /\ nodeLog'[n][i] = Aged(w)
        /\ v \in NodeVersion /\ w \in NodeVersion /\ ~SameShape(v, w)
    BY <1>3, <2>1, <2>2
  <2> HIDE DEF v, w
  <2>4. SameShape(v, Aged(v)) /\ SameShape(w, Aged(w))
    BY <2>3, AgedShape
  <2>5. ~SameShape(Aged(v), Aged(w))
    BY <2>3, <2>4, SameShapeTransitive, SameShapeSymmetric
  <2> QED BY <1>4, <2>2, <2>3, <2>5
<1>11. CASE UNCHANGED nodeLog
  BY <1>5, <1>11
<1> QED BY <1>1, <1>6, <1>7, <1>8, <1>9, <1>10, <1>11 DEF NodesStep

(* A taint write either makes a version or finds that one is on its way. *)
LEMMA ActedOnItsWay ==
  ASSUME LogsTypeOK, NEW n \in Nodes, NEW value \in BOOLEAN, SetTaint(n, value),
         Cached(nodeLog[n]) # NoNode, Cached(nodeLog[n]).hasTaint # value
  PROVE  OnItsWay(n)'
<1>1. Len(nodeLog[n]) \in Nat \ {0} /\ Stored(nodeLog[n]) # NoNode
  BY LogStored, SetTaintEffect DEF LogsTypeOK
<1>2. \A v : v # NoNode /\ v.hasTaint = value => ~SameShape(Cached(nodeLog[n]), v)
  BY Zenon DEF SameShape
<1>3. CASE UNCHANGED nodeLog /\ Stored(nodeLog[n]).hasTaint = value
  <2>1. Len(nodeLog[n]) \in 1 .. Len(nodeLog[n])
    BY <1>1
  <2>2. ~SameShape(Cached(nodeLog[n]), nodeLog[n][Len(nodeLog[n])])
    BY <1>1, <1>2, <1>3, Zenon DEF Stored
  <2> QED BY <1>3, <2>1, <2>2, Zenon DEF OnItsWay
<1>4. CASE \E v \in NodeVersion : /\ nodeLog' = [nodeLog EXCEPT ![n] = Append(@, v)]
                                  /\ v # NoNode /\ v.hasTaint = value
  <2>1. PICK v \in NodeVersion : /\ nodeLog' = [nodeLog EXCEPT ![n] = Append(@, v)]
                                 /\ v # NoNode /\ v.hasTaint = value
    BY <1>4
  <2>2. /\ Cached(nodeLog'[n]) = Cached(nodeLog[n])
        /\ Len(nodeLog'[n]) > 1
        /\ Stored(nodeLog'[n]) = v
    BY <2>1, NodeAppendKept
  <2>3. nodeLog'[n] \in Seq(NodeObject \cup {NoNode})
    BY <2>1, NodeAppendEffect
  <2>4. Len(nodeLog'[n]) \in 1 .. Len(nodeLog'[n])
    BY <2>2, <2>3
  <2>5. ~SameShape(Cached(nodeLog'[n]), nodeLog'[n][Len(nodeLog'[n])])
    BY <1>2, <2>1, <2>2, Zenon DEF Stored
  <2> QED BY <2>4, <2>5, Zenon DEF OnItsWay
<1> QED BY <1>3, <1>4, SetTaintEffect

(* What a step that leaves the policy undisturbed does to those it waits   *)
(* for: it makes no new ones, and those on their way stay so.              *)
LEMMA WaitersKept ==
  ASSUME Inv, Inv', ~WatchesBreak, [Next]_vars, Undisturbed',
         ValidSelector(Stored(policyLog).spec)
  PROVE  LET pure == projectPolicy(Stored(policyLog).spec)
             E    == Entering(pure, CachedFacts)
             X    == Exiting(pure, CachedFacts)
         IN  /\ Entering(pure, CachedFacts') = E
             /\ Exiting(pure, CachedFacts') = X
             /\ \A n \in E \cup X : /\ n \in Nodes
                                    /\ Cached(nodeLog[n]) # NoNode
                                    /\ OnItsWay(n) => OnItsWay(n)'
             /\ \A n \in E : ~Cached(nodeLog[n]).hasTaint
             /\ \A n \in X : Cached(nodeLog[n]).hasTaint
<1> DEFINE s    == Stored(policyLog).spec
           pure == projectPolicy(s)
           E    == Entering(pure, CachedFacts)
           X    == Exiting(pure, CachedFacts)
<1>1. LogsTypeOK /\ LogsTypeOK' /\ FactsKept(s)
  BY UndisturbedFacts DEF Inv, TypeOK
<1>2. Entering(pure, CachedFacts') = E /\ Exiting(pure, CachedFacts') = X
  BY <1>1, UnnoticedFacts
<1>3. \A n \in E \cup X : /\ n \in Nodes
                          /\ InSelector(s, Cached(nodeLog[n]))
                          /\ CachedFacts[n] = Cached(nodeLog[n])
  BY <1>1, WaitingNodes
<1>4. \A n \in E : ~CachedFacts[n].hasTaint
  <2> HIDE DEF pure
  <2> QED BY DEF Entering, Pending
<1>5. \A n \in X : CachedFacts[n].hasTaint
  <2> HIDE DEF pure
  <2> QED BY DEF Exiting
<1> HIDE DEF pure, E, X
<1>6. \A n \in E \cup X : OnItsWay(n) => OnItsWay(n)'
  BY <1>3, StaysOnItsWay
<1>7. \A n \in E \cup X : Cached(nodeLog[n]) # NoNode
  BY <1>3 DEF InSelector
<1> QED BY <1>2, <1>3, <1>4, <1>5, <1>6, <1>7 DEF pure, E, X

(* Decide either acts on a waiting node or asks to be called again. *)
LEMMA ObservedAll ==
  ASSUME Inv, Observe, requeue' = 0
  PROVE  /\ Entering(projectPolicy(copy.spec), CachedFacts) \subseteq apply'
         /\ Exiting(projectPolicy(copy.spec), CachedFacts) \subseteq remove'
<1> DEFINE pure == projectPolicy(copy.spec)
<1>1. copy \in PolicyObject /\ LogsTypeOK
  BY DEF Observe, Inv, TypeOK, PassTypeOK
<1>2. pure.debounceEnter \in Int /\ pure.debounceExit \in Int
  BY <1>1 DEF PolicyObject
<1>3. \A n \in DOMAIN CachedFacts : CachedFacts[n].lastTransition \in Int
  BY <1>1, CachedFactsType
<1>4. /\ apply' = Decide(pure, CachedFacts, 0).applyTaint
      /\ remove' = Decide(pure, CachedFacts, 0).removeTaint
      /\ requeue' = Decide(pure, CachedFacts, 0).requeueAfter
  BY DEF Observe
<1> HIDE DEF pure
<1>5. /\ apply' = ApplyTaint(pure, CachedFacts, 0)
      /\ remove' = RemoveTaint(pure, CachedFacts, 0)
      /\ RequeueAfter(pure, CachedFacts, 0) = 0
  BY <1>4 DEF Decide
<1>6. 0 \in Int
  OBVIOUS
<1> QED BY <1>2, <1>3, <1>5, <1>6, RequeueCoversWaits DEF pure

(* The worker goes on with the nodes one by one. *)
LEMMA NobodyForgottenStep ==
  ASSUME ConvergeInv, SettleInv', ~WatchesBreak, [Next]_vars
  PROVE  NobodyForgotten'
<1> DEFINE p    == Stored(policyLog)
           pure == projectPolicy(p.spec)
           E    == Entering(pure, CachedFacts)
           X    == Exiting(pure, CachedFacts)
<1>1. SUFFICES ASSUME Undisturbed', pc' = "act", ValidSelector(copy'.spec), requeue' = 0, ~failed'
               PROVE  /\ \A n \in Entering(projectPolicy(copy'.spec), CachedFacts') \ apply' : OnItsWay(n)'
                      /\ \A n \in Exiting(projectPolicy(copy'.spec), CachedFacts') \ remove' : OnItsWay(n)'
  BY DEF NobodyForgotten
<1>2. Inv /\ Inv' /\ PassHoldsStored /\ PassHoldsStored' /\ NobodyForgotten
  BY DEF ConvergeInv, SettleInv
<1>3. policyLog' = policyLog /\ SettledStep
  BY <1>1, <1>2, UndisturbedStep
<1>4. copy' = p
  BY <1>1, <1>2, <1>3 DEF PassHoldsStored
<1>5. /\ Entering(pure, CachedFacts') = E
      /\ Exiting(pure, CachedFacts') = X
      /\ \A n \in E \cup X : /\ n \in Nodes
                             /\ Cached(nodeLog[n]) # NoNode
                             /\ OnItsWay(n) => OnItsWay(n)'
      /\ \A n \in E : ~Cached(nodeLog[n]).hasTaint
      /\ \A n \in X : Cached(nodeLog[n]).hasTaint
  BY <1>1, <1>2, <1>4, WaitersKept
<1> HIDE DEF E, X, pure
<1>6. SUFFICES /\ \A n \in E \ apply' : OnItsWay(n)'
               /\ \A n \in X \ remove' : OnItsWay(n)'
  BY <1>4, <1>5 DEF pure
<1>7. CASE StartPass \/ ReconcileNothing \/ ListNodes \/ WriteStatus
  <2>1. pc' # "act"
    BY <1>7 DEF StartPass, ReconcileNothing, Dequeue, passVars, ListNodes, WriteStatus,
       FinishPass, EndPassWithError, EndPass
  <2> QED BY <1>1, <2>1
<1>8. CASE ObserveInvalidSpec
  BY <1>1, <1>8 DEF ObserveInvalidSpec
<1>9. CASE Observe
  <2>1. copy = p
    BY <1>4, <1>9 DEF Observe
  <2>2. E \subseteq apply' /\ X \subseteq remove'
    BY <1>1, <1>2, <1>9, <2>1, ObservedAll DEF E, X, pure
  <2> QED BY <2>2
<1>10. CASE \E n \in Nodes : TaintWriteFails(n)
  BY <1>1, <1>10 DEF TaintWriteFails
<1>11. ASSUME Undisturbed, UNCHANGED <<pc, copy, requeue, failed>>
       PROVE  /\ \A n \in E \ apply : OnItsWay(n)'
              /\ \A n \in X \ remove : OnItsWay(n)'
  <2>1. /\ \A n \in E \ apply : OnItsWay(n)
        /\ \A n \in X \ remove : OnItsWay(n)
    BY <1>1, <1>2, <1>4, <1>11 DEF NobodyForgotten, E, X, pure
  <2> QED BY <1>5, <2>1
<1>12. ASSUME Undisturbed, NEW n \in Nodes, TaintStep(n)
       PROVE  /\ \A m \in E \ apply' : OnItsWay(m)'
              /\ \A m \in X \ remove' : OnItsWay(m)'
  <2>1. LogsTypeOK /\ UNCHANGED <<pc, copy, requeue, failed>>
    BY <1>2, <1>12 DEF Inv, TypeOK, TaintStep, ApplyTaintTo, RemoveTaintFrom
  <2>2. /\ \A m \in E \ apply : OnItsWay(m)'
        /\ \A m \in X \ remove : OnItsWay(m)'
    BY <1>11, <1>12, <2>1
  <2>3. CASE ApplyTaintTo(n)
    <3>1. SetTaint(n, TRUE) /\ apply' = apply \ {n} /\ remove' = remove
      BY <2>3 DEF ApplyTaintTo
    <3>2. n \in E => OnItsWay(n)'
      BY <1>5, <2>1, <3>1, ActedOnItsWay
    <3> QED BY <2>2, <3>1, <3>2
  <2>4. CASE RemoveTaintFrom(n)
    <3>1. SetTaint(n, FALSE) /\ remove' = remove \ {n} /\ apply' = apply
      BY <2>4 DEF RemoveTaintFrom
    <3>2. n \in X => OnItsWay(n)'
      BY <1>5, <2>1, <3>1, ActedOnItsWay
    <3> QED BY <2>2, <3>1, <3>2
  <2> QED BY <1>12, <2>3, <2>4 DEF TaintStep
<1>13. CASE Undisturbed /\ UNCHANGED passVars
  <2>1. UNCHANGED <<pc, copy, requeue, failed>> /\ apply' = apply /\ remove' = remove
    BY <1>13 DEF passVars
  <2> QED BY <1>11, <1>13, <2>1
<1> QED BY <1>3, <1>7, <1>8, <1>9, <1>10, <1>12, <1>13 DEF SettledStep

(* A pass that is over, with nothing scheduled, has dealt with everybody. *)
LEMMA NobodyWaitsStep ==
  ASSUME ConvergeInv, SettleInv', ~WatchesBreak, [Next]_vars
  PROVE  NobodyWaits'
<1> DEFINE p    == Stored(policyLog)
           pure == projectPolicy(p.spec)
           E    == Entering(pure, CachedFacts)
           X    == Exiting(pure, CachedFacts)
<1>1. SUFFICES ASSUME Undisturbed', pc' = "idle", due' = Never,
                      Live(Stored(policyLog')), ValidSelector(Stored(policyLog').spec)
               PROVE  LET q == projectPolicy(Stored(policyLog').spec)
                      IN  \A n \in Entering(q, CachedFacts') \cup Exiting(q, CachedFacts') : OnItsWay(n)'
  BY DEF NobodyWaits
<1>2. Inv /\ Inv' /\ PassHoldsStored /\ NobodyForgotten /\ NobodyWaits
  BY DEF ConvergeInv, SettleInv
<1>3. policyLog' = policyLog /\ SettledStep
  BY <1>1, <1>2, UndisturbedStep
<1>4. Live(p) /\ ValidSelector(p.spec) /\ Stored(policyLog') = p /\ Cached(policyLog) = p
  BY <1>1, <1>3 DEF Undisturbed, Cached, Stored
<1>5. /\ Entering(pure, CachedFacts') = E
      /\ Exiting(pure, CachedFacts') = X
      /\ \A n \in E \cup X : OnItsWay(n) => OnItsWay(n)'
  BY <1>1, <1>2, <1>4, WaitersKept
<1> HIDE DEF E, X, pure
<1>6. SUFFICES \A n \in E \cup X : OnItsWay(n)
  BY <1>4, <1>5 DEF pure
<1>7. CASE StartPass \/ ObserveInvalidSpec \/ Observe \/ ListNodes
  <2>1. pc' # "idle"
    BY <1>4, <1>7 DEF StartPass, ObserveInvalidSpec, Observe, ListNodes
  <2> QED BY <1>1, <2>1
<1>8. CASE ReconcileNothing
  BY <1>4, <1>8 DEF ReconcileNothing, NothingToDo
<1>9. CASE \E n \in Nodes : TaintStep(n) \/ TaintWriteFails(n)
  <2>1. pc' = pc /\ pc # "idle"
    BY <1>9 DEF TaintStep, ApplyTaintTo, RemoveTaintFrom, TaintWriteFails
  <2> QED BY <1>1, <2>1
<1>10. CASE Undisturbed /\ WriteStatus
  <2>1. pc = "act" /\ apply = {} /\ remove = {}
    BY <1>10 DEF WriteStatus, Acted
  <2>2. copy = p
    BY <1>2, <1>10, <2>1 DEF PassHoldsStored
  <2>3. requeue = 0 /\ ~failed
    <3>1. due \in Delays \cup {Never} /\ requeue \in Delays
      BY <1>2 DEF Inv, TypeOK, PassTypeOK
    <3>2. \A d \in Delays : d # Never
      BY DEF Delays
    <3>3. ~failed
      <4>1. ~EndPass(0)
        BY <1>1, <3>1, <3>2, ZeroDelay, EndPassDue
      <4> QED BY <1>10, <4>1 DEF WriteStatus, FinishPass, EndPassWithError
    <3>4. requeue # 0 => EndPass(requeue)
      BY <1>10, <3>3 DEF WriteStatus, FinishPass
    <3>5. ~EndPass(requeue)
      BY <1>1, <3>1, <3>2, EndPassDue
    <3> QED BY <3>3, <3>4, <3>5
  <2> QED BY <1>2, <1>4, <1>10, <2>1, <2>2, <2>3 DEF NobodyForgotten, E, X, pure
<1>11. CASE Undisturbed /\ UNCHANGED passVars /\ (due' = Never => due = Never)
  <2>1. pc = "idle" /\ due = Never
    BY <1>1, <1>11 DEF passVars
  <2> QED BY <1>2, <1>4, <1>11, <2>1 DEF NobodyWaits, E, X, pure
<1> QED BY <1>3, <1>7, <1>8, <1>9, <1>10, <1>11 DEF SettledStep

(* Every step preserves the invariant when watches do not break. *)
LEMMA ConvergeStep ==
  ASSUME ConvergeInv, ~WatchesBreak, [Next]_vars
  PROVE  ConvergeInv'
<1>1. SettleInv'
  BY SettleStep DEF ConvergeInv
<1>2. NobodyForgotten' /\ NobodyWaits'
  BY <1>1, NobodyForgottenStep, NobodyWaitsStep
<1> QED BY <1>1, <1>2 DEF ConvergeInv

(* At the start every policy is queued. *)
LEMMA ConvergeInit == Init => ConvergeInv
<1> SUFFICES ASSUME Init PROVE ConvergeInv
  OBVIOUS
<1>1. PICK p : policyLog = <<p>> /\ due = IF p = NoPolicy THEN Never ELSE 0
  BY DEF Init
<1>2. Stored(policyLog) = p
  BY <1>1 DEF Stored
<1>3. ~Undisturbed
  BY <1>1, <1>2 DEF Undisturbed
<1> QED BY <1>3, SettleInit DEF ConvergeInv, NobodyForgotten, NobodyWaits

(* When nobody waits there is nothing to do, now or later. *)
LEMMA NobodyToServe ==
  ASSUME NEW p, NEW facts, NEW now, Entering(p, facts) = {}, Exiting(p, facts) = {}
  PROVE  LET d == Decide(p, facts, now)
         IN  /\ d.applyTaint = {}
             /\ d.removeTaint \cap d.selectedNodes = {}
             /\ d.requeueAfter = 0
<1>1. ApplyTaint(p, facts, now) = {}
  BY DEF ApplyTaint
<1>2. RemoveTaint(p, facts, now) = ScopedOutTainted(p, facts)
  BY DEF RemoveTaint
<1>3. RemoveTaint(p, facts, now) \cap Selected(p, facts) = {}
  BY <1>2 DEF ScopedOutTainted
<1>4. Waits(p, facts, now) = {}
  BY DEF Waits
<1>5. RequeueAfter(p, facts, now) = 0
  BY <1>4 DEF RequeueAfter, MinPositive
<1> QED BY <1>1, <1>3, <1>5 DEF Decide

(* No wake-up is lost: as long as watches do not break, when the operator  *)
(* has come to rest every node the policy selects is as the policy wants   *)
(* it, although each pass decides from caches of any age and the handler   *)
(* nodeEventHandler drops most events.  The hypothesis is needed: run      *)
(* lost_wake_up shows how the list that replaces a broken watch hides a    *)
(* change.                                                                 *)
THEOREM ConvergedAtRest == ~WatchesBreak => (Spec => []RestMeansConverged)
<1> SUFFICES ASSUME ~WatchesBreak PROVE Spec => []RestMeansConverged
  OBVIOUS
<1>1. Init => ConvergeInv
  BY ConvergeInit
<1>2. ConvergeInv /\ [Next]_vars => ConvergeInv'
  BY ConvergeStep
<1>3. ASSUME ConvergeInv PROVE RestMeansConverged
  <2> SUFFICES ASSUME Quiescent, Reconcilable
               PROVE  /\ Wanted.applyTaint = {}
                      /\ Wanted.removeTaint \cap Wanted.selectedNodes = {}
                      /\ Wanted.requeueAfter = 0
    BY DEF RestMeansConverged
  <2> DEFINE pure == projectPolicy(Stored(policyLog).spec)
  <2>1. LogsTypeOK
    BY <1>3 DEF ConvergeInv, SettleInv, Inv, TypeOK
  <2>2. Undisturbed /\ pc = "idle" /\ due = Never
    BY RestUndisturbed DEF Reconcilable, Quiescent
  <2>3. \A n \in Entering(pure, CachedFacts) \cup Exiting(pure, CachedFacts) : OnItsWay(n)
    BY <1>3, <2>2 DEF ConvergeInv, NobodyWaits, Reconcilable
  <2>4. \A n \in Nodes : ~OnItsWay(n)
    <3>1. \A i \in 1 .. 1 : i = 1
      OBVIOUS
    <3> QED BY <3>1, SameShapeReflexive, Zenon DEF Quiescent, OnItsWay, Cached
  <2>5. Entering(pure, CachedFacts) \cup Exiting(pure, CachedFacts) \subseteq Nodes
    BY <2>1, WaitingNodes
  <2>6. CachedFacts = StoredFacts
    BY <2>1, RestFacts
  <2> HIDE DEF pure
  <2>7. Entering(pure, StoredFacts) = {} /\ Exiting(pure, StoredFacts) = {}
    BY <2>3, <2>4, <2>5, <2>6
  <2>8. Wanted = Decide(pure, StoredFacts, 0)
    BY DEF Wanted, pure
  <2> QED BY <2>7, <2>8, NobodyToServe
<1> QED BY <1>1, <1>2, <1>3, PTL DEF Spec

=============================================================================
