-------------------------- MODULE OwnershipProofs --------------------------
(***************************************************************************)
(* The controller implements TaintOwnership: under the invariant of        *)
(* ReconcilerProofs every step acquires, gives notice, releases, taints or *)
(* untaints one node, or leaves both the phase and the taints alone.       *)
(***************************************************************************)
EXTENDS ReconcilerProofs

USE ReconcilerAssumption DEF Live, Holds, HasFinalizer

OwnershipStep == [Ownership!Next]_<<OwnershipPhase(Stored(policyLog)), Tainted>>

(* What is stored stays alike and no taint changes. *)
LEMMA Stutters ==
  ASSUME Alike(Stored(policyLog), Stored(policyLog')), Tainted' = Tainted
  PROVE  OwnershipStep
<1>1. OwnershipPhase(Stored(policyLog')) = OwnershipPhase(Stored(policyLog))
  BY DEF OwnershipPhase, Alike
<1>2. OwnershipPhase(Stored(policyLog))' = OwnershipPhase(Stored(policyLog'))
  BY DEF OwnershipPhase, Stored
<1> QED BY <1>1, <1>2 DEF OwnershipStep

(* The taint of one node changes. *)
LEMMA TaintChanges ==
  ASSUME UNCHANGED policyLog, NEW n \in Nodes,
         \/ Tainted' = Tainted \ {n}
         \/ Tainted' = Tainted \cup {n} /\ Holds(Stored(policyLog))
  PROVE  OwnershipStep
<1>1. UNCHANGED OwnershipPhase(Stored(policyLog))
  BY DEF OwnershipPhase, Stored
<1>2. CASE Tainted' = Tainted \ {n}
  BY <1>1, <1>2 DEF OwnershipStep, Ownership!Next, Ownership!Untaint
<1>3. CASE Tainted' = Tainted \cup {n} /\ Holds(Stored(policyLog))
  <2>1. OwnershipPhase(Stored(policyLog)) # "free"
    BY <1>3 DEF OwnershipPhase
  <2> QED BY <1>1, <1>3, <2>1 DEF OwnershipStep, Ownership!Next, Ownership!Taint
<1> QED BY <1>2, <1>3

(* The policy is written: protected, given notice, or let go. *)
LEMMA PolicyChanges ==
  ASSUME Inv, UNCHANGED nodeLog, NEW v \in PolicyVersion, policyLog' = Append(policyLog, v),
         LET p == Stored(policyLog)
         IN  \/ Alike(p, v)
             \/ ~Holds(p) /\ Holds(v) /\ ~v.deleting
             \/ Holds(p) /\ ~p.deleting /\ Holds(v) /\ v.deleting
             \/ Holds(p) /\ p.deleting /\ ~Holds(v) /\ Tainted = {}
  PROVE  OwnershipStep
<1> DEFINE p == Stored(policyLog)
<1>1. Stored(policyLog') = v
  BY LogAppend DEF Inv, TypeOK, LogsTypeOK, PolicyVersion
<1>2. Tainted' = Tainted
  BY DEF Tainted, Exists
<1>3. OwnershipPhase(p)' = OwnershipPhase(v)
  BY <1>1 DEF OwnershipPhase, Stored
<1>4. CASE Alike(p, v)
  BY <1>1, <1>2, <1>4, Stutters
<1>5. CASE ~Holds(p) /\ Holds(v) /\ ~v.deleting
  <2>1. OwnershipPhase(p) = "free" /\ OwnershipPhase(v) = "owned"
    BY <1>5 DEF OwnershipPhase
  <2> QED BY <1>2, <1>3, <2>1 DEF OwnershipStep, Ownership!Next, Ownership!Acquire
<1>6. CASE Holds(p) /\ ~p.deleting /\ Holds(v) /\ v.deleting
  <2>1. OwnershipPhase(p) = "owned" /\ OwnershipPhase(v) = "releasing"
    BY <1>6 DEF OwnershipPhase
  <2> QED BY <1>2, <1>3, <2>1 DEF OwnershipStep, Ownership!Next, Ownership!GiveNotice
<1>7. CASE Holds(p) /\ p.deleting /\ ~Holds(v) /\ Tainted = {}
  <2>1. OwnershipPhase(p) = "releasing" /\ OwnershipPhase(v) = "free"
    BY <1>7 DEF OwnershipPhase
  <2> QED BY <1>2, <1>3, <1>7, <2>1 DEF OwnershipStep, Ownership!Next, Ownership!Release
<1> QED BY <1>4, <1>5, <1>6, <1>7

(* Neither object is written. *)
LEMMA NothingWritten ==
  ASSUME UNCHANGED <<policyLog, nodeLog>>
  PROVE  OwnershipStep
<1>1. Tainted' = Tainted
  BY DEF Tainted, Exists
<1>2. Alike(Stored(policyLog), Stored(policyLog'))
  BY DEF Alike
<1> QED BY <1>1, <1>2, Stutters

-----------------------------------------------------------------------------
(* The worker. *)

(* The Update that adds the finalizer: its lock says that the stored       *)
(* policy is the copy, which is live.                                      *)
LEMMA AddFinalizerOwns ==
  ASSUME Inv, AddFinalizer \/ AddFinalizerUnacknowledged
  PROVE  OwnershipStep
<1> DEFINE v == WithFinalizer(copy)
<1>1. /\ pc = "addFinalizer" /\ current /\ UNCHANGED nodeLog
      /\ policyLog' = Append(policyLog, v)
  BY DEF AddFinalizer, AddFinalizerUnacknowledged, StorePolicy
<1>2. copy \in PolicyObject /\ ~copy.deleting /\ policyLog = <<copy>>
  BY <1>1 DEF Inv, TypeOK, PassTypeOK, BranchFollowsCopy, LockMeansNoLag
<1>3. Stored(policyLog) = copy
  BY <1>2, LogSingleton
<1>4. v \in PolicyObject /\ HasFinalizer(v) /\ v.deleting = copy.deleting
  BY <1>2, WithFinalizerType, UpdatedType DEF WithFinalizer, PolicyObject
<1>5. v \in PolicyVersion /\ v # NoPolicy
  BY <1>4 DEF PolicyVersion
<1> HIDE DEF v
<1> QED BY <1>1, <1>2, <1>3, <1>4, <1>5, PolicyChanges DEF Alike

(* The Update that removes it: the copy is being deleted and the cleanup   *)
(* has left no taint.                                                      *)
LEMMA RemoveFinalizerOwns ==
  ASSUME Inv, RemoveFinalizer \/ RemoveFinalizerUnacknowledged
  PROVE  OwnershipStep
<1> DEFINE v    == Released(copy)
           left == copy.finalizers \ {taintCleanupFinalizer}
           w    == [Updated(copy) EXCEPT !.finalizers = left]
<1>1. /\ pc = "cleanup" /\ remove = {} /\ ~failed /\ current /\ UNCHANGED nodeLog
      /\ policyLog' = Append(policyLog, v)
  BY DEF RemoveFinalizer, RemoveFinalizerUnacknowledged, CleanedUp, StorePolicy
<1>2. copy \in PolicyObject /\ copy.deleting /\ policyLog = <<copy>>
  BY <1>1 DEF Inv, TypeOK, PassTypeOK, BranchFollowsCopy, LockMeansNoLag
<1>3. Stored(policyLog) = copy
  BY <1>2, LogSingleton
<1>4. Tainted = {}
  BY <1>1 DEF Inv, CleanupCoversTaints
<1>5. v \in PolicyVersion /\ ~Holds(v)
  <2>1. left \in SUBSET Finalizers
    BY <1>2 DEF PolicyObject
  <2>2. w \in PolicyObject /\ w.finalizers = left
    <3>1. Updated(copy) \in PolicyObject
      BY <1>2, UpdatedType
    <3> HIDE DEF left
    <3> QED BY <2>1, <3>1 DEF PolicyObject
  <2>3. v = IF left = {} THEN NoPolicy ELSE w
    BY DEF Released
  <2> HIDE DEF v, w
  <2> QED BY <2>2, <2>3 DEF PolicyVersion
<1> HIDE DEF v
<1> QED BY <1>1, <1>2, <1>3, <1>4, <1>5, PolicyChanges DEF Alike

(* A status patch changes neither the finalizers nor the deletion. *)
LEMMA StatusStepOwns ==
  ASSUME Inv, StatusStep
  PROVE  OwnershipStep
<1>1. pc = "act" /\ UNCHANGED nodeLog /\ (UNCHANGED policyLog \/ StorePatchedStatus)
  BY DEF StatusStep, WriteStatus, WriteStatusFails, Acted
<1>2. copy \in PolicyObject
  BY <1>1 DEF Inv, TypeOK, PassTypeOK
<1>3. CASE UNCHANGED policyLog
  BY <1>1, <1>3, NothingWritten
<1>4. CASE \E v \in PolicyVersion : /\ policyLog' = Append(policyLog, v)
                                    /\ Alike(Stored(policyLog), v)
  BY <1>1, <1>4, PolicyChanges
<1> QED BY <1>1, <1>2, <1>3, <1>4, StorePatchedStatusEffect

(* A taint is written only by a pass that acts, under the finalizer. *)
LEMMA SetTaintOwns ==
  ASSUME Inv, NEW n \in Nodes, NEW value \in BOOLEAN, SetTaint(n, value),
         value => pc = "act", UNCHANGED policyLog
  PROVE  OwnershipStep
<1>1. CASE UNCHANGED nodeLog
  BY <1>1, NothingWritten
<1>2. CASE \E v \in NodeVersion : /\ nodeLog' = [nodeLog EXCEPT ![n] = Append(@, v)]
                                  /\ v # NoNode /\ v.hasTaint = value
  <2>1. Tainted' = IF value THEN Tainted \cup {n} ELSE Tainted \ {n}
    BY <1>2, NodeAppendEffect DEF Inv, TypeOK
  <2>2. value => Holds(Stored(policyLog))
    BY DEF Inv, ActingPassHeld
  <2> QED BY <2>1, <2>2, TaintChanges
<1> QED BY <1>1, <1>2, SetTaintEffect DEF Inv, TypeOK

(* The taint writes of a pass, acknowledged or not. *)
LEMMA TaintStepOwns ==
  ASSUME Inv, NEW n \in Nodes, TaintStep(n) \/ TaintWriteFails(n)
  PROVE  OwnershipStep
<1>1. CASE ApplyTaintTo(n)
  BY <1>1, SetTaintOwns DEF ApplyTaintTo
<1>2. CASE RemoveTaintFrom(n)
  BY <1>2, SetTaintOwns DEF RemoveTaintFrom
<1>3. CASE TaintWriteFails(n)
  <2>1. UNCHANGED policyLog /\ (UNCHANGED nodeLog \/ SetTaint(n, n \in apply))
    BY <1>3 DEF TaintWriteFails
  <2>2. (n \in apply) \in BOOLEAN /\ (n \in apply => pc = "act")
    BY DEF Inv, BranchFollowsCopy
  <2>3. CASE UNCHANGED nodeLog
    BY <2>1, <2>3, NothingWritten
  <2> QED BY <2>1, <2>2, <2>3, SetTaintOwns
<1> QED BY <1>1, <1>2, <1>3 DEF TaintStep

(* The remaining steps of a pass read, decide or give up. *)
LEMMA WorkerOwns ==
  ASSUME Inv, WorkerStep
  PROVE  OwnershipStep
<1>1. CASE \/ ReconcileNothing \/ StartPass \/ ObserveInvalidSpec \/ Observe \/ ListNodes
           \/ CleanupFailed \/ UpdateConflicts \/ RequestFails
  <2>1. UNCHANGED <<policyLog, nodeLog>>
    BY <1>1 DEF ReconcileNothing, StartPass, ObserveInvalidSpec, Observe, ListNodes,
       CleanupFailed, UpdateConflicts, RequestFails
  <2> QED BY <2>1, NothingWritten
<1> QED BY <1>1, AddFinalizerOwns, RemoveFinalizerOwns, StatusStepOwns, TaintStepOwns
  DEF WorkerStep, QuietStep

-----------------------------------------------------------------------------
(* Informers, restarts, clocks. *)

(* What the caches show is nobody's business. *)
LEMMA CachesOwn ==
  ASSUME Inv, \/ DeliverPolicy \/ RelistPolicy \/ RelistNodes \/ Restart \/ Tick
              \/ \E n \in Nodes : DeliverNode(n)
  PROVE  OwnershipStep
<1> USE DEF Alike
<1>1. CASE DeliverPolicy
  <2>1. UNCHANGED nodeLog /\ Len(policyLog) > 1 /\ policyLog' = Tail(policyLog)
    BY <1>1 DEF DeliverPolicy
  <2>2. Stored(policyLog') = Stored(policyLog)
    BY <2>1, LogTail DEF Inv, TypeOK, LogsTypeOK
  <2>3. Tainted' = Tainted
    BY <2>1 DEF Tainted, Exists
  <2> QED BY <2>2, <2>3, Stutters
<1>2. CASE RelistPolicy
  <2>1. UNCHANGED nodeLog /\ policyLog' = <<Stored(policyLog)>>
    BY <1>2 DEF RelistPolicy
  <2>2. Stored(policyLog') = Stored(policyLog)
    BY <2>1, Relisted DEF Inv, TypeOK
  <2>3. Tainted' = Tainted
    BY <2>1 DEF Tainted, Exists
  <2> QED BY <2>2, <2>3, Stutters
<1>3. CASE RelistNodes
  <2>1. UNCHANGED policyLog /\ nodeLog' = [n \in Nodes |-> <<Stored(nodeLog[n])>>]
    BY <1>3 DEF RelistNodes
  <2> QED BY <2>1, NodesRelisted, Stutters DEF Inv, TypeOK
<1>4. CASE Restart
  <2>1. /\ policyLog' = <<Stored(policyLog)>>
        /\ nodeLog' = [n \in Nodes |-> <<Stored(nodeLog[n])>>]
    BY <1>4 DEF Restart
  <2>2. Stored(policyLog') = Stored(policyLog)
    BY <2>1, Relisted DEF Inv, TypeOK
  <2>3. Tainted' = Tainted
    BY <2>1, NodesRelisted DEF Inv, TypeOK
  <2> QED BY <2>2, <2>3, Stutters
<1>5. CASE Tick
  <2>1. UNCHANGED policyLog
    BY <1>5 DEF Tick
  <2> QED BY <1>5, <2>1, TickEffect, Stutters
<1>6. ASSUME NEW n \in Nodes, DeliverNode(n) PROVE OwnershipStep
  <2>1. UNCHANGED policyLog
    BY <1>6 DEF DeliverNode
  <2> QED BY <1>6, <2>1, DeliverNodeEffect, Stutters
<1> QED BY <1>1, <1>2, <1>3, <1>4, <1>5, <1>6

-----------------------------------------------------------------------------
(* Everybody else. *)

(* Creations and edits leave the finalizer and the deletion alone. *)
LEMMA PolicyEditOwns ==
  ASSUME Inv, CreatePolicy \/ EditSpec \/ EditStatus
  PROVE  OwnershipStep
<1> DEFINE p == Stored(policyLog)
<1> SUFFICES \E v \in PolicyVersion : PolicyUpdate(v) /\ Alike(p, v)
  BY PolicyChanges DEF PolicyUpdate, StorePolicy
<1>1. p \in PolicyVersion
  BY StoredTypes DEF Inv, TypeOK
<1>2. CASE CreatePolicy
  BY <1>2, NewPolicyType DEF CreatePolicy, PolicyVersion, Alike
<1>3. CASE EditSpec
  <2>1. PICK s \in Specs : PolicyUpdate([p EXCEPT !.spec = s, !.generation = @ + 1])
    BY <1>3 DEF EditSpec
  <2> DEFINE g == p.generation + 1
             v == [p EXCEPT !.spec = s, !.generation = g]
  <2>2. p \in PolicyObject
    BY <1>1, <1>3 DEF EditSpec, PolicyVersion
  <2>3. v \in PolicyObject /\ v.finalizers = p.finalizers /\ v.deleting = p.deleting
    <3>1. g \in Nat
      BY <2>2 DEF PolicyObject
    <3> HIDE DEF p, g
    <3> QED BY <2>2, <3>1 DEF PolicyObject, StoredSpecs
  <2>4. PolicyUpdate(v)
    BY <2>1
  <2> HIDE DEF p, v
  <2> QED BY <2>2, <2>3, <2>4 DEF PolicyVersion, Alike
<1>4. CASE EditStatus
  <2> DEFINE v == [p EXCEPT !.status = EmptyStatus]
  <2>1. p \in PolicyObject /\ PolicyUpdate(v)
    BY <1>1, <1>4 DEF EditStatus, PolicyVersion
  <2>2. v \in PolicyObject /\ v.finalizers = p.finalizers /\ v.deleting = p.deleting
    <3> HIDE DEF p
    <3> QED BY <2>1, EmptyStatusType DEF PolicyObject
  <2> HIDE DEF p, v
  <2> QED BY <2>1, <2>2 DEF PolicyVersion, Alike
<1> QED BY <1>2, <1>3, <1>4

(* A delete gives notice to a protected policy. *)
LEMMA DeletePolicyOwns ==
  ASSUME Inv, DeletePolicy
  PROVE  OwnershipStep
<1> DEFINE p == Stored(policyLog)
<1>1. p \in PolicyObject /\ ~p.deleting
  BY StoredTypes DEF DeletePolicy, PolicyVersion, Inv, TypeOK
<1>2. PICK foreground \in SUBSET {foregroundDeletion} :
        LET kept == p.finalizers \cup foreground
        IN  PolicyUpdate(IF kept = {} THEN NoPolicy
                         ELSE [p EXCEPT !.deleting = TRUE, !.finalizers = kept, !.generation = @ + 1])
  BY DEF DeletePolicy
<1> DEFINE kept == p.finalizers \cup foreground
           g    == p.generation + 1
           w    == [p EXCEPT !.deleting = TRUE, !.finalizers = kept, !.generation = g]
           v    == IF kept = {} THEN NoPolicy ELSE w
<1>3. kept \in SUBSET Finalizers /\ g \in Nat
  BY <1>1 DEF PolicyObject, Finalizers
<1>4. w \in PolicyObject /\ w.finalizers = kept /\ w.deleting
  <2> HIDE DEF p, kept, g
  <2> QED BY <1>1, <1>3 DEF PolicyObject
<1>5. taintCleanupFinalizer \in kept <=> HasFinalizer(p)
  BY DEF taintCleanupFinalizer, foregroundDeletion
<1>6. v \in PolicyVersion /\ (Holds(p) <=> Holds(v)) /\ (Holds(v) => v.deleting)
  <2> HIDE DEF p, w
  <2> QED BY <1>1, <1>4, <1>5 DEF PolicyVersion
<1>7. UNCHANGED nodeLog /\ policyLog' = Append(policyLog, v)
  BY <1>2 DEF PolicyUpdate, StorePolicy
<1> HIDE DEF v
<1> QED BY <1>1, <1>6, <1>7, PolicyChanges DEF Alike

(* The garbage collector takes off only its own finalizer. *)
LEMMA CollectGarbageOwns ==
  ASSUME Inv, CollectGarbage
  PROVE  OwnershipStep
<1> DEFINE p    == Stored(policyLog)
           left == p.finalizers \ {foregroundDeletion}
           w    == [p EXCEPT !.finalizers = left]
           v    == IF left = {} THEN NoPolicy ELSE w
<1>1. p \in PolicyObject /\ PolicyUpdate(v)
  BY StoredTypes DEF CollectGarbage, PolicyVersion, Inv, TypeOK
<1>2. left \in SUBSET Finalizers
  BY <1>1 DEF PolicyObject
<1>3. w \in PolicyObject /\ w.finalizers = left /\ w.deleting = p.deleting
  <2> HIDE DEF p, left
  <2> QED BY <1>1, <1>2 DEF PolicyObject
<1>4. taintCleanupFinalizer \in left <=> HasFinalizer(p)
  BY DEF taintCleanupFinalizer, foregroundDeletion
<1>5. v \in PolicyVersion /\ Alike(p, v)
  <2> HIDE DEF p, w
  <2> QED BY <1>1, <1>3, <1>4 DEF PolicyVersion, Alike
<1>6. UNCHANGED nodeLog /\ policyLog' = Append(policyLog, v)
  BY <1>1 DEF PolicyUpdate, StorePolicy
<1> HIDE DEF v
<1> QED BY <1>5, <1>6, PolicyChanges

(* Somebody else writes a node and adds no taint. *)
LEMMA NodeUpdateOwns ==
  ASSUME Inv, NEW n \in Nodes, NEW v \in NodeVersion, NodeUpdate(n, v),
         v # NoNode /\ v.hasTaint => n \in Tainted
  PROVE  OwnershipStep
<1>1. UNCHANGED policyLog /\ nodeLog' = [nodeLog EXCEPT ![n] = Append(@, v)]
  BY DEF NodeUpdate, StoreNode
<1>2. CASE v # NoNode /\ v.hasTaint
  <2>1. Tainted' = Tainted \cup {n} /\ Tainted # {}
    BY <1>1, <1>2, NodeAppendEffect DEF Inv, TypeOK
  <2>2. Holds(Stored(policyLog))
    BY <2>1 DEF Inv, NoStrandedTaint
  <2> QED BY <1>1, <2>1, <2>2, TaintChanges
<1>3. CASE ~(v # NoNode /\ v.hasTaint)
  <2>1. Tainted' = Tainted \ {n}
    BY <1>1, <1>3, NodeAppendEffect DEF Inv, TypeOK
  <2> QED BY <1>1, <2>1, TaintChanges
<1> QED BY <1>2, <1>3

(* Users, detectors, the garbage collector and the node lifecycle. *)
LEMMA EnvironmentOwns ==
  ASSUME Inv, EnvironmentStep
  PROVE  OwnershipStep
<1>1. ASSUME NEW n \in Nodes, NodeChange(n)
      PROVE  OwnershipStep
  <2>1. PICK v \in NodeVersion : NodeUpdate(n, v) /\ (v # NoNode /\ v.hasTaint => n \in Tainted)
    BY <1>1, NodeEdited, NodeReplaced DEF NodeChange
  <2> QED BY <2>1, NodeUpdateOwns
<1> QED BY <1>1, PolicyEditOwns, DeletePolicyOwns, CollectGarbageOwns DEF EnvironmentStep

-----------------------------------------------------------------------------

(* Nothing is protected at first and no node is tainted. *)
LEMMA InitOwns == Init => Ownership!Init
<1> SUFFICES ASSUME Init PROVE Ownership!Init
  OBVIOUS
<1>1. PICK p \in {NewPolicy(s) : s \in Specs} \cup {NoPolicy} : policyLog = <<p>>
  BY DEF Init
<1>2. p \in PolicyVersion /\ ~Holds(p)
  BY <1>1, NewPolicyType DEF PolicyVersion
<1>3. Stored(policyLog) = p
  BY <1>1, <1>2, LogSingleton DEF PolicyVersion
<1>4. OwnershipPhase(Stored(policyLog)) = "free"
  BY <1>2, <1>3 DEF OwnershipPhase
<1>5. Tainted = {}
  BY <1>2, <1>3, InitInv DEF Inv, NoStrandedTaint
<1> QED BY <1>4, <1>5 DEF Ownership!Init

(* Every step of the controller and of the cluster. *)
LEMMA StepOwns == Inv /\ [Next]_vars => OwnershipStep
<1> SUFFICES ASSUME Inv, [Next]_vars PROVE OwnershipStep
  OBVIOUS
<1>1. CASE UNCHANGED vars
  BY <1>1, NothingWritten DEF vars
<1> QED BY <1>1, WorkerOwns, CachesOwn, EnvironmentOwns DEF Next, ClusterStep

(* The controller implements TaintOwnership: no stale copy, lost reply,    *)
(* restart or broken watch makes a pass taint a node of an unprotected     *)
(* policy or let a policy go before its last node is clean, for any nodes, *)
(* specs, lag and number of faults.                                        *)
THEOREM ControllerOwnsTaints == Spec => ImplementsOwnership
<1>1. Init => Ownership!Init
  BY InitOwns
<1>2. Inv /\ [Next]_vars => [Ownership!Next]_<<OwnershipPhase(Stored(policyLog)), Tainted>>
  BY StepOwns DEF OwnershipStep
<1> QED BY <1>1, <1>2, InvHolds, PTL DEF Spec, ImplementsOwnership, Ownership!Spec

=============================================================================
