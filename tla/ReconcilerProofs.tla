-------------------------- MODULE ReconcilerProofs --------------------------
(***************************************************************************)
(* Proofs about Reconciler, for any nodes, labels and specs, any lag of    *)
(* the caches and any number of changes and faults.                        *)
(***************************************************************************)
EXTENDS Reconciler, RemediationProofs, SequenceTheorems

-----------------------------------------------------------------------------
(* Logs: a write appends, a watch event drops the first version.           *)

(* A write keeps what the cache shows and becomes what is stored. *)
LEMMA LogAppend ==
  ASSUME NEW S, NEW log \in Seq(S), NEW v \in S
  PROVE  /\ Append(log, v) \in Seq(S)
         /\ Append(log, v) # << >>
         /\ Stored(Append(log, v)) = v
         /\ Len(Append(log, v)) = Len(log) + 1
         /\ \A i \in 1 .. Len(Append(log, v)) :
              Append(log, v)[i] = IF i <= Len(log) THEN log[i] ELSE v
  BY AppendProperties DEF Stored

(* A watch event keeps what is stored. *)
LEMMA LogTail ==
  ASSUME NEW S, NEW log \in Seq(S), Len(log) > 1
  PROVE  /\ Tail(log) \in Seq(S)
         /\ Tail(log) # << >>
         /\ Stored(Tail(log)) = Stored(log)
         /\ Len(Tail(log)) = Len(log) - 1
         /\ \A i \in 1 .. Len(Tail(log)) : Tail(log)[i] = log[i + 1]
<1>1. /\ Tail(log) \in Seq(S)
      /\ Len(Tail(log)) = Len(log) - 1
      /\ \A i \in 1 .. Len(Tail(log)) : Tail(log)[i] = log[i + 1]
  BY HeadTailProperties
<1>2. Len(log) \in Nat /\ Len(Tail(log)) \in 1 .. Len(Tail(log))
  BY <1>1
<1>3. Tail(log)[Len(Tail(log))] = log[Len(log)]
  BY <1>1, <1>2
<1>4. Tail(log) # << >>
  <2>1. Len(<< >>) = 0
    OBVIOUS
  <2>2. Len(Tail(log)) # 0
    BY <1>1, <1>2
  <2> QED BY <2>1, <2>2, Zenon
<1> QED BY <1>1, <1>3, <1>4 DEF Stored

(* Both ends of a log are versions of the object. *)
LEMMA LogStored ==
  ASSUME NEW S, NEW log \in Seq(S), log # << >>
  PROVE  /\ Len(log) \in Nat \ {0}
         /\ Cached(log) \in S
         /\ Stored(log) \in S
         /\ Len(log) = 1 => Cached(log) = Stored(log)
  BY DEF Cached, Stored

(* A list leaves a single version, cached and stored. *)
LEMMA LogSingleton ==
  ASSUME NEW S, NEW v \in S
  PROVE  /\ <<v>> \in Seq(S)
         /\ <<v>> # << >>
         /\ Len(<<v>>) = 1
         /\ Stored(<<v>>) = v
         /\ Cached(<<v>>) = v
  BY DEF Cached, Stored

-----------------------------------------------------------------------------
(* Types of the operators. *)

USE ReconcilerAssumption DEF Live, Holds, HasFinalizer

(* A pass may be queued at once. *)
LEMMA ZeroDelay == 0 \in Delays
  BY DEF Delays

(* The status of a new policy is a status. *)
LEMMA EmptyStatusType == EmptyStatus \in Status
  BY DEF EmptyStatus, Status, RemediatingCondition, Reasons

(* The earlier of two deadlines is one of them. *)
LEMMA SoonerType ==
  ASSUME NEW d \in Delays \cup {Never}, NEW e \in Delays \cup {Never}
  PROVE  Sooner(d, e) \in Delays \cup {Never}
  BY DEF Sooner

(* A merge patch of one status onto another gives a status. *)
LEMMA MergedType ==
  ASSUME NEW s \in Status, NEW old \in Status, NEW new \in Status
  PROVE  Merged(s, old, new) \in Status
  BY DEF Merged, Status

(* Each Mark function sets a condition with a known reason. *)
LEMMA MarkType ==
  ASSUME NEW p \in PolicyObject, NEW r \in Reasons, NEW k \in Nat
  PROVE  Mark(p, r, k) \in RemediatingCondition
  BY DEF Mark, RemediatingCondition, PolicyObject

(* A policy that was just created is not protected yet. *)
LEMMA NewPolicyType ==
  ASSUME NEW s \in Specs
  PROVE  NewPolicy(s) \in PolicyObject /\ ~HasFinalizer(NewPolicy(s))
<1>1. {} \in SUBSET Finalizers
  OBVIOUS
<1>2. EmptyStatus \in Status
  BY EmptyStatusType
<1> QED BY <1>1, <1>2 DEF NewPolicy, PolicyObject, StoredSpecs

(* Changing one field of a policy gives a policy. *)
LEMMA PolicyExceptType ==
  ASSUME NEW p \in PolicyObject
  PROVE  /\ \A f \in SUBSET Finalizers : [p EXCEPT !.finalizers = f] \in PolicyObject
         /\ \A s \in Status : [p EXCEPT !.status = s] \in PolicyObject
         /\ \A s \in StoredSpecs, g \in Nat :
              [p EXCEPT !.spec = s, !.generation = g] \in PolicyObject
         /\ \A f \in SUBSET Finalizers, g \in Nat :
              [p EXCEPT !.deleting = TRUE, !.finalizers = f, !.generation = g] \in PolicyObject
  BY DEF PolicyObject

(* Filling in the defaults a second time changes nothing. *)
LEMMA WrittenBackTwice ==
  ASSUME NEW s
  PROVE  WrittenBack(WrittenBack(s)) = WrittenBack(s)
  BY DEF WrittenBack, OrDefault

(* An Update of the operator moves the spec and the generation, no more. *)
LEMMA UpdatedType ==
  ASSUME NEW p \in PolicyObject
  PROVE  /\ Updated(p) \in PolicyObject
         /\ Updated(p).finalizers = p.finalizers
         /\ Updated(p).deleting = p.deleting
<1>1. WrittenBack(p.spec) \in StoredSpecs
  BY WrittenBackTwice DEF PolicyObject, StoredSpecs
<1> DEFINE g == IF WrittenBack(p.spec) = p.spec THEN p.generation ELSE p.generation + 1
<1>2. g \in Nat
  BY DEF PolicyObject
<1>3. Updated(p) = [p EXCEPT !.spec = WrittenBack(p.spec), !.generation = g]
  BY DEF Updated, PolicyObject
<1> HIDE DEF g
<1>4. Updated(p) \in PolicyObject
  <2> DEFINE w == WrittenBack(p.spec)
  <2> HIDE DEF w
  <2>1. [p EXCEPT !.spec = w, !.generation = g] \in PolicyObject
    BY <1>1, <1>2, PolicyExceptType, Zenon DEF w
  <2> QED BY <1>3, <2>1 DEF w
<1> QED BY <1>3, <1>4 DEF PolicyObject

(* The facts a pass gathers. *)
LEMMA CachedFactsType ==
  ASSUME LogsTypeOK
  PROVE  /\ DOMAIN CachedFacts \subseteq Nodes
         /\ \A n \in DOMAIN CachedFacts :
              /\ CachedFacts[n].lastTransition \in Int
              /\ CachedFacts[n].lastTransition <= MaxSkew
<1>1. \A n \in Nodes : Cached(nodeLog[n]) \in NodeObject \cup {NoNode}
  BY LogStored DEF LogsTypeOK
<1>2. \A v \in NodeObject : v.lastTransition \in Int /\ v.lastTransition <= MaxSkew
  BY ZeroTimeAssumption DEF NodeObject, Timestamps
<1> QED BY <1>1, <1>2 DEF CachedFacts

(* What writeStatus projects is a status. *)
LEMMA ProjectedStatusType ==
  ASSUME NEW p \in PolicyObject, NEW d, \A f \in ListNames : d[f] \in SUBSET Nodes
  PROVE  ProjectedStatus(p, d) \in Status
<1>1. \A f \in ListNames : Cardinality(d[f]) \in Nat
  BY FS_Subset, FS_CardinalityType
<1>2. ProjectedCondition(p, d) \in RemediatingCondition
  <2>1. /\ Cardinality(d["remediatedNodes"]) \in Nat
        /\ Cardinality(d["pendingNodes"]) \in Nat
        /\ Cardinality(d["heldMissingTimestamp"]) + Cardinality(d["unknownNodes"]) \in Nat
    BY <1>1 DEF ListNames
  <2>2. /\ Mark(p, "GuardTripped", Cardinality(d["remediatedNodes"])) \in RemediatingCondition
        /\ Mark(p, "NodesRemediated", Cardinality(d["remediatedNodes"])) \in RemediatingCondition
        /\ Mark(p, "Pending", Cardinality(d["pendingNodes"])) \in RemediatingCondition
        /\ Mark(p, "Held", Cardinality(d["heldMissingTimestamp"]) + Cardinality(d["unknownNodes"]))
             \in RemediatingCondition
        /\ Mark(p, "NoRemediation", 0) \in RemediatingCondition
    BY <2>1, MarkType DEF Reasons
  <2> HIDE DEF Mark
  <2> QED BY <2>2 DEF ProjectedCondition
<1>3. [f \in ListNames |-> d[f]] \in [ListNames -> SUBSET Nodes]
  OBVIOUS
<1>4. [f \in ListNames |-> Cardinality(d[f])] \in [ListNames -> Nat]
  BY <1>1
<1> QED BY <1>2, <1>3, <1>4 DEF ProjectedStatus, Status

(* What a pass decides from the cache. *)
LEMMA ObservedType ==
  ASSUME LogsTypeOK, copy \in PolicyObject
  PROVE  LET d == Decide(projectPolicy(copy.spec), CachedFacts, 0)
         IN  /\ d.applyTaint \in SUBSET Nodes
             /\ d.removeTaint \in SUBSET Nodes
             /\ d.requeueAfter \in Delays
             /\ ProjectedStatus(copy, d) \in Status
<1> DEFINE pure == projectPolicy(copy.spec)
<1> DEFINE d == Decide(pure, CachedFacts, 0)
<1>1. /\ pure.debounceEnter \in Int /\ pure.debounceExit \in Int
      /\ pure.debounceEnter <= Horizon /\ pure.debounceExit <= Horizon
  BY DEF PolicyObject
<1> HIDE DEF pure
<1>2. /\ d.applyTaint \subseteq Nodes
      /\ d.removeTaint \subseteq Nodes
      /\ d.requeueAfter \in Nat
      /\ d.selectedNodes \subseteq Nodes
      /\ d.matchedNodes \subseteq Nodes
      /\ d.pendingNodes \subseteq Nodes
      /\ d.unknownNodes \subseteq Nodes
      /\ d.heldMissingTimestamp \subseteq Nodes
      /\ d.remediatedNodes \subseteq Nodes
  <2>1. 0 \in Int
    OBVIOUS
  <2>2. /\ DOMAIN CachedFacts \subseteq Nodes
        /\ \A n \in DOMAIN CachedFacts : CachedFacts[n].lastTransition \in Int
    BY CachedFactsType
  <2> QED BY <1>1, <2>1, <2>2, DecideType, Zenon
<1>3. \A f \in ListNames : d[f] \in SUBSET Nodes
  <2> HIDE DEF d
  <2> QED BY <1>2 DEF ListNames
<1>4. ProjectedStatus(copy, d) \in Status
  <2> HIDE DEF d
  <2> QED BY <1>3, ProjectedStatusType
<1>5. d.requeueAfter \in Delays
  <2>1. RequeueAfter(pure, CachedFacts, 0) <= Horizon + MaxSkew
    BY <1>1, CachedFactsType, RequeueBound
  <2>2. d.requeueAfter <= Horizon + MaxSkew
    BY <2>1 DEF Decide
  <2> HIDE DEF d
  <2> QED BY <1>2, <2>2 DEF Delays
<1> QED BY <1>2, <1>4, <1>5 DEF pure

-----------------------------------------------------------------------------
(* What the writes do to the taints and to the versions that are shown.    *)

PolicyVersion == PolicyObject \cup {NoPolicy}
NodeVersion   == NodeObject \cup {NoNode}

(* The finalizer protocol does not tell two versions apart. *)
Alike(p, v) == /\ Holds(p) <=> Holds(v)
               /\ Holds(p) => v.deleting = p.deleting

(* What is stored is a version of the object. *)
LEMMA StoredTypes ==
  ASSUME LogsTypeOK
  PROVE  /\ Stored(policyLog) \in PolicyVersion
         /\ Cached(policyLog) \in PolicyVersion
         /\ \A n \in Nodes : Stored(nodeLog[n]) \in NodeVersion
  BY LogStored DEF LogsTypeOK, PolicyVersion, NodeVersion

(* A node write decides whether that node is tainted, and no other. *)
LEMMA NodeAppendEffect ==
  ASSUME LogsTypeOK, NEW n \in Nodes, NEW v \in NodeVersion,
         nodeLog' = [nodeLog EXCEPT ![n] = Append(@, v)]
  PROVE  /\ nodeLog' \in [Nodes -> Seq(NodeObject \cup {NoNode})]
         /\ \A m \in Nodes : nodeLog'[m] # << >>
         /\ v # NoNode /\ v.hasTaint => Tainted' = Tainted \cup {n}
         /\ ~(v # NoNode /\ v.hasTaint) => Tainted' = Tainted \ {n}
<1>1. /\ Append(nodeLog[n], v) \in Seq(NodeObject \cup {NoNode})
      /\ Append(nodeLog[n], v) # << >>
      /\ Stored(Append(nodeLog[n], v)) = v
  BY LogAppend DEF LogsTypeOK, NodeVersion
<1>2. /\ nodeLog'[n] = Append(nodeLog[n], v)
      /\ \A m \in Nodes \ {n} : nodeLog'[m] = nodeLog[m]
  BY DEF LogsTypeOK
<1>3. /\ nodeLog' \in [Nodes -> Seq(NodeObject \cup {NoNode})]
      /\ \A m \in Nodes : nodeLog'[m] # << >>
  BY <1>1 DEF LogsTypeOK
<1>4. /\ Stored(nodeLog'[n]) = v
      /\ \A m \in Nodes \ {n} : Stored(nodeLog'[m]) = Stored(nodeLog[m])
  BY <1>1, <1>2
<1> QED BY <1>3, <1>4 DEF Tainted, Exists

(* Without a node write the tainted nodes stay the same. *)
LEMMA TaintedUnchanged ==
  ASSUME \A n \in Nodes : Stored(nodeLog'[n]) = Stored(nodeLog[n])
  PROVE  Tainted' = Tainted
  BY DEF Tainted, Exists

(* A policy write that keeps the finalizer keeps every shown promise. *)
LEMMA PolicyAppendEffect ==
  ASSUME LogsTypeOK, ShownVersionsHeld, NEW v \in PolicyVersion,
         policyLog' = Append(policyLog, v),
         Holds(Stored(policyLog)) => Holds(v)
  PROVE  /\ policyLog' \in Seq(PolicyObject \cup {NoPolicy}) /\ policyLog' # << >>
         /\ Stored(policyLog') = v
         /\ ShownVersionsHeld'
<1>1. /\ policyLog' \in Seq(PolicyObject \cup {NoPolicy}) /\ policyLog' # << >>
      /\ Stored(policyLog') = v
      /\ Len(policyLog') = Len(policyLog) + 1
      /\ \A i \in 1 .. Len(policyLog') :
           policyLog'[i] = IF i <= Len(policyLog) THEN policyLog[i] ELSE v
  BY LogAppend DEF LogsTypeOK, PolicyVersion
<1>2. Len(policyLog) \in Nat
  BY DEF LogsTypeOK
<1>3. ASSUME NEW i \in 1 .. Len(policyLog'), Live(policyLog'[i]), HasFinalizer(policyLog'[i])
      PROVE  Holds(v)
  <2>1. CASE i <= Len(policyLog)
    <3>1. i \in 1 .. Len(policyLog) /\ policyLog'[i] = policyLog[i]
      BY <1>1, <1>2, <2>1
    <3> QED BY <1>3, <3>1 DEF ShownVersionsHeld
  <2>2. CASE ~(i <= Len(policyLog))
    BY <1>1, <1>3, <2>2
  <2> QED BY <2>1, <2>2
<1> QED BY <1>1, <1>3 DEF ShownVersionsHeld

(* A pass that ends leaves nothing but the logs to look at. *)
LEMMA EndPassInv ==
  ASSUME Inv, NEW delay \in Delays \cup {Never}, EndPass(delay),
         LogsTypeOK', NoStrandedTaint', ShownVersionsHeld',
         changes' \in Nat, faults' \in Nat
  PROVE  Inv'
<1>1. due' \in Delays \cup {Never}
  BY SoonerType DEF EndPass, Inv, TypeOK
<1>2. PassTypeOK'
  BY EmptyStatusType, ZeroDelay DEF EndPass, PassTypeOK
<1> QED BY <1>1, <1>2 DEF EndPass, Inv, TypeOK, ActingPassHeld, BranchFollowsCopy,
       LockMeansNoLag, CleanupCoversTaints

-----------------------------------------------------------------------------
(* One lemma per group of actions that disturb the invariant alike.        *)

(* Nothing is tainted when the operator first starts. *)
LEMMA InitInv == Init => Inv
<1> SUFFICES ASSUME Init PROVE Inv
  OBVIOUS
<1>1. PICK p \in {NewPolicy(s) : s \in Specs} \cup {NoPolicy} :
        policyLog = <<p>> /\ due = IF p = NoPolicy THEN Never ELSE 0
  BY DEF Init
<1>2. p \in PolicyVersion /\ ~Holds(p)
  BY <1>1, NewPolicyType DEF PolicyVersion
<1>3. PICK v \in [Nodes -> {o \in NodeObject : ~o.hasTaint} \cup {NoNode}] :
        nodeLog = [n \in Nodes |-> <<v[n]>>]
  BY DEF Init
<1>4. \A n \in Nodes : /\ v[n] \in NodeVersion
                       /\ ~(v[n] # NoNode /\ v[n].hasTaint)
                       /\ nodeLog[n] = <<v[n]>>
  BY <1>3 DEF NodeVersion
<1>5. LogsTypeOK
  <2>1. policyLog \in Seq(PolicyObject \cup {NoPolicy}) /\ policyLog # << >>
    BY <1>1, <1>2, LogSingleton DEF PolicyVersion
  <2>2. \A n \in Nodes : <<v[n]>> \in Seq(NodeObject \cup {NoNode}) /\ <<v[n]>> # << >>
    BY <1>4, LogSingleton DEF NodeVersion
  <2> QED BY <1>3, <1>4, <2>1, <2>2 DEF LogsTypeOK
<1>6. Tainted = {}
  <2>1. \A n \in Nodes : Stored(nodeLog[n]) = v[n]
    BY <1>4, LogSingleton DEF NodeVersion
  <2> QED BY <1>4, <2>1 DEF Tainted, Exists
<1>7. ShownVersionsHeld
  <2>1. Len(policyLog) = 1 /\ Cached(policyLog) = p
    BY <1>1, <1>2, LogSingleton
  <2> QED BY <1>2, <2>1 DEF ShownVersionsHeld, Cached
<1>8. PassTypeOK /\ changes \in Nat /\ faults \in Nat /\ due \in Delays \cup {Never}
  BY <1>1, EmptyStatusType, ZeroDelay DEF Init, PassTypeOK
<1> QED BY <1>5, <1>6, <1>7, <1>8 DEF Init, Inv, TypeOK, NoStrandedTaint, ActingPassHeld,
       BranchFollowsCopy, LockMeansNoLag, CleanupCoversTaints

(* Nothing but the queue moves. *)
LEMMA QueueStepInv ==
  ASSUME Inv, due' \in Delays \cup {Never}, UNCHANGED <<policyLog, nodeLog, passVars>>,
         changes' \in Nat, faults' \in Nat
  PROVE  Inv'
<1>1. LogsTypeOK' /\ PassTypeOK'
  BY DEF Inv, TypeOK, LogsTypeOK, PassTypeOK, passVars
<1>2. Tainted' = Tainted
  BY DEF Tainted, Exists
<1> QED BY <1>1, <1>2 DEF Inv, TypeOK, NoStrandedTaint, ShownVersionsHeld, ActingPassHeld,
       BranchFollowsCopy, LockMeansNoLag, CleanupCoversTaints, passVars

(* A pass ends without a write. *)
LEMMA EndWithoutWriteInv ==
  ASSUME Inv, NEW delay \in Delays \cup {Never}, EndPass(delay), UNCHANGED <<policyLog, nodeLog>>,
         changes' \in Nat, faults' \in Nat
  PROVE  Inv'
<1>1. LogsTypeOK'
  BY DEF Inv, TypeOK, LogsTypeOK
<1>2. Tainted' = Tainted
  BY DEF Tainted, Exists
<1>3. NoStrandedTaint' /\ ShownVersionsHeld'
  BY <1>2 DEF Inv, NoStrandedTaint, ShownVersionsHeld
<1> QED BY <1>1, <1>3, EndPassInv

(* A pass ends with a write of the policy that keeps the finalizer. *)
LEMMA EndWithPolicyWriteInv ==
  ASSUME Inv, NEW delay \in Delays \cup {Never}, EndPass(delay),
         NEW v \in PolicyVersion, policyLog' = Append(policyLog, v),
         Holds(Stored(policyLog)) => Holds(v),
         UNCHANGED nodeLog, changes' \in Nat, faults' \in Nat
  PROVE  Inv'
<1>1. /\ policyLog' \in Seq(PolicyObject \cup {NoPolicy}) /\ policyLog' # << >>
      /\ Stored(policyLog') = v
      /\ ShownVersionsHeld'
  BY PolicyAppendEffect DEF Inv, TypeOK
<1>2. LogsTypeOK'
  BY <1>1 DEF Inv, TypeOK, LogsTypeOK
<1>3. Tainted' = Tainted
  BY DEF Tainted, Exists
<1>4. NoStrandedTaint'
  BY <1>1, <1>3 DEF Inv, NoStrandedTaint
<1> QED BY <1>1, <1>2, <1>4, EndPassInv

(* Reconcile reads the cached policy and takes a branch. *)
LEMMA StartPassInv ==
  ASSUME Inv, StartPass
  PROVE  Inv'
<1> DEFINE p == Cached(policyLog)
<1>2. p \in PolicyObject
  BY StoredTypes DEF StartPass, NothingToDo, Inv, TypeOK, PolicyVersion
<1>3. /\ UNCHANGED <<policyLog, nodeLog, apply, remove, newStatus, requeue, failed,
                     changes, faults>>
      /\ copy' = p /\ current' = (Len(policyLog) = 1) /\ due' = Never /\ pc = "idle"
  BY DEF StartPass, Dequeue
<1>4. /\ pc' \in {"addFinalizer", "observe", "listNodes"}
      /\ pc' = "addFinalizer" => ~p.deleting
      /\ pc' = "observe" => ~p.deleting /\ HasFinalizer(p)
      /\ pc' = "listNodes" => p.deleting
  BY <1>2 DEF StartPass, PolicyObject
<1>5. Tainted' = Tainted
  BY <1>3 DEF Tainted, Exists
<1>6. LogsTypeOK' /\ NoStrandedTaint' /\ ShownVersionsHeld'
  BY <1>3, <1>5 DEF Inv, TypeOK, LogsTypeOK, NoStrandedTaint, ShownVersionsHeld
<1>7. PassTypeOK' /\ due' \in Delays \cup {Never} /\ changes' \in Nat /\ faults' \in Nat
  <2>1. current' \in BOOLEAN
    BY <1>3
  <2> QED BY <1>2, <1>3, <1>4, <2>1 DEF Inv, TypeOK, PassTypeOK
<1>8. ActingPassHeld'
  <2>1. 1 \in 1 .. Len(policyLog)
    BY LogStored DEF Inv, TypeOK, LogsTypeOK
  <2> QED BY <1>2, <1>3, <1>4, <2>1 DEF Inv, ShownVersionsHeld, ActingPassHeld, Cached
<1>9. BranchFollowsCopy'
  BY <1>2, <1>3, <1>4 DEF Inv, BranchFollowsCopy
<1>10. LockMeansNoLag'
  <2>1. ASSUME Len(policyLog) = 1 PROVE policyLog = <<p>>
    BY <2>1 DEF Inv, TypeOK, LogsTypeOK, Cached
  <2> QED BY <1>3, <2>1 DEF LockMeansNoLag
<1> QED BY <1>4, <1>6, <1>7, <1>8, <1>9, <1>10 DEF Inv, TypeOK, CleanupCoversTaints

(* The pass adds the finalizer; the copy it goes on with carries it. *)
LEMMA WithFinalizerType ==
  ASSUME NEW p \in PolicyObject
  PROVE  WithFinalizer(p) \in PolicyObject /\ HasFinalizer(WithFinalizer(p))
<1>1. p.finalizers \cup {taintCleanupFinalizer} \in SUBSET Finalizers
  BY DEF PolicyObject, Finalizers
<1>2. WithFinalizer(p) \in PolicyObject
  BY <1>1, UpdatedType, PolicyExceptType DEF WithFinalizer
<1>3. WithFinalizer(p).finalizers = p.finalizers \cup {taintCleanupFinalizer}
  BY UpdatedType DEF WithFinalizer, PolicyObject
<1> QED BY <1>2, <1>3

(* The Update that adds the finalizer lands. *)
LEMMA AddFinalizerInv ==
  ASSUME Inv, AddFinalizer
  PROVE  Inv'
<1> DEFINE v == WithFinalizer(copy)
<1>1. /\ UNCHANGED <<nodeLog, due, current, apply, remove, newStatus, requeue, failed,
                     changes, faults>>
      /\ policyLog' = Append(policyLog, v) /\ copy' = v
      /\ pc = "addFinalizer" /\ pc' = "observe"
  BY DEF AddFinalizer, StorePolicy
<1>2. copy \in PolicyObject
  BY <1>1 DEF Inv, TypeOK, PassTypeOK
<1>3. v \in PolicyObject /\ HasFinalizer(v) /\ v # NoPolicy
  BY <1>2, WithFinalizerType
<1> HIDE DEF v
<1>4. /\ policyLog' \in Seq(PolicyObject \cup {NoPolicy}) /\ policyLog' # << >>
      /\ Stored(policyLog') = v
      /\ ShownVersionsHeld'
  BY <1>1, <1>3, PolicyAppendEffect DEF Inv, TypeOK, PolicyVersion
<1>5. LogsTypeOK'
  BY <1>1, <1>4 DEF Inv, TypeOK, LogsTypeOK
<1>6. PassTypeOK' /\ due' \in Delays \cup {Never} /\ changes' \in Nat /\ faults' \in Nat
  BY <1>1, <1>3 DEF Inv, TypeOK, PassTypeOK
<1>7. NoStrandedTaint' /\ ActingPassHeld'
  BY <1>3, <1>4 DEF NoStrandedTaint, ActingPassHeld
<1>8. BranchFollowsCopy' /\ LockMeansNoLag' /\ CleanupCoversTaints'
  BY <1>1 DEF Inv, BranchFollowsCopy, LockMeansNoLag, CleanupCoversTaints
<1> QED BY <1>4, <1>5, <1>6, <1>7, <1>8 DEF Inv, TypeOK

(* The Update lands and the pass learns of an error. *)
LEMMA AddFinalizerUnacknowledgedInv ==
  ASSUME Inv, AddFinalizerUnacknowledged
  PROVE  Inv'
<1> DEFINE v == WithFinalizer(copy)
<1>1. /\ policyLog' = Append(policyLog, v) /\ UNCHANGED nodeLog
      /\ pc = "addFinalizer" /\ EndPass(0)
      /\ changes' \in Nat /\ faults' \in Nat
  BY DEF AddFinalizerUnacknowledged, StorePolicy, EndPassWithError, Fault, Inv, TypeOK
<1>2. copy \in PolicyObject
  BY <1>1 DEF Inv, TypeOK, PassTypeOK
<1>3. v \in PolicyVersion /\ Holds(v)
  BY <1>2, WithFinalizerType DEF PolicyVersion
<1>4. 0 \in Delays \cup {Never}
  BY ZeroDelay
<1> HIDE DEF v, EndPass
<1> QED BY <1>1, <1>3, <1>4, EndWithPolicyWriteInv, Zenon

(* The pass decides what to do; it has written nothing yet. *)
LEMMA ObservedInv ==
  ASSUME Inv, pc = "observe", pc' = "act",
         apply' \in SUBSET Nodes, remove' \in SUBSET Nodes, newStatus' \in Status,
         requeue' \in Delays,
         UNCHANGED <<policyLog, nodeLog, due, copy, current, failed, changes, faults>>
  PROVE  Inv'
<1>1. LogsTypeOK'
  BY DEF Inv, TypeOK, LogsTypeOK
<1>2. PassTypeOK' /\ due' \in Delays \cup {Never} /\ changes' \in Nat /\ faults' \in Nat
  BY DEF Inv, TypeOK, PassTypeOK
<1>3. Tainted' = Tainted
  BY DEF Tainted, Exists
<1>4. NoStrandedTaint' /\ ShownVersionsHeld'
  BY <1>3 DEF Inv, NoStrandedTaint, ShownVersionsHeld
<1> QED BY <1>1, <1>2, <1>4 DEF Inv, TypeOK, ActingPassHeld, BranchFollowsCopy,
       LockMeansNoLag, CleanupCoversTaints

(* The branch for a spec that does not project plans no taint. *)
LEMMA ObserveInvalidSpecInv ==
  ASSUME Inv, ObserveInvalidSpec
  PROVE  Inv'
<1>1. /\ pc = "observe" /\ pc' = "act"
      /\ newStatus' = [copy.status EXCEPT !.condition = Mark(copy, "InvalidSpec", 0)]
      /\ UNCHANGED <<policyLog, nodeLog, due, copy, current, apply, remove, requeue, failed,
                     changes, faults>>
  BY DEF ObserveInvalidSpec, InvalidSpecStatus
<1>2. copy \in PolicyObject
  BY <1>1 DEF Inv, TypeOK, PassTypeOK
<1>3. Mark(copy, "InvalidSpec", 0) \in RemediatingCondition
  BY <1>2, MarkType DEF Reasons
<1>4. newStatus' \in Status
  BY <1>1, <1>2, <1>3 DEF PolicyObject, Status
<1>5. apply' \in SUBSET Nodes /\ remove' \in SUBSET Nodes /\ requeue' \in Delays
  BY <1>1 DEF Inv, TypeOK, PassTypeOK
<1> QED BY <1>1, <1>4, <1>5, ObservedInv

(* Decide plans taints under the finalizer. *)
LEMMA ObserveInv ==
  ASSUME Inv, Observe
  PROVE  Inv'
<1> DEFINE d == Decide(projectPolicy(copy.spec), CachedFacts, 0)
<1>1. /\ pc = "observe" /\ pc' = "act"
      /\ apply' = d.applyTaint /\ remove' = d.removeTaint /\ requeue' = d.requeueAfter
      /\ newStatus' = ProjectedStatus(copy, d)
      /\ UNCHANGED <<policyLog, nodeLog, due, copy, current, failed, changes, faults>>
  BY DEF Observe
<1>2. copy \in PolicyObject /\ LogsTypeOK
  BY <1>1 DEF Inv, TypeOK, PassTypeOK
<1>3. /\ d.applyTaint \in SUBSET Nodes
      /\ d.removeTaint \in SUBSET Nodes
      /\ d.requeueAfter \in Delays
      /\ ProjectedStatus(copy, d) \in Status
  BY <1>2, ObservedType
<1> HIDE DEF d
<1> QED BY <1>1, <1>3, ObservedInv

(* A write of a taint, of the pass or of anybody else: a taint appears     *)
(* only in the act branch.                                                 *)
LEMMA NodeWriteInv ==
  ASSUME Inv, NEW n \in Nodes, NEW v \in NodeVersion,
         nodeLog' = [nodeLog EXCEPT ![n] = Append(@, v)],
         v # NoNode /\ v.hasTaint => n \in Tainted \/ pc = "act",
         UNCHANGED <<policyLog, pc, copy, current, newStatus, requeue>>,
         apply' \subseteq apply,
         remove' \subseteq remove,
         failed' \in BOOLEAN,
         pc = "cleanup" /\ ~failed' => ~failed /\ remove \ remove' \subseteq Nodes \ Tainted',
         due' \in Delays \cup {Never}, changes' \in Nat, faults' \in Nat
  PROVE  Inv'
<1>1. /\ nodeLog' \in [Nodes -> Seq(NodeObject \cup {NoNode})]
      /\ \A m \in Nodes : nodeLog'[m] # << >>
      /\ v # NoNode /\ v.hasTaint => Tainted' = Tainted \cup {n}
      /\ ~(v # NoNode /\ v.hasTaint) => Tainted' = Tainted \ {n}
  BY NodeAppendEffect DEF Inv, TypeOK
<1>2. Tainted' \subseteq Tainted \/ pc = "act"
  BY <1>1
<1>3. LogsTypeOK'
  BY <1>1 DEF Inv, TypeOK, LogsTypeOK
<1>4. PassTypeOK'
  BY DEF Inv, TypeOK, PassTypeOK
<1>5. NoStrandedTaint'
  BY <1>2 DEF Inv, NoStrandedTaint, ActingPassHeld
<1>6. CleanupCoversTaints'
  <2> SUFFICES ASSUME pc = "cleanup", ~failed' PROVE Tainted' \subseteq remove'
    BY DEF CleanupCoversTaints
  <2>1. Tainted' \subseteq remove
    BY <1>2 DEF Inv, CleanupCoversTaints
  <2> QED BY <2>1
<1> QED BY <1>3, <1>4, <1>5, <1>6 DEF Inv, TypeOK, ShownVersionsHeld, ActingPassHeld,
       BranchFollowsCopy, LockMeansNoLag

(* The same without a write. *)
LEMMA NoNodeWriteInv ==
  ASSUME Inv, UNCHANGED <<policyLog, nodeLog, due, pc, copy, current, newStatus, requeue>>,
         apply' \subseteq apply,
         remove' \subseteq remove,
         failed' \in BOOLEAN,
         pc = "cleanup" /\ ~failed' => ~failed /\ remove \ remove' \subseteq Nodes \ Tainted,
         changes' \in Nat, faults' \in Nat
  PROVE  Inv'
<1>1. Tainted' = Tainted
  BY DEF Tainted, Exists
<1>2. LogsTypeOK' /\ NoStrandedTaint' /\ ShownVersionsHeld' /\ due' \in Delays \cup {Never}
  BY <1>1 DEF Inv, TypeOK, LogsTypeOK, NoStrandedTaint, ShownVersionsHeld
<1>3. PassTypeOK'
  BY DEF Inv, TypeOK, PassTypeOK
<1>4. CleanupCoversTaints'
  <2> SUFFICES ASSUME pc = "cleanup", ~failed' PROVE Tainted \subseteq remove'
    BY <1>1 DEF CleanupCoversTaints
  <2> QED BY DEF Inv, CleanupCoversTaints
<1> QED BY <1>2, <1>3, <1>4 DEF Inv, TypeOK, ActingPassHeld, BranchFollowsCopy,
       LockMeansNoLag

(* SetTaint either writes a version that differs in its taint, or nothing. *)
LEMMA SetTaintEffect ==
  ASSUME LogsTypeOK, NEW n \in Nodes, NEW value \in BOOLEAN, SetTaint(n, value)
  PROVE  /\ Stored(nodeLog[n]) # NoNode
         /\ \/ /\ UNCHANGED nodeLog
               /\ ~value => n \notin Tainted
               /\ Stored(nodeLog[n]).hasTaint = value
            \/ \E v \in NodeVersion : /\ nodeLog' = [nodeLog EXCEPT ![n] = Append(@, v)]
                                      /\ v # NoNode /\ v.hasTaint = value
                                      /\ Stored(nodeLog[n]).hasTaint # value
<1> DEFINE o == Stored(nodeLog[n])
           v == [o EXCEPT !.hasTaint = value]
<1>1. o \in NodeObject /\ o # NoNode
  BY StoredTypes DEF SetTaint, Exists, NodeVersion
<1>2. CASE o.hasTaint = value
  <2>1. UNCHANGED nodeLog
    BY <1>2 DEF SetTaint
  <2>2. ~value => n \notin Tainted
    BY <1>2 DEF Tainted
  <2> QED BY <1>1, <1>2, <2>1, <2>2
<1>3. CASE o.hasTaint # value
  <2>1. v \in NodeObject /\ v.hasTaint = value
    BY <1>1 DEF NodeObject
  <2>2. nodeLog' = [nodeLog EXCEPT ![n] = Append(@, v)]
    BY <1>3 DEF SetTaint, StoreNode
  <2> HIDE DEF v
  <2> QED BY <1>1, <1>3, <2>1, <2>2 DEF NodeVersion
<1> QED BY <1>1, <1>2, <1>3

(* EnsureTaint adds a taint while the policy is held. *)
LEMMA ApplyTaintToInv ==
  ASSUME Inv, NEW n \in Nodes, ApplyTaintTo(n)
  PROVE  Inv'
<1>1. /\ UNCHANGED <<policyLog, due, pc, copy, current, remove, newStatus, requeue, failed,
                     changes, faults>>
      /\ pc = "act" /\ apply' = apply \ {n} /\ SetTaint(n, TRUE)
  BY DEF ApplyTaintTo
<1>2. failed' \in BOOLEAN /\ due' \in Delays \cup {Never} /\ changes' \in Nat /\ faults' \in Nat
  BY <1>1 DEF Inv, TypeOK, PassTypeOK
<1>3. CASE UNCHANGED nodeLog
  BY <1>1, <1>2, <1>3, NoNodeWriteInv
<1>4. CASE \E v \in NodeVersion : /\ nodeLog' = [nodeLog EXCEPT ![n] = Append(@, v)]
                                  /\ v # NoNode /\ v.hasTaint = TRUE
  <2>1. PICK v \in NodeVersion : nodeLog' = [nodeLog EXCEPT ![n] = Append(@, v)]
    BY <1>4
  <2> QED BY <1>1, <1>2, <2>1, NodeWriteInv
<1> QED BY <1>1, <1>3, <1>4, SetTaintEffect DEF Inv, TypeOK

(* RemoveTaint takes a taint off, in either branch. *)
LEMMA RemoveTaintFromInv ==
  ASSUME Inv, NEW n \in Nodes, RemoveTaintFrom(n)
  PROVE  Inv'
<1>1. /\ UNCHANGED <<policyLog, due, pc, copy, current, apply, newStatus, requeue, failed,
                     changes, faults>>
      /\ remove' = remove \ {n} /\ SetTaint(n, FALSE)
  BY DEF RemoveTaintFrom
<1>2. failed' \in BOOLEAN /\ due' \in Delays \cup {Never} /\ changes' \in Nat /\ faults' \in Nat
  BY <1>1 DEF Inv, TypeOK, PassTypeOK
<1>3. remove \ remove' \subseteq {n} /\ remove' \subseteq remove /\ apply' \subseteq apply
  BY <1>1
<1>4. CASE UNCHANGED nodeLog /\ n \notin Tainted
  <2>1. remove \ remove' \subseteq Nodes \ Tainted
    BY <1>3, <1>4
  <2> QED BY <1>1, <1>2, <1>3, <1>4, <2>1, NoNodeWriteInv
<1>5. CASE \E v \in NodeVersion : /\ nodeLog' = [nodeLog EXCEPT ![n] = Append(@, v)]
                                  /\ v # NoNode /\ v.hasTaint = FALSE
  <2>1. PICK v \in NodeVersion : /\ nodeLog' = [nodeLog EXCEPT ![n] = Append(@, v)]
                                 /\ v # NoNode /\ v.hasTaint = FALSE
    BY <1>5
  <2>2. Tainted' = Tainted \ {n}
    BY <2>1, NodeAppendEffect DEF Inv, TypeOK
  <2>3. remove \ remove' \subseteq Nodes \ Tainted'
    BY <1>3, <2>2
  <2> QED BY <1>1, <1>2, <1>3, <2>1, <2>3, NodeWriteInv
<1> QED BY <1>1, <1>4, <1>5, SetTaintEffect DEF Inv, TypeOK

(* A failed taint write, landed or not, is remembered. *)
LEMMA TaintWriteFailsInv ==
  ASSUME Inv, NEW n \in Nodes, TaintWriteFails(n)
  PROVE  Inv'
<1>1. UNCHANGED <<policyLog, due, pc, copy, current, newStatus, requeue, changes>>
  BY DEF TaintWriteFails
<1>2. failed' /\ failed' \in BOOLEAN
  BY DEF TaintWriteFails
<1>3. apply' \subseteq apply /\ remove' \subseteq remove
  BY DEF TaintWriteFails
<1>4. faults' \in Nat /\ changes' \in Nat /\ due' \in Delays \cup {Never}
  BY <1>1 DEF TaintWriteFails, Fault, Inv, TypeOK
<1>5. n \in apply => pc = "act"
  BY DEF Inv, BranchFollowsCopy
<1>6. UNCHANGED nodeLog \/ SetTaint(n, n \in apply)
  BY DEF TaintWriteFails
<1>7. CASE UNCHANGED nodeLog
  BY <1>1, <1>2, <1>3, <1>4, <1>7, NoNodeWriteInv
<1>8. CASE \E v \in NodeVersion : /\ nodeLog' = [nodeLog EXCEPT ![n] = Append(@, v)]
                                  /\ v # NoNode /\ v.hasTaint = (n \in apply)
  <2>1. PICK v \in NodeVersion : /\ nodeLog' = [nodeLog EXCEPT ![n] = Append(@, v)]
                                 /\ v # NoNode /\ v.hasTaint = (n \in apply)
    BY <1>8
  <2>2. v # NoNode /\ v.hasTaint => pc = "act"
    BY <1>5, <2>1
  <2> QED BY <1>1, <1>2, <1>3, <1>4, <2>1, <2>2, NodeWriteInv
<1>9. (n \in apply) \in BOOLEAN
  OBVIOUS
<1> QED BY <1>6, <1>7, <1>8, <1>9, SetTaintEffect DEF Inv, TypeOK

(* The status patch keeps the finalizers of what it lands on. *)
LEMMA StorePatchedStatusEffect ==
  ASSUME Inv, StorePatchedStatus, copy \in PolicyObject
  PROVE  \/ UNCHANGED policyLog
         \/ \E v \in PolicyVersion : /\ policyLog' = Append(policyLog, v)
                                     /\ Alike(Stored(policyLog), v)
<1> DEFINE p      == Stored(policyLog)
           status == Merged(p.status, copy.status, newStatus)
           v      == [p EXCEPT !.status = status]
<1>1. CASE p = NoPolicy \/ status = p.status
  BY <1>1 DEF StorePatchedStatus
<1>2. CASE ~(p = NoPolicy \/ status = p.status)
  <2>1. policyLog' = Append(policyLog, v)
    BY <1>2 DEF StorePatchedStatus, StorePolicy
  <2>2. p \in PolicyObject /\ newStatus \in Status
    BY <1>2, StoredTypes DEF PolicyVersion, Inv, TypeOK, PassTypeOK
  <2>3. status \in Status
    <3>1. p.status \in Status /\ copy.status \in Status
      BY <2>2 DEF PolicyObject
    <3> HIDE DEF p
    <3> QED BY <2>2, <3>1, MergedType
  <2>4. v \in PolicyObject /\ v.finalizers = p.finalizers /\ v.deleting = p.deleting
    <3> HIDE DEF p, status
    <3> QED BY <2>2, <2>3 DEF PolicyObject
  <2>5. v \in PolicyVersion /\ Alike(p, v)
    <3> HIDE DEF p, v
    <3> QED BY <2>2, <2>4 DEF PolicyVersion, Alike
  <2> HIDE DEF v
  <2> QED BY <2>1, <2>5
<1> QED BY <1>1, <1>2

(* A pass ends and may have patched the status. *)
LEMMA StatusWrittenInv ==
  ASSUME Inv, pc = "act", NEW delay \in Delays \cup {Never}, EndPass(delay),
         UNCHANGED policyLog \/ StorePatchedStatus,
         UNCHANGED nodeLog, changes' \in Nat, faults' \in Nat
  PROVE  Inv'
<1>1. copy \in PolicyObject
  BY DEF Inv, TypeOK, PassTypeOK
<1>2. CASE UNCHANGED policyLog
  BY <1>2, EndWithoutWriteInv
<1>3. CASE \E v \in PolicyVersion : /\ policyLog' = Append(policyLog, v)
                                    /\ Alike(Stored(policyLog), v)
  <2>1. PICK v \in PolicyVersion : /\ policyLog' = Append(policyLog, v)
                                   /\ Holds(Stored(policyLog)) => Holds(v)
    BY <1>3 DEF Alike
  <2> QED BY <2>1, EndWithPolicyWriteInv
<1> QED BY <1>1, <1>2, <1>3, StorePatchedStatusEffect

(* The deferred status patch ends the pass. *)
LEMMA WriteStatusInv ==
  ASSUME Inv, WriteStatus \/ WriteStatusFails
  PROVE  Inv'
<1>1. /\ pc = "act" /\ UNCHANGED nodeLog /\ changes' \in Nat /\ faults' \in Nat
      /\ UNCHANGED policyLog \/ StorePatchedStatus
  BY DEF WriteStatus, WriteStatusFails, Acted, Fault, Inv, TypeOK
<1>2. PICK delay \in Delays \cup {Never} : EndPass(delay)
  <2>1. 0 \in Delays \cup {Never} /\ requeue \in Delays \cup {Never} /\ Never \in Delays \cup {Never}
    BY ZeroDelay DEF Inv, TypeOK, PassTypeOK
  <2> QED BY <2>1 DEF WriteStatus, WriteStatusFails, FinishPass, EndPassWithError
<1> QED BY <1>1, <1>2, StatusWrittenInv

(* The uncached list of the cleanup sees every taint. *)
LEMMA ListNodesInv ==
  ASSUME Inv, ListNodes
  PROVE  Inv'
<1>1. /\ UNCHANGED <<policyLog, nodeLog, due, copy, current, apply, newStatus, requeue,
                     failed, changes, faults>>
      /\ pc = "listNodes" /\ pc' = "cleanup" /\ remove' = Tainted
  BY DEF ListNodes, NodesToClean
<1>2. Tainted' = Tainted /\ Tainted \in SUBSET Nodes
  BY <1>1 DEF Tainted, Exists
<1>3. LogsTypeOK' /\ NoStrandedTaint' /\ ShownVersionsHeld'
  BY <1>1, <1>2 DEF Inv, TypeOK, LogsTypeOK, NoStrandedTaint, ShownVersionsHeld
<1>4. PassTypeOK' /\ due' \in Delays \cup {Never} /\ changes' \in Nat /\ faults' \in Nat
  BY <1>1, <1>2 DEF Inv, TypeOK, PassTypeOK
<1> QED BY <1>1, <1>2, <1>3, <1>4 DEF Inv, TypeOK, ActingPassHeld, BranchFollowsCopy,
       LockMeansNoLag, CleanupCoversTaints

(* The finalizer goes.  The lock says that the cache and the pass saw the  *)
(* stored policy, which is being deleted; the cleanup, that no taint is    *)
(* left.                                                                   *)
LEMMA RemoveFinalizerInv ==
  ASSUME Inv, RemoveFinalizer \/ RemoveFinalizerUnacknowledged
  PROVE  Inv'
<1> DEFINE v == Released(copy)
<1>1. /\ pc = "cleanup" /\ remove = {} /\ ~failed /\ current
      /\ policyLog' = Append(policyLog, v) /\ UNCHANGED nodeLog
      /\ changes' \in Nat /\ faults' \in Nat
  BY DEF RemoveFinalizer, RemoveFinalizerUnacknowledged, CleanedUp, StorePolicy, Fault,
         Inv, TypeOK
<1>2. PICK delay \in Delays \cup {Never} : EndPass(delay)
  <2>1. 0 \in Delays \cup {Never} /\ Never \in Delays \cup {Never}
    BY ZeroDelay
  <2> QED BY <2>1 DEF RemoveFinalizer, RemoveFinalizerUnacknowledged, EndPassWithError
<1>3. copy \in PolicyObject /\ copy.deleting
  BY <1>1 DEF Inv, TypeOK, PassTypeOK, BranchFollowsCopy
<1>4. policyLog = <<copy>>
  BY <1>1 DEF Inv, LockMeansNoLag
<1>5. Tainted' = {}
  <2>1. Tainted' = Tainted
    BY <1>1 DEF Tainted, Exists
  <2> QED BY <1>1, <2>1 DEF Inv, CleanupCoversTaints
<1>6. v \in PolicyVersion /\ (v # NoPolicy => v.deleting)
  <2> DEFINE left == copy.finalizers \ {taintCleanupFinalizer}
  <2>1. left \in SUBSET Finalizers
    BY <1>3 DEF PolicyObject
  <2>2. [Updated(copy) EXCEPT !.finalizers = left] \in PolicyObject
    BY <1>3, <2>1, UpdatedType, PolicyExceptType
  <2>3. [Updated(copy) EXCEPT !.finalizers = left].deleting
    BY <1>3, UpdatedType DEF PolicyObject
  <2> QED BY <2>2, <2>3 DEF Released, PolicyVersion
<1> HIDE DEF v
<1>7. /\ policyLog' \in Seq(PolicyObject \cup {NoPolicy}) /\ policyLog' # << >>
      /\ \A i \in 1 .. Len(policyLog') : policyLog'[i] \in {copy, v}
  <2>1. /\ policyLog' \in Seq(PolicyObject \cup {NoPolicy}) /\ policyLog' # << >>
        /\ \A i \in 1 .. Len(policyLog') :
             policyLog'[i] = IF i <= Len(policyLog) THEN policyLog[i] ELSE v
    BY <1>1, <1>6, LogAppend DEF Inv, TypeOK, LogsTypeOK, PolicyVersion
  <2>2. Len(policyLog') \in Nat /\ Len(policyLog) = 1 /\ policyLog[1] = copy
    BY <1>4, <2>1
  <2>3. ASSUME NEW i \in 1 .. Len(policyLog') PROVE policyLog'[i] \in {copy, v}
    <3>1. CASE i <= Len(policyLog)
      <4>1. i = 1
        BY <2>2, <3>1
      <4> QED BY <2>1, <2>2, <4>1
    <3>2. CASE ~(i <= Len(policyLog))
      BY <2>1, <3>2
    <3> QED BY <3>1, <3>2
  <2> QED BY <2>1, <2>3
<1>8. ShownVersionsHeld'
  <2>1. \A i \in 1 .. Len(policyLog') : ~Live(policyLog'[i])
    BY <1>3, <1>6, <1>7
  <2> QED BY <2>1 DEF ShownVersionsHeld
<1>9. NoStrandedTaint'
  BY <1>5 DEF NoStrandedTaint
<1>10. LogsTypeOK'
  BY <1>1, <1>7 DEF Inv, TypeOK, LogsTypeOK
<1> QED BY <1>1, <1>2, <1>8, <1>9, <1>10, EndPassInv

(* The pass ends on an error without a write. *)
LEMMA ErrorInv ==
  ASSUME Inv, CleanupFailed \/ UpdateConflicts \/ RequestFails
  PROVE  Inv'
<1>1. /\ EndPass(0) /\ UNCHANGED <<policyLog, nodeLog>>
      /\ changes' \in Nat /\ faults' \in Nat
  BY DEF CleanupFailed, UpdateConflicts, RequestFails, EndPassWithError, Fault, Inv, TypeOK
<1>2. 0 \in Delays \cup {Never}
  BY ZeroDelay
<1> QED BY <1>1, <1>2, EndWithoutWriteInv, Zenon

-----------------------------------------------------------------------------
(* The informers only forget versions that are no longer stored. *)

(* The policy cache moves on, possibly over several versions. *)
LEMMA PolicyCacheInv ==
  ASSUME Inv, Len(policyLog) > 1,
         policyLog' \in Seq(PolicyObject \cup {NoPolicy}), policyLog' # << >>,
         Stored(policyLog') = Stored(policyLog),
         \A i \in 1 .. Len(policyLog') : \E j \in 1 .. Len(policyLog) :
           policyLog'[i] = policyLog[j],
         due' \in Delays \cup {Never}, UNCHANGED <<nodeLog, passVars>>,
         changes' \in Nat, faults' \in Nat
  PROVE  Inv'
<1>1. LogsTypeOK' /\ PassTypeOK'
  BY DEF Inv, TypeOK, LogsTypeOK, PassTypeOK, passVars
<1>2. Tainted' = Tainted
  BY DEF Tainted, Exists
<1>3. NoStrandedTaint' /\ ActingPassHeld' /\ CleanupCoversTaints' /\ BranchFollowsCopy'
  BY <1>2 DEF Inv, NoStrandedTaint, ActingPassHeld, CleanupCoversTaints, BranchFollowsCopy,
              passVars
<1>4. ShownVersionsHeld'
  BY DEF Inv, ShownVersionsHeld
<1>5. LockMeansNoLag'
  <2>1. ASSUME policyLog = <<copy>> PROVE FALSE
    BY <2>1
  <2> QED BY <2>1 DEF Inv, LockMeansNoLag, passVars
<1> QED BY <1>1, <1>3, <1>4, <1>5 DEF Inv, TypeOK

(* The policy cache advances by one version. *)
LEMMA DeliverPolicyInv ==
  ASSUME Inv, DeliverPolicy
  PROVE  Inv'
<1>1. /\ Len(policyLog) > 1 /\ policyLog' = Tail(policyLog)
      /\ UNCHANGED <<nodeLog, passVars>>
      /\ due' \in Delays \cup {Never} /\ changes' \in Nat /\ faults' \in Nat
  BY ZeroDelay DEF DeliverPolicy, Inv, TypeOK
<1>2. /\ policyLog' \in Seq(PolicyObject \cup {NoPolicy})
      /\ policyLog' # << >>
      /\ Stored(policyLog') = Stored(policyLog)
      /\ Len(policyLog') = Len(policyLog) - 1
      /\ \A i \in 1 .. Len(policyLog') : policyLog'[i] = policyLog[i + 1]
  BY <1>1, LogTail DEF Inv, TypeOK, LogsTypeOK
<1>3. \A i \in 1 .. Len(policyLog') : i + 1 \in 1 .. Len(policyLog)
  <2>1. Len(policyLog) \in Nat
    BY DEF Inv, TypeOK, LogsTypeOK
  <2> QED BY <1>2, <2>1
<1>4. \A i \in 1 .. Len(policyLog') : \E j \in 1 .. Len(policyLog) :
        policyLog'[i] = policyLog[j]
  BY <1>2, <1>3
<1> QED BY <1>1, <1>2, <1>4, PolicyCacheInv, Zenon

(* A list is the log of one version. *)
LEMMA Relisted ==
  ASSUME LogsTypeOK, policyLog' = <<Stored(policyLog)>>
  PROVE  /\ policyLog' \in Seq(PolicyObject \cup {NoPolicy})
         /\ policyLog' # << >>
         /\ Stored(policyLog') = Stored(policyLog)
         /\ \A i \in 1 .. Len(policyLog') : \E j \in 1 .. Len(policyLog) :
              policyLog'[i] = policyLog[j]
<1>1. Stored(policyLog) \in PolicyObject \cup {NoPolicy} /\ Len(policyLog) \in Nat \ {0}
  BY LogStored DEF LogsTypeOK
<1>2. /\ policyLog' \in Seq(PolicyObject \cup {NoPolicy})
      /\ policyLog' # << >>
      /\ Len(policyLog') = 1
      /\ Stored(policyLog') = Stored(policyLog)
      /\ Cached(policyLog') = Stored(policyLog)
  BY <1>1, LogSingleton
<1>3. \A i \in 1 .. Len(policyLog') : policyLog'[i] = policyLog[Len(policyLog)]
  BY <1>2 DEF Cached, Stored
<1> QED BY <1>1, <1>2, <1>3

(* The policy cache jumps to the stored version. *)
LEMMA RelistPolicyInv ==
  ASSUME Inv, RelistPolicy
  PROVE  Inv'
<1>1. /\ Len(policyLog) > 1 /\ policyLog' = <<Stored(policyLog)>>
      /\ UNCHANGED <<nodeLog, passVars>>
      /\ due' \in Delays \cup {Never} /\ changes' \in Nat /\ faults' \in Nat
  BY ZeroDelay DEF RelistPolicy, Fault, Inv, TypeOK
<1> QED BY <1>1, Relisted, PolicyCacheInv DEF Inv, TypeOK

(* The node caches move on; Tick, which changes no taint, goes here too. *)
LEMMA NodeCacheInv ==
  ASSUME Inv, nodeLog' \in [Nodes -> Seq(NodeObject \cup {NoNode})],
         \A n \in Nodes : nodeLog'[n] # << >>,
         Tainted' = Tainted,
         due' \in Delays \cup {Never}, UNCHANGED <<policyLog, passVars>>,
         changes' \in Nat, faults' \in Nat
  PROVE  Inv'
<1>1. LogsTypeOK' /\ PassTypeOK'
  BY DEF Inv, TypeOK, LogsTypeOK, PassTypeOK, passVars
<1> QED BY <1>1 DEF Inv, TypeOK, NoStrandedTaint, ShownVersionsHeld, ActingPassHeld,
       BranchFollowsCopy, LockMeansNoLag, CleanupCoversTaints, passVars

(* A node cache advances by one version. *)
LEMMA DeliverNodeEffect ==
  ASSUME Inv, NEW n \in Nodes, DeliverNode(n)
  PROVE  /\ nodeLog' \in [Nodes -> Seq(NodeObject \cup {NoNode})]
         /\ \A m \in Nodes : nodeLog'[m] # << >>
         /\ Tainted' = Tainted
<1>1. Len(nodeLog[n]) > 1 /\ nodeLog' = [nodeLog EXCEPT ![n] = Tail(@)]
  BY DEF DeliverNode
<1>2. /\ Tail(nodeLog[n]) \in Seq(NodeObject \cup {NoNode})
      /\ Tail(nodeLog[n]) # << >>
      /\ Stored(Tail(nodeLog[n])) = Stored(nodeLog[n])
  BY <1>1, LogTail DEF Inv, TypeOK, LogsTypeOK
<1>3. /\ nodeLog' \in [Nodes -> Seq(NodeObject \cup {NoNode})]
      /\ \A m \in Nodes : nodeLog'[m] # << >>
  BY <1>1, <1>2 DEF Inv, TypeOK, LogsTypeOK
<1>4. /\ nodeLog'[n] = Tail(nodeLog[n])
      /\ \A m \in Nodes \ {n} : nodeLog'[m] = nodeLog[m]
  BY <1>1 DEF Inv, TypeOK, LogsTypeOK
<1>5. \A m \in Nodes : Stored(nodeLog'[m]) = Stored(nodeLog[m])
  BY <1>2, <1>4
<1> QED BY <1>3, <1>5, TaintedUnchanged

(* The event may enqueue the policy. *)
LEMMA DeliverNodeInv ==
  ASSUME Inv, NEW n \in Nodes, DeliverNode(n)
  PROVE  Inv'
<1>1. /\ UNCHANGED <<policyLog, passVars>>
      /\ due' \in Delays \cup {Never} /\ changes' \in Nat /\ faults' \in Nat
  BY ZeroDelay DEF DeliverNode, Inv, TypeOK
<1> QED BY <1>1, DeliverNodeEffect, NodeCacheInv

(* Listing the nodes anew changes no stored node. *)
LEMMA NodesRelisted ==
  ASSUME LogsTypeOK, nodeLog' = [n \in Nodes |-> <<Stored(nodeLog[n])>>]
  PROVE  /\ nodeLog' \in [Nodes -> Seq(NodeObject \cup {NoNode})]
         /\ \A n \in Nodes : nodeLog'[n] # << >>
         /\ Tainted' = Tainted
<1>1. \A n \in Nodes : Stored(nodeLog[n]) \in NodeObject \cup {NoNode}
  BY LogStored DEF LogsTypeOK
<1>2. \A n \in Nodes : /\ <<Stored(nodeLog[n])>> \in Seq(NodeObject \cup {NoNode})
                       /\ <<Stored(nodeLog[n])>> # << >>
                       /\ Stored(<<Stored(nodeLog[n])>>) = Stored(nodeLog[n])
  BY <1>1, LogSingleton
<1>3. \A n \in Nodes : Stored(nodeLog'[n]) = Stored(nodeLog[n])
  BY <1>2
<1> QED BY <1>2, <1>3, TaintedUnchanged

(* The node caches jump to the stored versions. *)
LEMMA RelistNodesInv ==
  ASSUME Inv, RelistNodes
  PROVE  Inv'
<1>1. /\ nodeLog' = [n \in Nodes |-> <<Stored(nodeLog[n])>>]
      /\ UNCHANGED <<policyLog, passVars>>
      /\ due' \in Delays \cup {Never} /\ changes' \in Nat /\ faults' \in Nat
  BY ZeroDelay DEF RelistNodes, Fault, Inv, TypeOK
<1> QED BY <1>1, NodesRelisted, NodeCacheInv DEF Inv, TypeOK

(* A restart forgets the pass and lists both caches. *)
LEMMA RestartInv ==
  ASSUME Inv, Restart
  PROVE  Inv'
<1>1. /\ policyLog' = <<Stored(policyLog)>>
      /\ nodeLog' = [n \in Nodes |-> <<Stored(nodeLog[n])>>]
      /\ due' \in Delays \cup {Never} /\ changes' \in Nat /\ faults' \in Nat
      /\ pc' = "idle" /\ current' = FALSE /\ apply' = {} /\ remove' = {}
      /\ newStatus' = EmptyStatus /\ requeue' = 0 /\ failed' = FALSE
  BY ZeroDelay DEF Restart, Fault, Inv, TypeOK
<1>2. /\ nodeLog' \in [Nodes -> Seq(NodeObject \cup {NoNode})]
      /\ \A n \in Nodes : nodeLog'[n] # << >>
      /\ Tainted' = Tainted
  BY <1>1, NodesRelisted DEF Inv, TypeOK
<1>3. /\ policyLog' \in Seq(PolicyObject \cup {NoPolicy})
      /\ policyLog' # << >>
      /\ Stored(policyLog') = Stored(policyLog)
      /\ \A i \in 1 .. Len(policyLog') : \E j \in 1 .. Len(policyLog) :
           policyLog'[i] = policyLog[j]
  BY <1>1, Relisted DEF Inv, TypeOK
<1>4. LogsTypeOK'
  BY <1>2, <1>3 DEF LogsTypeOK
<1>5. PassTypeOK'
  BY <1>1, EmptyStatusType, ZeroDelay DEF PassTypeOK
<1>6. NoStrandedTaint' /\ ShownVersionsHeld'
  BY <1>2, <1>3 DEF Inv, NoStrandedTaint, ShownVersionsHeld
<1> QED BY <1>1, <1>4, <1>5, <1>6 DEF Inv, TypeOK, ActingPassHeld, BranchFollowsCopy,
       LockMeansNoLag, CleanupCoversTaints

-----------------------------------------------------------------------------
(* Everybody else: nobody takes the operator's finalizer off or adds its   *)
(* taint.                                                                  *)

(* Somebody else writes the policy and keeps the finalizer on it. *)
LEMMA PolicyUpdateInv ==
  ASSUME Inv, NEW v \in PolicyVersion, PolicyUpdate(v),
         Holds(Stored(policyLog)) => Holds(v)
  PROVE  Inv'
<1>1. /\ policyLog' = Append(policyLog, v) /\ current' = FALSE
      /\ UNCHANGED <<nodeLog, due, pc, copy, apply, remove, newStatus, requeue, failed, faults>>
      /\ changes' \in Nat
  BY DEF PolicyUpdate, StorePolicy, Change, Inv, TypeOK
<1>2. /\ policyLog' \in Seq(PolicyObject \cup {NoPolicy}) /\ policyLog' # << >>
      /\ Stored(policyLog') = v
      /\ ShownVersionsHeld'
  BY <1>1, PolicyAppendEffect DEF Inv, TypeOK
<1>3. LogsTypeOK'
  BY <1>1, <1>2 DEF Inv, TypeOK, LogsTypeOK
<1>4. PassTypeOK' /\ due' \in Delays \cup {Never} /\ faults' \in Nat
  BY <1>1 DEF Inv, TypeOK, PassTypeOK
<1>5. Tainted' = Tainted
  BY <1>1 DEF Tainted, Exists
<1>6. NoStrandedTaint' /\ ActingPassHeld'
  BY <1>1, <1>2, <1>5 DEF Inv, NoStrandedTaint, ActingPassHeld
<1>7. BranchFollowsCopy' /\ LockMeansNoLag' /\ CleanupCoversTaints'
  BY <1>1, <1>5 DEF Inv, BranchFollowsCopy, LockMeansNoLag, CleanupCoversTaints
<1> QED BY <1>1, <1>2, <1>3, <1>4, <1>6, <1>7 DEF Inv, TypeOK

(* A new policy appears where there was none, hence no taint. *)
LEMMA CreatePolicyInv ==
  ASSUME Inv, CreatePolicy
  PROVE  Inv'
<1>1. PICK s \in Specs : Stored(policyLog) = NoPolicy /\ PolicyUpdate(NewPolicy(s))
  BY DEF CreatePolicy
<1>2. NewPolicy(s) \in PolicyVersion
  BY NewPolicyType DEF PolicyVersion
<1> QED BY <1>1, <1>2, PolicyUpdateInv

(* A user edits the spec. *)
LEMMA EditSpecInv ==
  ASSUME Inv, EditSpec
  PROVE  Inv'
<1> DEFINE p == Stored(policyLog)
<1>1. p \in PolicyObject
  BY StoredTypes DEF EditSpec, PolicyVersion, Inv, TypeOK
<1>2. PICK s \in Specs : PolicyUpdate([p EXCEPT !.spec = s, !.generation = @ + 1])
  BY DEF EditSpec
<1> DEFINE g == p.generation + 1
           v == [p EXCEPT !.spec = s, !.generation = g]
<1>3. v \in PolicyObject /\ v.finalizers = p.finalizers
  <2>1. g \in Nat
    BY <1>1 DEF PolicyObject
  <2> HIDE DEF p, g
  <2> QED BY <1>1, <2>1 DEF PolicyObject, StoredSpecs
<1>4. v \in PolicyVersion /\ (Holds(p) => Holds(v))
  <2> HIDE DEF p, v
  <2> QED BY <1>3 DEF PolicyVersion
<1> HIDE DEF v
<1> QED BY <1>2, <1>4, PolicyUpdateInv DEF v

(* A user clears the status. *)
LEMMA EditStatusInv ==
  ASSUME Inv, EditStatus
  PROVE  Inv'
<1> DEFINE p == Stored(policyLog)
           v == [p EXCEPT !.status = EmptyStatus]
<1>1. p \in PolicyObject /\ PolicyUpdate(v)
  BY StoredTypes DEF EditStatus, PolicyVersion, Inv, TypeOK
<1>2. v \in PolicyObject /\ v.finalizers = p.finalizers
  <2> HIDE DEF p
  <2> QED BY <1>1, EmptyStatusType DEF PolicyObject
<1>3. v \in PolicyVersion /\ (Holds(p) => Holds(v))
  <2> HIDE DEF p, v
  <2> QED BY <1>2 DEF PolicyVersion
<1> HIDE DEF v
<1> QED BY <1>1, <1>3, PolicyUpdateInv

(* A delete marks a held policy and drops one that nothing holds. *)
LEMMA DeletePolicyInv ==
  ASSUME Inv, DeletePolicy
  PROVE  Inv'
<1> DEFINE p == Stored(policyLog)
<1>1. p \in PolicyObject
  BY StoredTypes DEF DeletePolicy, PolicyVersion, Inv, TypeOK
<1>2. PICK foreground \in SUBSET {foregroundDeletion} :
        LET kept == p.finalizers \cup foreground
        IN  PolicyUpdate(IF kept = {} THEN NoPolicy
                         ELSE [p EXCEPT !.deleting = TRUE, !.finalizers = kept, !.generation = @ + 1])
  BY DEF DeletePolicy
<1> DEFINE kept == p.finalizers \cup foreground
           g    == p.generation + 1
           w    == [p EXCEPT !.deleting = TRUE, !.finalizers = kept, !.generation = g]
           v    == IF kept = {} THEN NoPolicy ELSE w
<1>3. kept \in SUBSET Finalizers /\ g \in Nat
  BY <1>1 DEF PolicyObject, Finalizers
<1>4. w \in PolicyObject /\ w.finalizers = kept
  <2> HIDE DEF p, kept, g
  <2> QED BY <1>1, <1>3 DEF PolicyObject
<1>5. v \in PolicyVersion /\ (Holds(p) => Holds(v))
  <2> HIDE DEF p, w
  <2> QED BY <1>4 DEF PolicyVersion
<1>6. PolicyUpdate(v)
  BY <1>2
<1> HIDE DEF v
<1> QED BY <1>5, <1>6, PolicyUpdateInv

(* The garbage collector takes off only its own finalizer. *)
LEMMA CollectGarbageInv ==
  ASSUME Inv, CollectGarbage
  PROVE  Inv'
<1> DEFINE p    == Stored(policyLog)
           left == p.finalizers \ {foregroundDeletion}
           w    == [p EXCEPT !.finalizers = left]
           v    == IF left = {} THEN NoPolicy ELSE w
<1>1. p \in PolicyObject /\ PolicyUpdate(v)
  BY StoredTypes DEF CollectGarbage, PolicyVersion, Inv, TypeOK
<1>2. left \in SUBSET Finalizers
  BY <1>1 DEF PolicyObject
<1>3. w \in PolicyObject /\ w.finalizers = left
  <2> HIDE DEF p, left
  <2> QED BY <1>1, <1>2 DEF PolicyObject
<1>4. v \in PolicyVersion /\ (Holds(p) => Holds(v))
  <2>1. taintCleanupFinalizer # foregroundDeletion
    BY DEF taintCleanupFinalizer, foregroundDeletion
  <2> HIDE DEF p, w
  <2> QED BY <1>3, <2>1 DEF PolicyVersion
<1> HIDE DEF v
<1> QED BY <1>1, <1>4, PolicyUpdateInv

(* Each of them stores a version whose status is the stored one or empty. *)
LEMMA PolicyEdited ==
  ASSUME Inv, CreatePolicy \/ EditSpec \/ EditStatus \/ DeletePolicy \/ CollectGarbage
  PROVE  \E v \in PolicyVersion :
           /\ PolicyUpdate(v)
           /\ v # NoPolicy => \/ v.status = EmptyStatus
                              \/ /\ Stored(policyLog) # NoPolicy
                                 /\ v.status = Stored(policyLog).status
<1> DEFINE p == Stored(policyLog)
<1>1. p \in PolicyVersion
  BY StoredTypes DEF Inv, TypeOK
<1>2. CASE CreatePolicy
  <2>1. PICK s \in Specs : PolicyUpdate(NewPolicy(s))
    BY <1>2 DEF CreatePolicy
  <2>2. NewPolicy(s) \in PolicyVersion /\ NewPolicy(s).status = EmptyStatus
    BY NewPolicyType DEF NewPolicy, PolicyVersion
  <2> QED BY <2>1, <2>2
<1>3. CASE EditSpec
  <2>1. PICK s \in Specs : PolicyUpdate([p EXCEPT !.spec = s, !.generation = @ + 1])
    BY <1>3 DEF EditSpec
  <2> DEFINE g == p.generation + 1
             v == [p EXCEPT !.spec = s, !.generation = g]
  <2>2. p \in PolicyObject
    BY <1>1, <1>3 DEF EditSpec, PolicyVersion
  <2>3. v \in PolicyObject /\ v.status = p.status
    <3>1. g \in Nat
      BY <2>2 DEF PolicyObject
    <3> HIDE DEF p, g
    <3> QED BY <2>2, <3>1 DEF PolicyObject, StoredSpecs
  <2>4. PolicyUpdate(v) /\ p # NoPolicy /\ v \in PolicyVersion
    BY <1>3, <2>1, <2>3 DEF EditSpec, PolicyVersion
  <2> HIDE DEF v
  <2> QED BY <2>3, <2>4
<1>4. CASE EditStatus
  <2> DEFINE v == [p EXCEPT !.status = EmptyStatus]
  <2>1. p \in PolicyObject /\ PolicyUpdate(v)
    BY <1>1, <1>4 DEF EditStatus, PolicyVersion
  <2>2. v \in PolicyObject /\ v.status = EmptyStatus
    <3> HIDE DEF p
    <3> QED BY <2>1, EmptyStatusType DEF PolicyObject
  <2>3. v \in PolicyVersion
    BY <2>2 DEF PolicyVersion
  <2> HIDE DEF v
  <2> QED BY <2>1, <2>2, <2>3
<1>5. CASE DeletePolicy
  <2>1. p \in PolicyObject /\ p # NoPolicy
    BY <1>1, <1>5 DEF DeletePolicy, PolicyVersion
  <2>2. PICK foreground \in SUBSET {foregroundDeletion} :
          LET kept == p.finalizers \cup foreground
          IN  PolicyUpdate(IF kept = {} THEN NoPolicy
                           ELSE [p EXCEPT !.deleting = TRUE, !.finalizers = kept, !.generation = @ + 1])
    BY <1>5 DEF DeletePolicy
  <2> DEFINE kept == p.finalizers \cup foreground
             g    == p.generation + 1
             w    == [p EXCEPT !.deleting = TRUE, !.finalizers = kept, !.generation = g]
             v    == IF kept = {} THEN NoPolicy ELSE w
  <2>3. kept \in SUBSET Finalizers /\ g \in Nat
    BY <2>1 DEF PolicyObject, Finalizers
  <2>4. w \in PolicyObject /\ w.status = p.status
    <3> HIDE DEF p, kept, g
    <3> QED BY <2>1, <2>3 DEF PolicyObject
  <2>5. v \in PolicyVersion /\ (v # NoPolicy => v.status = p.status)
    <3> HIDE DEF p, w
    <3> QED BY <2>4 DEF PolicyVersion
  <2>6. PolicyUpdate(v)
    BY <2>2
  <2> HIDE DEF v
  <2> QED BY <2>1, <2>5, <2>6
<1>6. CASE CollectGarbage
  <2> DEFINE left == p.finalizers \ {foregroundDeletion}
             w    == [p EXCEPT !.finalizers = left]
             v    == IF left = {} THEN NoPolicy ELSE w
  <2>1. p \in PolicyObject /\ p # NoPolicy /\ PolicyUpdate(v)
    BY <1>1, <1>6 DEF CollectGarbage, PolicyVersion
  <2>2. left \in SUBSET Finalizers
    BY <2>1 DEF PolicyObject
  <2>3. w \in PolicyObject /\ w.status = p.status
    <3> HIDE DEF p, left
    <3> QED BY <2>1, <2>2 DEF PolicyObject
  <2>4. v \in PolicyVersion /\ (v # NoPolicy => v.status = p.status)
    <3> HIDE DEF p, w
    <3> QED BY <2>3 DEF PolicyVersion
  <2> HIDE DEF v
  <2> QED BY <2>1, <2>4
<1> QED BY <1>2, <1>3, <1>4, <1>5, <1>6

(* Somebody else writes a node and adds no taint. *)
LEMMA NodeUpdateInv ==
  ASSUME Inv, NEW n \in Nodes, NEW v \in NodeVersion, NodeUpdate(n, v),
         v # NoNode /\ v.hasTaint => n \in Tainted
  PROVE  Inv'
<1>1. /\ nodeLog' = [nodeLog EXCEPT ![n] = Append(@, v)]
      /\ UNCHANGED <<policyLog, due, passVars, faults>>
      /\ changes' \in Nat
  BY DEF NodeUpdate, StoreNode, Change, Inv, TypeOK
<1>2. /\ UNCHANGED <<policyLog, pc, copy, current, newStatus, requeue, apply, remove, failed>>
      /\ due' \in Delays \cup {Never} /\ faults' \in Nat /\ failed' \in BOOLEAN
  BY <1>1 DEF passVars, Inv, TypeOK, PassTypeOK
<1> QED BY <1>1, <1>2, NodeWriteInv

(* Detectors, users and out-of-band removals change an existing node and   *)
(* add no taint.                                                           *)
LEMMA NodeEdited ==
  ASSUME Inv, NEW n \in Nodes,
         FlipCondition(n) \/ Restamp(n) \/ Relabel(n) \/ RemoveOutOfBand(n)
  PROVE  \E v \in NodeVersion : /\ NodeUpdate(n, v)
                                /\ v # NoNode /\ v.hasTaint => n \in Tainted
<1> DEFINE o == Stored(nodeLog[n])
<1>1. Exists(n)
  BY DEF FlipCondition, Restamp, Relabel, RemoveOutOfBand, Tainted
<1>2. o \in NodeObject /\ o # NoNode
  BY <1>1, StoredTypes DEF Exists, NodeVersion, Inv, TypeOK
<1>3. o.hasTaint => n \in Tainted
  BY <1>1 DEF Tainted
<1>4. CASE FlipCondition(n) \/ Restamp(n)
  <2>1. PICK s \in ConditionStatuses \cup {StatusAbsent}, t \in Timestamps :
          NodeUpdate(n, [o EXCEPT !.status = s, !.lastTransition = t])
    <3>1. CASE FlipCondition(n)
      <4>1. {ZeroTime} \cup 0 .. MaxSkew \subseteq Timestamps
        BY DEF Timestamps
      <4> QED BY <3>1, <4>1 DEF FlipCondition
    <3>2. CASE Restamp(n)
      <4>1. PICK t \in Timestamps : NodeUpdate(n, [o EXCEPT !.lastTransition = t])
        BY <3>2 DEF Restamp
      <4>2. /\ o.status \in ConditionStatuses \cup {StatusAbsent}
            /\ [o EXCEPT !.lastTransition = t] = [o EXCEPT !.status = o.status, !.lastTransition = t]
        <5> HIDE DEF o
        <5> QED BY <1>2 DEF NodeObject
      <4> QED BY <4>1, <4>2
    <3> QED BY <1>4, <3>1, <3>2
  <2> DEFINE v == [o EXCEPT !.status = s, !.lastTransition = t]
  <2>2. v \in NodeObject /\ v.hasTaint = o.hasTaint
    <3> HIDE DEF o
    <3> QED BY <1>2 DEF NodeObject
  <2>3. v \in NodeVersion /\ NodeUpdate(n, v)
    BY <2>1, <2>2 DEF NodeVersion
  <2> HIDE DEF v, o
  <2> QED BY <1>3, <2>2, <2>3 DEF o
<1>5. CASE Relabel(n)
  <2>1. PICK l \in Labels \ {o.labels} : NodeUpdate(n, [o EXCEPT !.labels = l])
    BY <1>5 DEF Relabel
  <2> DEFINE v == [o EXCEPT !.labels = l]
  <2>2. v \in NodeObject /\ v.hasTaint = o.hasTaint
    <3> HIDE DEF o
    <3> QED BY <1>2 DEF NodeObject
  <2>3. v \in NodeVersion /\ NodeUpdate(n, v)
    BY <2>1, <2>2 DEF NodeVersion
  <2> HIDE DEF v, o
  <2> QED BY <1>3, <2>2, <2>3 DEF o
<1>6. CASE RemoveOutOfBand(n)
  <2> DEFINE v == [o EXCEPT !.hasTaint = FALSE]
  <2>1. NodeUpdate(n, v)
    BY <1>6 DEF RemoveOutOfBand
  <2>2. v \in NodeObject /\ ~v.hasTaint
    <3> HIDE DEF o
    <3> QED BY <1>2 DEF NodeObject
  <2>3. v \in NodeVersion
    BY <2>2 DEF NodeVersion
  <2> HIDE DEF v, o
  <2> QED BY <2>1, <2>2, <2>3
<1> QED BY <1>4, <1>5, <1>6

(* Nodes leave and join, the latter without the taint. *)
LEMMA NodeReplaced ==
  ASSUME NEW n \in Nodes, DeleteNode(n) \/ CreateNode(n)
  PROVE  \E v \in NodeVersion : /\ NodeUpdate(n, v)
                                /\ v # NoNode /\ v.hasTaint => n \in Tainted
<1>1. CASE DeleteNode(n)
  BY <1>1 DEF DeleteNode, NodeVersion
<1>2. CASE CreateNode(n)
  <2>1. PICK l \in Labels : NodeUpdate(n, [labels |-> l, status |-> StatusAbsent,
                                           lastTransition |-> ZeroTime, hasTaint |-> FALSE])
    BY <1>2 DEF CreateNode
  <2> DEFINE v == [labels |-> l, status |-> StatusAbsent,
                   lastTransition |-> ZeroTime, hasTaint |-> FALSE]
  <2>2. v \in NodeObject /\ ~v.hasTaint
    BY DEF NodeObject, Timestamps
  <2>3. v \in NodeVersion /\ NodeUpdate(n, v)
    BY <2>1, <2>2 DEF NodeVersion
  <2> HIDE DEF v
  <2> QED BY <2>2, <2>3
<1> QED BY <1>1, <1>2

(* None of them adds the taint. *)
LEMMA NodeStepInv ==
  ASSUME Inv, NEW n \in Nodes, NodeChange(n)
  PROVE  Inv'
<1>1. PICK v \in NodeVersion : NodeUpdate(n, v) /\ (v # NoNode /\ v.hasTaint => n \in Tainted)
  BY NodeEdited, NodeReplaced DEF NodeChange
<1> QED BY <1>1, NodeUpdateInv

(* A node that gets older is a node with the same taint. *)
LEMMA AgedType ==
  ASSUME NEW v \in NodeVersion
  PROVE  /\ Aged(v) \in NodeVersion
         /\ (Aged(v) # NoNode /\ Aged(v).hasTaint) = (v # NoNode /\ v.hasTaint)
<1>1. CASE v = NoNode
  BY <1>1 DEF Aged, NodeVersion
<1>2. CASE v # NoNode
  <2> DEFINE t == IF v.lastTransition = ZeroTime \/ v.lastTransition = -Horizon
                    THEN v.lastTransition ELSE v.lastTransition - 1
             w == [v EXCEPT !.lastTransition = t]
  <2>1. v \in NodeObject /\ v.lastTransition \in Timestamps
    BY <1>2 DEF NodeVersion, NodeObject
  <2>2. t \in Timestamps
    BY <2>1, ZeroTimeAssumption DEF Timestamps
  <2>3. Aged(v) = w
    BY <1>2, <2>1 DEF Aged, NodeObject
  <2>4. w \in NodeObject /\ w.hasTaint = v.hasTaint
    <3> HIDE DEF t
    <3> QED BY <2>1, <2>2 DEF NodeObject
  <2> HIDE DEF w
  <2> QED BY <1>2, <2>3, <2>4 DEF NodeVersion
<1> QED BY <1>1, <1>2

(* Time passes for every version of every node and changes no taint. *)
LEMMA TickEffect ==
  ASSUME Inv, Tick
  PROVE  /\ nodeLog' \in [Nodes -> Seq(NodeObject \cup {NoNode})]
         /\ \A n \in Nodes : nodeLog'[n] # << >>
         /\ Tainted' = Tainted
<1> DEFINE aged(n) == [i \in 1 .. Len(nodeLog[n]) |-> Aged(nodeLog[n][i])]
<1>1. nodeLog' = [n \in Nodes |-> aged(n)]
  BY DEF Tick
<1>2. ASSUME NEW n \in Nodes
      PROVE  /\ aged(n) \in Seq(NodeVersion) /\ aged(n) # << >>
             /\ Stored(aged(n)) = Aged(Stored(nodeLog[n]))
             /\ Stored(nodeLog[n]) \in NodeVersion
  <2>1. /\ nodeLog[n] \in Seq(NodeVersion) /\ Len(nodeLog[n]) \in Nat \ {0}
        /\ Stored(nodeLog[n]) \in NodeVersion
    BY LogStored DEF Inv, TypeOK, LogsTypeOK, NodeVersion
  <2>2. \A i \in 1 .. Len(nodeLog[n]) : Aged(nodeLog[n][i]) \in NodeVersion
    BY <2>1, AgedType
  <2>3. /\ aged(n) \in Seq(NodeVersion) /\ Len(aged(n)) = Len(nodeLog[n])
    BY <2>1, <2>2
  <2>4. aged(n) # << >>
    BY <2>1, <2>3
  <2>5. Stored(aged(n)) = Aged(Stored(nodeLog[n]))
    BY <2>1, <2>3 DEF Stored
  <2> QED BY <2>1, <2>3, <2>4, <2>5
<1> HIDE DEF aged
<1>3. /\ nodeLog' \in [Nodes -> Seq(NodeObject \cup {NoNode})]
      /\ \A n \in Nodes : nodeLog'[n] # << >>
  BY <1>1, <1>2 DEF NodeVersion
<1>4. Tainted' = Tainted
  <2>1. \A n \in Nodes : Stored(nodeLog'[n]) = Aged(Stored(nodeLog[n]))
    BY <1>1, <1>2
  <2>2. \A n \in Nodes : (Stored(nodeLog'[n]) # NoNode /\ Stored(nodeLog'[n]).hasTaint)
                       = (Stored(nodeLog[n]) # NoNode /\ Stored(nodeLog[n]).hasTaint)
    BY <1>2, <2>1, AgedType
  <2> QED BY <2>2 DEF Tainted, Exists
<1> QED BY <1>3, <1>4

(* Time also brings the next pass closer. *)
LEMMA TickInv ==
  ASSUME Inv, Tick
  PROVE  Inv'
<1>1. /\ UNCHANGED <<policyLog, passVars>>
      /\ due' \in Delays \cup {Never} /\ changes' \in Nat /\ faults' \in Nat
  BY DEF Tick, Inv, TypeOK, Delays
<1> QED BY <1>1, TickEffect, NodeCacheInv

-----------------------------------------------------------------------------

(* A pass that finds nothing to do changes only the queue. *)
LEMMA ReconcileNothingInv ==
  ASSUME Inv, ReconcileNothing
  PROVE  Inv'
<1>1. /\ due' \in Delays \cup {Never} /\ UNCHANGED <<policyLog, nodeLog, passVars>>
      /\ changes' \in Nat /\ faults' \in Nat
  BY DEF ReconcileNothing, Dequeue, Inv, TypeOK
<1> QED BY <1>1, QueueStepInv

(* Every step preserves the invariant: one lemma above per action. *)
LEMMA StepInv ==
  ASSUME Inv, [Next]_vars
  PROVE  Inv'
<1>1. CASE WorkerStep
  BY <1>1, ReconcileNothingInv, StartPassInv, AddFinalizerInv, AddFinalizerUnacknowledgedInv,
     ObserveInvalidSpecInv, ObserveInv, ApplyTaintToInv, RemoveTaintFromInv,
     TaintWriteFailsInv, WriteStatusInv, ListNodesInv, RemoveFinalizerInv, ErrorInv, Zenon
  DEF WorkerStep, QuietStep, StatusStep, TaintStep
<1>2. CASE DeliverPolicy \/ (\E n \in Nodes : DeliverNode(n)) \/ RelistPolicy \/ RelistNodes
           \/ Restart
  BY <1>2, DeliverPolicyInv, DeliverNodeInv, RelistPolicyInv, RelistNodesInv, RestartInv, Zenon
<1>3. CASE EnvironmentStep
  BY <1>3, CreatePolicyInv, EditSpecInv, EditStatusInv, DeletePolicyInv, CollectGarbageInv,
     NodeStepInv, Zenon
  DEF EnvironmentStep
<1>4. CASE Tick
  BY <1>4, TickInv
<1>5. CASE UNCHANGED vars
  <2>1. /\ due' \in Delays \cup {Never} /\ UNCHANGED <<policyLog, nodeLog, passVars>>
        /\ changes' \in Nat /\ faults' \in Nat
    BY <1>5 DEF vars, Inv, TypeOK
  <2> QED BY <2>1, QueueStepInv
<1> QED BY <1>1, <1>2, <1>3, <1>4, <1>5 DEF Next, ClusterStep

(* The inductive invariant holds in every reachable state, for any nodes,  *)
(* labels and specs, any lag of the informers and any number of changes    *)
(* and faults.                                                             *)
THEOREM InvHolds == Spec => []Inv
<1>1. Init => Inv
  BY InitInv
<1>2. Inv /\ [Next]_vars => Inv'
  BY StepInv
<1> QED BY <1>1, <1>2, PTL DEF Spec

(* Type correctness: no delay of the work queue exceeds the longest window *)
(* plus the clock skew, the deferred status write always finds a status    *)
(* and every branch of Reconcile a policy.                                 *)
THEOREM TypeCorrect == Spec => []TypeOK
<1>1. Inv => TypeOK
  BY DEF Inv
<1> QED BY <1>1, InvHolds, PTL

(* A taint never outlives its policy: while a node carries the taint the   *)
(* policy exists under the operator's finalizer, whatever interleaves with *)
(* cleanupTaints and wherever a pass is cut short.                       *)
THEOREM TaintNeverStranded == Spec => []NoStrandedTaint
<1>1. Inv => NoStrandedTaint
  BY DEF Inv
<1> QED BY <1>1, InvHolds, PTL

=============================================================================
