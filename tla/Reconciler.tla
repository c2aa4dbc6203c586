----------------------------- MODULE Reconciler -----------------------------
(***************************************************************************)
(* The controller (internal/controller) running against the API server:    *)
(* one policy, the cluster's nodes, the informer caches the reconciler     *)
(* reads, the work queue, and one worker whose pass is a sequence of       *)
(* requests that anything may interleave with and any of which may fail.   *)
(* controller-runtime runs one pass at a time (MaxConcurrentReconciles is  *)
(* left at 1).                                                             *)
(*                                                                         *)
(* An object is a log of the versions the API server has stored and the    *)
(* informer has not passed yet: the first is what the cache shows, the     *)
(* last is what the API server holds.  A write appends a version, a watch  *)
(* event drops the first one.                                              *)
(*                                                                         *)
(* EnsureTaint and RemoveTaint are single steps here: module TaintPatch    *)
(* shows that they are atomic.  Time is relative, as in RemediationLoop.   *)
(***************************************************************************)
EXTENDS NodeEvents, Sequences

CONSTANTS
  Nodes,        \* node names
  Specs,        \* specs the policy can be given
  Horizon,      \* ages are counted up to here
  MaxSkew,      \* how far ahead of the operator a node's clock may be
  Never,        \* nothing is scheduled
  NoNode,       \* the node does not exist
  NoPolicy,     \* the policy does not exist
  MaxLag,       \* bound on the versions an informer is behind
  MaxChanges,   \* bound on the changes users, kubelets and detectors make
  MaxFaults,    \* bound on failed requests, failed reads, broken watches and restarts
  WatchesBreak  \* whether a watch can break and be replaced by a list

Timestamps == {ZeroTime} \cup (-Horizon) .. MaxSkew

NodeObject ==
  [labels : Labels, status : ConditionStatuses \cup {StatusAbsent},
   lastTransition : Timestamps, hasTaint : BOOLEAN]

taintCleanupFinalizer == "warden.scality.com/taint-cleanup"
foregroundDeletion    == "foregroundDeletion"   \* stands for anybody else's finalizer

Finalizers == {taintCleanupFinalizer, foregroundDeletion}

(* The node lists of the status, by their names in a Decision. *)
ListNames == {"selectedNodes", "matchedNodes", "pendingNodes", "unknownNodes",
              "heldMissingTimestamp", "remediatedNodes"}

Reasons == {"", "InvalidSpec", "GuardTripped", "NodesRemediated", "Pending",
            "Held", "NoRemediation"}

(* The Remediating condition; nodes is the number its message reports. *)
RemediatingCondition == [reason : Reasons, nodes : Nat, observedGeneration : Nat]

Status ==
  [lists : [ListNames -> SUBSET Nodes], counts : [ListNames -> Nat],
   condition : RemediatingCondition]

EmptyStatus ==
  [lists     |-> [f \in ListNames |-> {}],
   counts    |-> [f \in ListNames |-> 0],
   condition |-> [reason |-> "", nodes |-> 0, observedGeneration |-> 0]]

(* Specs as users write them, and as the operator's Updates leave them. *)
StoredSpecs == Specs \cup {WrittenBack(s) : s \in Specs}

PolicyObject ==
  [generation : Nat, spec : StoredSpecs, deleting : BOOLEAN,
   finalizers : SUBSET Finalizers, status : Status]

ASSUME ReconcilerAssumption ==
  /\ IsFiniteSet(Nodes)
  /\ Horizon \in Nat /\ MaxSkew \in Nat /\ ZeroTime < -Horizon
  /\ MaxLag \in Nat /\ MaxChanges \in Nat /\ MaxFaults \in Nat
  /\ WatchesBreak \in BOOLEAN
  /\ Never \notin Nat
  /\ NoNode \notin NodeObject
  /\ NoPolicy \notin PolicyObject
  /\ \A s \in StoredSpecs : /\ projectPolicy(s).debounceEnter \in 0 .. Horizon
                            /\ projectPolicy(s).debounceExit \in 0 .. Horizon

VARIABLES
  policyLog,   \* the policy, as a log of versions
  nodeLog,     \* nodeLog[n]: node n, as a log of versions
  due,         \* the policy's work-queue entry: delay until it is ready, or Never
  pc,          \* the request the worker's pass makes next, or "idle"
  copy,        \* the policy object the pass holds
  current,     \* copy has the resourceVersion of the stored policy
  apply,       \* nodes the pass still has to taint
  remove,      \* nodes the pass still has to untaint
  newStatus,   \* the status the pass is going to write
  requeue,     \* the delay the pass is going to return
  failed,      \* a taint write of this pass has failed
  changes,     \* changes the environment has left
  faults       \* faults left

passVars == <<pc, copy, current, apply, remove, newStatus, requeue, failed>>
vars == <<policyLog, nodeLog, due, passVars, changes, faults>>

Cached(log) == log[1]
Stored(log) == log[Len(log)]

Exists(n) == Stored(nodeLog[n]) # NoNode
Tainted   == {n \in Nodes : Exists(n) /\ Stored(nodeLog[n]).hasTaint}

(* The facts a pass gathers from the cache; those it would gather uncached. *)
CachedFacts ==
  [n \in {m \in Nodes : Cached(nodeLog[m]) # NoNode} |-> Cached(nodeLog[n])]
StoredFacts ==
  [n \in {m \in Nodes : Exists(m)} |-> Stored(nodeLog[n])]

(* A node stamped by a clock that is ahead waits for its window and for    *)
(* the operator's clock to catch up.                                       *)
Delays == 0 .. (Horizon + MaxSkew)

LogsTypeOK ==
  /\ policyLog \in Seq(PolicyObject \cup {NoPolicy}) /\ policyLog # << >>
  /\ nodeLog \in [Nodes -> Seq(NodeObject \cup {NoNode})]
  /\ \A n \in Nodes : nodeLog[n] # << >>

PassTypeOK ==
  /\ pc \in {"idle", "addFinalizer", "observe", "act", "listNodes", "cleanup"}
  /\ pc # "idle" => copy \in PolicyObject
  /\ current \in BOOLEAN
  /\ apply \in SUBSET Nodes
  /\ remove \in SUBSET Nodes
  /\ newStatus \in Status
  /\ requeue \in Delays
  /\ failed \in BOOLEAN

(* The types, with the bound of every delay: neither Decide nor the work   *)
(* queue ever schedules a pass further away than the longest window plus   *)
(* the skew of the clocks, and a pass acts only on nodes of the cluster.   *)
TypeOK ==
  /\ LogsTypeOK
  /\ PassTypeOK
  /\ due \in Delays \cup {Never}
  /\ changes \in Nat
  /\ faults \in Nat

NewPolicy(s) ==
  [generation |-> 1, spec |-> s, deleting |-> FALSE, finalizers |-> {},
   status |-> EmptyStatus]

(* The operator starts on a cluster whose nodes are in any condition, with *)
(* a policy that was just created or none, and fresh caches.               *)
Init ==
  /\ \E p \in {NewPolicy(s) : s \in Specs} \cup {NoPolicy} :
       /\ policyLog = <<p>>
       /\ due = IF p = NoPolicy THEN Never ELSE 0
  /\ \E v \in [Nodes -> {o \in NodeObject : /\ ~o.hasTaint
                                            /\ o.status = StatusAbsent => o.lastTransition = ZeroTime}
                        \cup {NoNode}] :
       nodeLog = [n \in Nodes |-> <<v[n]>>]
  /\ pc = "idle" /\ copy = NoPolicy /\ current = FALSE
  /\ apply = {} /\ remove = {} /\ newStatus = EmptyStatus
  /\ requeue = 0 /\ failed = FALSE
  /\ changes = MaxChanges /\ faults = MaxFaults

-----------------------------------------------------------------------------
(* The work queue and the API server. *)

(* AddAfter keeps the earlier of two deadlines. *)
Sooner(d, e) ==
  CASE d = Never            -> e
    [] e = Never            -> d
    [] d # Never /\ e # Never -> IF d <= e THEN d ELSE e

StorePolicy(p) == /\ Len(policyLog) <= MaxLag
                  /\ policyLog' = Append(policyLog, p)

StoreNode(n, v) == /\ Len(nodeLog[n]) <= MaxLag
                   /\ nodeLog' = [nodeLog EXCEPT ![n] = Append(@, v)]

(* EnsureTaint and RemoveTaint on an existing node; no change, no write.   *)
SetTaint(n, value) ==
  /\ Exists(n)
  /\ IF Stored(nodeLog[n]).hasTaint = value
       THEN UNCHANGED nodeLog
       ELSE StoreNode(n, [Stored(nodeLog[n]) EXCEPT !.hasTaint = value])

Fault == faults > 0 /\ faults' = faults - 1

(* The pass returns: the key is requeued after delay, or not at all.       *)
EndPass(delay) ==
  /\ due' = Sooner(due, delay)
  /\ pc' = "idle" /\ copy' = NoPolicy /\ current' = FALSE
  /\ apply' = {} /\ remove' = {} /\ newStatus' = EmptyStatus
  /\ requeue' = 0 /\ failed' = FALSE

(* The pass returns an error: the key is requeued with a backoff.  A step  *)
(* may come arbitrarily late, which covers every length of the backoff.    *)
EndPassWithError == EndPass(0)

-----------------------------------------------------------------------------
(* Reconcile: get the policy, keep its finalizer. *)

HasFinalizer(p) == taintCleanupFinalizer \in p.finalizers

Dequeue == pc = "idle" /\ due = 0 /\ due' = Never

(* Mutant of NothingToDo: a deleted policy is projected before its cleanup. *)
NothingToDoUnlessProjected(p) ==
  p # NoPolicy => p.deleting /\ (~HasFinalizer(p) \/ ~ValidSelector(p.spec))

(* The policy is gone, or going and already cleaned up. *)
NothingToDo(p) == p # NoPolicy => p.deleting /\ ~HasFinalizer(p)

ReconcileNothing ==
  /\ Dequeue
  /\ NothingToDo(Cached(policyLog))
  /\ UNCHANGED <<policyLog, nodeLog, passVars, changes, faults>>

StartPass ==
  /\ Dequeue
  /\ LET p == Cached(policyLog)
     IN  /\ ~NothingToDo(p)
         /\ copy' = p
         /\ current' = (Len(policyLog) = 1)
         /\ pc' = CASE p.deleting                      -> "listNodes"
                    [] ~p.deleting /\ HasFinalizer(p)  -> "observe"
                    [] ~p.deleting /\ ~HasFinalizer(p) -> "addFinalizer"
  /\ UNCHANGED <<policyLog, nodeLog, apply, remove, newStatus, requeue, failed, changes, faults>>

(* An Update writes the spec back as well, which moves the generation when *)
(* that fills in a default.                                                *)
Updated(p) ==
  [p EXCEPT !.spec       = WrittenBack(@),
            !.generation = IF WrittenBack(p.spec) = p.spec THEN @ ELSE @ + 1]

(* Mutant of WithFinalizer: the finalizer is forgotten. *)
WithoutFinalizer(p) == Updated(p)

WithFinalizer(p) == [Updated(p) EXCEPT !.finalizers = @ \cup {taintCleanupFinalizer}]

(* The Update carries the resourceVersion of the copy, and its answer      *)
(* replaces the copy.                                                      *)
AddFinalizer ==
  /\ pc = "addFinalizer" /\ current
  /\ StorePolicy(WithFinalizer(copy))
  /\ copy' = WithFinalizer(copy)
  /\ pc' = "observe"
  /\ UNCHANGED <<nodeLog, due, current, apply, remove, newStatus, requeue, failed,
                 changes, faults>>

AddFinalizerUnacknowledged ==
  /\ pc = "addFinalizer" /\ current /\ Fault
  /\ StorePolicy(WithFinalizer(copy))
  /\ EndPassWithError
  /\ UNCHANGED <<nodeLog, changes>>

-----------------------------------------------------------------------------
(* Reconcile, live policy: observe, decide, act. *)

Mark(p, reason, nodes) ==
  [reason |-> reason, nodes |-> nodes, observedGeneration |-> p.generation]

(* The Remediating condition: the first of these that applies. *)
ProjectedCondition(p, d) ==
  LET count(f) == Cardinality(d[f])
  IN  CASE d.guardTripped -> Mark(p, "GuardTripped", count("remediatedNodes"))
        [] ~d.guardTripped /\ d.remediatedNodes # {} ->
             Mark(p, "NodesRemediated", count("remediatedNodes"))
        [] ~d.guardTripped /\ d.remediatedNodes = {} /\ d.pendingNodes # {} ->
             Mark(p, "Pending", count("pendingNodes"))
        [] OTHER ->
             IF d.heldMissingTimestamp # {} \/ d.unknownNodes # {}
               THEN Mark(p, "Held", count("heldMissingTimestamp") + count("unknownNodes"))
               ELSE Mark(p, "NoRemediation", 0)

(* writeStatus. *)
ProjectedStatus(p, d) ==
  [lists     |-> [f \in ListNames |-> d[f]],
   counts    |-> [f \in ListNames |-> Cardinality(d[f])],
   condition |-> ProjectedCondition(p, d)]

(* Mutant of InvalidSpecStatus: the pass gives up without a word. *)
UnmarkedStatus == copy.status

(* MarkInvalidSpec keeps the node lists. *)
InvalidSpecStatus == [copy.status EXCEPT !.condition = Mark(copy, "InvalidSpec", 0)]

(* The spec does not project: touch no node. *)
ObserveInvalidSpec ==
  /\ pc = "observe" /\ ~ValidSelector(copy.spec)
  /\ newStatus' = InvalidSpecStatus
  /\ pc' = "act"
  /\ UNCHANGED <<policyLog, nodeLog, due, copy, current, apply, remove, requeue, failed,
                 changes, faults>>

Observe ==
  /\ pc = "observe" /\ ValidSelector(copy.spec)
  /\ pc' = "act"
  /\ \E d \in {Decide(projectPolicy(copy.spec), CachedFacts, 0)} :
       /\ apply' = d.applyTaint
       /\ remove' = d.removeTaint
       /\ requeue' = d.requeueAfter
       /\ newStatus' = ProjectedStatus(copy, d)
  /\ UNCHANGED <<policyLog, nodeLog, due, copy, current, failed, changes, faults>>

(* One EnsureTaint of the first loop. *)
ApplyTaintTo(n) ==
  /\ pc = "act" /\ n \in apply
  /\ SetTaint(n, TRUE)
  /\ apply' = apply \ {n}
  /\ UNCHANGED <<policyLog, due, pc, copy, current, remove, newStatus, requeue, failed,
                 changes, faults>>

(* One RemoveTaint of the second loop, or of cleanupTaints. *)
RemoveTaintFrom(n) ==
  /\ pc \in {"act", "cleanup"} /\ apply = {} /\ n \in remove
  /\ SetTaint(n, FALSE)
  /\ remove' = remove \ {n}
  /\ UNCHANGED <<policyLog, due, pc, copy, current, apply, newStatus, requeue, failed,
                 changes, faults>>

(* The node is gone, or the write failed (it may have landed all the       *)
(* same): remember the error and go on with the other nodes.               *)
TaintWriteFails(n) ==
  /\ \/ pc = "act" /\ n \in apply
     \/ pc \in {"act", "cleanup"} /\ apply = {} /\ n \in remove
  /\ \/ ~Exists(n) /\ UNCHANGED <<nodeLog, faults>>
     \/ Exists(n) /\ Fault /\ UNCHANGED nodeLog
     \/ Fault /\ SetTaint(n, n \in apply)
  /\ IF n \in apply THEN apply' = apply \ {n} /\ UNCHANGED remove
                    ELSE remove' = remove \ {n} /\ UNCHANGED apply
  /\ failed' = TRUE
  /\ UNCHANGED <<policyLog, due, pc, copy, current, newStatus, requeue, changes>>

(* The status patch is a JSON merge patch without a lock: it sends the     *)
(* fields in which the new status differs from the one the pass started    *)
(* with, and they overwrite those of whatever is stored.                   *)
Merged(stored, old, new) ==
  [lists     |-> [f \in ListNames |-> IF new.lists[f] # old.lists[f]
                                       THEN new.lists[f] ELSE stored.lists[f]],
   counts    |-> [f \in ListNames |-> IF new.counts[f] # old.counts[f]
                                       THEN new.counts[f] ELSE stored.counts[f]],
   condition |-> IF new.condition # old.condition
                   THEN new.condition ELSE stored.condition]

Acted == pc = "act" /\ apply = {} /\ remove = {}

StatusUnchanged == newStatus = copy.status

(* A patch that changes nothing makes no new version. *)
StorePatchedStatus ==
  LET p      == Stored(policyLog)
      status == Merged(p.status, copy.status, newStatus)
  IN  IF p = NoPolicy \/ status = p.status
        THEN UNCHANGED policyLog
        ELSE StorePolicy([p EXCEPT !.status = status])

(* Mutant of FinishPass: the taint errors of the pass are not returned. *)
FinishPassWithoutErrors == EndPass(IF requeue = 0 THEN Never ELSE requeue)

FinishPass ==
  IF failed THEN EndPassWithError
            ELSE EndPass(IF requeue = 0 THEN Never ELSE requeue)

(* The deferred write, if the status changed at all; NotFound is ignored.  *)
WriteStatus ==
  /\ Acted
  /\ IF StatusUnchanged THEN UNCHANGED policyLog ELSE StorePatchedStatus
  /\ FinishPass
  /\ UNCHANGED <<nodeLog, changes, faults>>

WriteStatusFails ==
  /\ Acted /\ ~StatusUnchanged /\ Fault
  /\ UNCHANGED policyLog \/ StorePatchedStatus
  /\ EndPassWithError
  /\ UNCHANGED <<nodeLog, changes>>

-----------------------------------------------------------------------------
(* Reconcile, deleted policy: cleanupTaints, then let the object go. *)

(* Mutant of NodesToClean: the cleanup reads the cache. *)
CachedNodesToClean == {n \in DOMAIN CachedFacts : CachedFacts[n].hasTaint}

(* The uncached list of the nodes that carry the key. *)
NodesToClean == Tainted

ListNodes ==
  /\ pc = "listNodes"
  /\ remove' = NodesToClean
  /\ pc' = "cleanup"
  /\ UNCHANGED <<policyLog, nodeLog, due, copy, current, apply, newStatus, requeue, failed,
                 changes, faults>>

(* Mutant of CleanedUp: the finalizer goes although a removal failed. *)
CleanedUpDespiteErrors == pc = "cleanup" /\ remove = {}

CleanedUp == pc = "cleanup" /\ remove = {} /\ ~failed

(* Mutant of CleanupFailed: the errors of the cleanup are not returned. *)
CleanupFailedSilently ==
  /\ pc = "cleanup" /\ remove = {} /\ failed
  /\ EndPass(Never)
  /\ UNCHANGED <<policyLog, nodeLog, changes, faults>>

CleanupFailed ==
  /\ pc = "cleanup" /\ remove = {} /\ failed
  /\ EndPassWithError
  /\ UNCHANGED <<policyLog, nodeLog, changes, faults>>

(* An object that is being deleted goes with its last finalizer. *)
Released(p) ==
  LET left == p.finalizers \ {taintCleanupFinalizer}
  IN  IF left = {} THEN NoPolicy ELSE [Updated(p) EXCEPT !.finalizers = left]

RemoveFinalizer ==
  /\ CleanedUp /\ current
  /\ StorePolicy(Released(copy))
  /\ EndPass(Never)
  /\ UNCHANGED <<nodeLog, changes, faults>>

RemoveFinalizerUnacknowledged ==
  /\ CleanedUp /\ current /\ Fault
  /\ StorePolicy(Released(copy))
  /\ EndPassWithError
  /\ UNCHANGED <<nodeLog, changes>>

(* Either Update of the policy conflicts, or finds it gone. *)
UpdateConflicts ==
  /\ pc = "addFinalizer" \/ CleanedUp
  /\ ~current
  /\ EndPassWithError
  /\ UNCHANGED <<policyLog, nodeLog, changes, faults>>

(* An Update is lost or refused, or a List fails: the pass ends there.     *)
RequestFails ==
  /\ pc \in {"addFinalizer", "listNodes"} \/ CleanedUp
       \/ (pc = "observe" /\ ValidSelector(copy.spec))
  /\ Fault
  /\ EndPassWithError
  /\ UNCHANGED <<policyLog, nodeLog, changes>>

StatusStep == WriteStatus \/ WriteStatusFails

TaintStep(n) == ApplyTaintTo(n) \/ RemoveTaintFrom(n)

(* The steps of a pass that record no event. *)
QuietStep ==
  \/ ReconcileNothing \/ StartPass \/ AddFinalizer \/ AddFinalizerUnacknowledged
  \/ ObserveInvalidSpec \/ Observe \/ \E n \in Nodes : TaintWriteFails(n)
  \/ ListNodes \/ CleanupFailed \/ RemoveFinalizer \/ RemoveFinalizerUnacknowledged
  \/ UpdateConflicts \/ RequestFails

WorkerStep == QuietStep \/ StatusStep \/ \E n \in Nodes : TaintStep(n)

-----------------------------------------------------------------------------
(* The informers.  A watch delivers the next version.  When a watch breaks *)
(* the informer lists again and jumps to the last version, and the handler *)
(* sees the difference between what the cache had and what it has now.     *)

(* Mutant of EnqueuedByPolicy: a generation-changed predicate. *)
EnqueuedByGeneration(old, new) ==
  old # NoPolicy /\ new # NoPolicy => old.generation # new.generation

(* The policy watch is not filtered. *)
EnqueuedByPolicy(old, new) == old # NoPolicy \/ new # NoPolicy

(* nodeEventHandler over the cached policies. *)
EnqueuedByNode(old, new) ==
  LET p == Cached(policyLog)
  IN  /\ p # NoPolicy
      /\ \/ old = NoNode /\ new # NoNode /\ EnqueuesOnExistence(p.spec, new)
         \/ old # NoNode /\ new = NoNode /\ EnqueuesOnExistence(p.spec, old)
         \/ old # NoNode /\ new # NoNode /\ EnqueuesOnUpdate(p.spec, old, new)

DeliverPolicy ==
  /\ Len(policyLog) > 1
  /\ policyLog' = Tail(policyLog)
  /\ due' = IF EnqueuedByPolicy(policyLog[1], policyLog[2]) THEN 0 ELSE due
  /\ UNCHANGED <<nodeLog, passVars, changes, faults>>

DeliverNode(n) ==
  /\ Len(nodeLog[n]) > 1
  /\ nodeLog' = [nodeLog EXCEPT ![n] = Tail(@)]
  /\ due' = IF EnqueuedByNode(nodeLog[n][1], nodeLog[n][2]) THEN 0 ELSE due
  /\ UNCHANGED <<policyLog, passVars, changes, faults>>

RelistPolicy ==
  /\ WatchesBreak /\ Fault
  /\ Len(policyLog) > 1
  /\ policyLog' = <<Stored(policyLog)>>
  /\ due' = IF EnqueuedByPolicy(Cached(policyLog), Stored(policyLog)) THEN 0 ELSE due
  /\ UNCHANGED <<nodeLog, passVars, changes>>

RelistNodes ==
  /\ WatchesBreak /\ Fault
  /\ \E n \in Nodes : Len(nodeLog[n]) > 1
  /\ nodeLog' = [n \in Nodes |-> <<Stored(nodeLog[n])>>]
  /\ due' = IF \E n \in Nodes : EnqueuedByNode(Cached(nodeLog[n]), Stored(nodeLog[n]))
              THEN 0 ELSE due
  /\ UNCHANGED <<policyLog, passVars, changes>>

(* The process dies and starts again: the queue and the pass are lost, the *)
(* caches are listed anew, and every listed policy is enqueued.            *)
Restart ==
  /\ Fault
  /\ policyLog' = <<Stored(policyLog)>>
  /\ nodeLog' = [n \in Nodes |-> <<Stored(nodeLog[n])>>]
  /\ due' = IF Stored(policyLog) = NoPolicy THEN Never ELSE 0
  /\ pc' = "idle" /\ copy' = NoPolicy /\ current' = FALSE
  /\ apply' = {} /\ remove' = {} /\ newStatus' = EmptyStatus
  /\ requeue' = 0 /\ failed' = FALSE
  /\ UNCHANGED changes

-----------------------------------------------------------------------------
(* Everybody else. *)

Change == changes > 0 /\ changes' = changes - 1

NodeUpdate(n, v) ==
  /\ Change
  /\ StoreNode(n, v)
  /\ UNCHANGED <<policyLog, due, passVars, faults>>

(* A detector flips the condition, or drops it.  It stamps the flip with   *)
(* its own clock, which may be ahead, or forgets to.                       *)
FlipCondition(n) ==
  /\ Exists(n)
  /\ \E s \in (ConditionStatuses \cup {StatusAbsent}) \ {Stored(nodeLog[n]).status},
        t \in {ZeroTime} \cup 0 .. MaxSkew :
       /\ s = StatusAbsent => t = ZeroTime
       /\ NodeUpdate(n, [Stored(nodeLog[n]) EXCEPT !.status = s, !.lastTransition = t])

(* A detector adds, drops or moves the timestamp and keeps the status. *)
Restamp(n) ==
  /\ Exists(n)
  /\ Stored(nodeLog[n]).status # StatusAbsent
  /\ \E t \in Timestamps \ {Stored(nodeLog[n]).lastTransition} :
       NodeUpdate(n, [Stored(nodeLog[n]) EXCEPT !.lastTransition = t])

Relabel(n) ==
  /\ Exists(n)
  /\ \E l \in Labels \ {Stored(nodeLog[n]).labels} :
       NodeUpdate(n, [Stored(nodeLog[n]) EXCEPT !.labels = l])

RemoveOutOfBand(n) ==
  /\ n \in Tainted
  /\ NodeUpdate(n, [Stored(nodeLog[n]) EXCEPT !.hasTaint = FALSE])

DeleteNode(n) == Exists(n) /\ NodeUpdate(n, NoNode)

CreateNode(n) ==
  /\ ~Exists(n)
  /\ \E l \in Labels :
       NodeUpdate(n, [labels |-> l, status |-> StatusAbsent,
                      lastTransition |-> ZeroTime, hasTaint |-> FALSE])

NodeChange(n) ==
  \/ FlipCondition(n) \/ Restamp(n) \/ Relabel(n) \/ RemoveOutOfBand(n)
  \/ DeleteNode(n) \/ CreateNode(n)

(* Any write of somebody else moves the policy's resourceVersion. *)
PolicyUpdate(p) ==
  /\ Change
  /\ StorePolicy(p)
  /\ current' = FALSE
  /\ UNCHANGED <<nodeLog, due, pc, copy, apply, remove, newStatus, requeue, failed, faults>>

CreatePolicy ==
  /\ Stored(policyLog) = NoPolicy
  /\ \E s \in Specs : PolicyUpdate(NewPolicy(s))

EditSpec ==
  /\ Stored(policyLog) # NoPolicy
  /\ \E s \in Specs \ {Stored(policyLog).spec} :
       PolicyUpdate([Stored(policyLog) EXCEPT !.spec = s, !.generation = @ + 1])

EditStatus ==
  /\ Stored(policyLog) # NoPolicy
  /\ Stored(policyLog).status # EmptyStatus
  /\ PolicyUpdate([Stored(policyLog) EXCEPT !.status = EmptyStatus])

(* An object with a finalizer is marked, which moves its generation. *)
DeletePolicy ==
  /\ Stored(policyLog) # NoPolicy /\ ~Stored(policyLog).deleting
  /\ \E foreground \in SUBSET {foregroundDeletion} :
       LET kept == Stored(policyLog).finalizers \cup foreground
       IN  PolicyUpdate(IF kept = {} THEN NoPolicy
                        ELSE [Stored(policyLog) EXCEPT !.deleting = TRUE, !.finalizers = kept,
                                                       !.generation = @ + 1])

(* The garbage collector takes its own finalizer off. *)
CollectGarbage ==
  /\ Stored(policyLog) # NoPolicy /\ foregroundDeletion \in Stored(policyLog).finalizers
  /\ LET left == Stored(policyLog).finalizers \ {foregroundDeletion}
     IN  PolicyUpdate(IF left = {} THEN NoPolicy
                      ELSE [Stored(policyLog) EXCEPT !.finalizers = left])

EnvironmentStep ==
  \/ CreatePolicy \/ EditSpec \/ EditStatus \/ DeletePolicy \/ CollectGarbage
  \/ \E n \in Nodes : NodeChange(n)

Aged(v) ==
  IF v = NoNode THEN NoNode
  ELSE [v EXCEPT !.lastTransition = IF @ = ZeroTime \/ @ = -Horizon THEN @ ELSE @ - 1]

Tick ==
  /\ nodeLog' = [n \in Nodes |-> [i \in 1 .. Len(nodeLog[n]) |-> Aged(nodeLog[n][i])]]
  /\ due' = IF due = Never \/ due = 0 THEN due ELSE due - 1
  /\ UNCHANGED <<policyLog, passVars, changes, faults>>

ClusterStep ==
  \/ DeliverPolicy \/ \E n \in Nodes : DeliverNode(n)
  \/ RelistPolicy \/ RelistNodes \/ Restart
  \/ EnvironmentStep
  \/ Tick

Next == WorkerStep \/ ClusterStep

(* The worker serves its queue, watches deliver, clocks advance. *)
Fairness ==
  /\ WF_vars(WorkerStep)
  /\ WF_vars(DeliverPolicy)
  /\ \A n \in Nodes : WF_vars(DeliverNode(n))
  /\ WF_vars(Tick)

Spec == Init /\ [][Next]_vars /\ Fairness

-----------------------------------------------------------------------------

Live(p) == p # NoPolicy /\ ~p.deleting

(* Holds(p): the finalizer keeps policy p from going away. *)
Holds(p) == p # NoPolicy /\ HasFinalizer(p)

(* A taint never outlives its policy: while any node carries the taint the *)
(* policy object exists and the operator's finalizer keeps it, whatever    *)
(* the caches show, wherever a pass is interrupted, and however deletion   *)
(* and re-creation interleave with a pass ("deleting a policy does not     *)
(* leave nodes tainted forever").                                          *)
NoStrandedTaint == Tainted # {} => Holds(Stored(policyLog))

(* Why NoStrandedTaint holds.  A version a cache may still show as live    *)
(* and protected is a promise that the stored policy is protected: the     *)
(* finalizer goes only in a pass that read a deleted version, and caches   *)
(* never go back.                                                          *)
ShownVersionsHeld ==
  \A i \in 1 .. Len(policyLog) :
    Live(policyLog[i]) /\ HasFinalizer(policyLog[i]) => Holds(Stored(policyLog))

(* A pass that may taint runs under the finalizer to its end. *)
ActingPassHeld == pc \in {"observe", "act"} => Holds(Stored(policyLog))

(* What the branches of Reconcile know of the object they hold. *)
BranchFollowsCopy ==
  /\ pc = "addFinalizer" => Live(copy)
  /\ pc \in {"listNodes", "cleanup"} => copy # NoPolicy /\ copy.deleting
  /\ pc # "act" => apply = {}

(* Before either Update an unmoved resourceVersion means that the cache    *)
(* shows the stored policy and nothing else is on its way.                 *)
LockMeansNoLag ==
  pc \in {"addFinalizer", "listNodes", "cleanup"} /\ current => policyLog = <<copy>>

(* The cleanup has seen every taint there is. *)
CleanupCoversTaints == pc = "cleanup" /\ ~failed => Tainted \subseteq remove

(* The inductive invariant of the finalizer protocol of Reconcile and      *)
(* cleanupTaints: NoStrandedTaint and the reasons for it.                  *)
Inv ==
  /\ TypeOK
  /\ NoStrandedTaint
  /\ ShownVersionsHeld
  /\ ActingPassHeld
  /\ BranchFollowsCopy
  /\ LockMeansNoLag
  /\ CleanupCoversTaints

(* The finalizer protocol, seen from the nodes. *)
OwnershipPhase(p) ==
  CASE ~Holds(p)               -> "free"
    [] Holds(p) /\ ~p.deleting -> "owned"
    [] Holds(p) /\ p.deleting  -> "releasing"

Ownership ==
  INSTANCE TaintOwnership WITH phase   <- OwnershipPhase(Stored(policyLog)),
                               tainted <- Tainted

(* The finalizer makes the policy own its taint: no request of any pass,   *)
(* however stale the copy it works from, taints a node before the policy   *)
(* is protected, takes the protection from a live policy, gives it back to *)
(* a deleted one, or lets a policy go in the same step or before the last  *)
(* node is clean.                                                          *)
ImplementsOwnership == Ownership!Spec

(* Nothing is running, scheduled or on its way to a cache. *)
Quiescent ==
  /\ pc = "idle" /\ due = Never
  /\ Len(policyLog) = 1
  /\ \A n \in Nodes : Len(nodeLog[n]) = 1

(* What a pass would decide and publish now. *)
Wanted == Decide(projectPolicy(Stored(policyLog).spec), StoredFacts, 0)

Reconcilable == Live(Stored(policyLog)) /\ ValidSelector(Stored(policyLog).spec)

(* No wake-up is lost: when the operator has come to rest, every node the  *)
(* policy selects is as the policy wants it, now and for as long as        *)
(* nothing changes.                                                        *)
RestMeansConverged ==
  Quiescent /\ Reconcilable =>
    /\ Wanted.applyTaint = {}
    /\ Wanted.removeTaint \cap Wanted.selectedNodes = {}
    /\ Wanted.requeueAfter = 0

(* At rest the published status is the one the cluster deserves, in every  *)
(* list, count and the Remediating condition, although it is patched field *)
(* by field, without a lock, against a copy that may be stale; a spec that *)
(* does not project is reported as such.                                   *)
RestMeansTruthfulStatus ==
  LET p == Stored(policyLog)
  IN  Quiescent /\ Live(p) =>
        /\ p.status.condition.observedGeneration = p.generation
        /\ IF ValidSelector(p.spec)
             THEN /\ \A f \in ListNames : p.status.lists[f] = Wanted[f]
                  /\ \A f \in ListNames : p.status.counts[f] = Cardinality(Wanted[f])
                  /\ p.status.condition = ProjectedCondition(p, Wanted)
             ELSE p.status.condition.reason = "InvalidSpec"

(* At rest a live policy is protected and a deleted one has been let go.   *)
RestMeansFinalizerSettled ==
  Quiescent /\ Stored(policyLog) # NoPolicy =>
    HasFinalizer(Stored(policyLog)) = ~Stored(policyLog).deleting

(* A deletion completes: the finalizer does not block it for ever. *)
DeletionCompletes ==
  (Stored(policyLog) # NoPolicy /\ Stored(policyLog).deleting) ~> ~Holds(Stored(policyLog))

(* When the cluster stops changing the operator comes to rest: its own     *)
(* writes do not wake it for ever.                                         *)
ComesToRest == <>[]Quiescent

(* "remove it so the node is not left tainted forever": at rest no node    *)
(* outside the selector carries the taint.                                 *)
RestMeansScopedOutReleased ==
  Quiescent /\ Reconcilable => Wanted.removeTaint = {}

=============================================================================
