# node-warden-operator in TLA+

A verification development for node-warden-operator: TLA+ models of the
operator, TLC runs that check them on small instances, and TLAPS proofs of the
properties that matter most for every instance.

## 1. The system

A `NodeRemediationPolicy` (cluster-scoped) maps a node condition to a taint.
One controller reconciles each policy: it observes the selected nodes, decides
with a pure function which of them gain or lose the taint, writes the taints,
and publishes a status. A finalizer keeps a deleted policy until its taints are
gone. A validating webhook keeps the taint keys of different policies apart.

| component | state | operations | correct when |
|---|---|---|---|
| decision core (`internal/remediation`) | none | `Decide`, `minPositive` | debounce, guard and hold rules; the requeue delay never misses a deadline |
| predicates and event mapping (`internal/predicate`, `nodeEventHandler`) | none | filter an event, map it to policies | every change that can alter a decision wakes the policy |
| controller (`internal/controller`) | the policy's finalizer and status, node taints; the queue and the caches around it | `Reconcile`, `cleanupTaints`, `writeStatus` | no taint outlives its policy; at rest the nodes and the status are right; deletions complete |
| event recording (`Reconcile`, `recordTaintAction`) | the events handed to the recorder | warnings of a pass, events of a taint change | nothing is reported in silence, nothing twice, and no change is claimed that was not made |
| taint writes (`internal/controller/taint.go`) | `spec.taints` of a node, shared with everybody | `EnsureTaint`, `RemoveTaint`, `patchTaintList` | each call is atomic and keeps foreign taints |
| webhook (`internal/webhook`) | none; reads the stored policies | `ValidateCreate`, `ValidateUpdate`, `ValidateDelete` | one policy per key acts on nodes; nobody is refused for ever |
| API types (`api/v1alpha1`) | the spec, with fields that may be absent, and the status | `...OrDefault`, markers the API server applies, `Mark*`, CEL rules | an absent field means the same wherever it is resolved; the taint never changes |
| wiring, generated code, manifests, test helpers | | | not modelled |

The components meet in shared objects rather than in calls: the controller
reads policies and nodes from informer caches, writes them at the API server,
and learns of its own writes through the same watches as of everybody else's.
Its two `Update`s of a policy pass through the webhook.

What is hard to test here: caches that lag behind what the operator itself has
written; a pass that is a sequence of requests, any of which may fail, land
without a reply, or be the last one before the process dies; wake-ups that
exist only as the difference of two cached versions; a merge patch without a
lock; a read-modify-write of a list others write; a check in the webhook that
is stale when the object is stored; deadlines, zero timestamps and clocks that
disagree. `PROJECT.json` lists these hazards, each at its line.

## 2. The modules

    Remediation      Decide, as operators on a function from node names to facts
      PolicySpec     a spec with absent fields, its defaults and its projection
        NodeEvents   the watch predicates and nodeEventHandler
          RemediationLoop   the loop over time; a pass is one step
          Reconciler        the controller: a pass is a sequence of requests
            EventRecording  the events the controller records on its way
    TaintOwnership   abstract: the taint is acquired, used and released;
                     implemented by Reconciler
    TaintStore       abstract: a taint write is one atomic step
      TaintPatch     patchTaintList, which implements it
    PolicyAdmission  several policies and the webhook

`MC*` modules give constants small values; `*Proofs` modules hold theorems.

**Remediation.** Node lists are sets (the code sorts them before publishing
and never looks at their order). `Selected`, `Matched`, `Pending`, `Exiting`,
`HeldMissingTimestamp` are the branches of the loop in `Decide`; `Waits` and
`MinPositive` are its requeue. A selector is the set of label sets it matches.
Go's zero time is a constant below every age, so that the time since it is as
misleadingly large as the saturated `now.Sub`.

**PolicySpec.** A spec is a record whose fields may be `Unset`. `projectPolicy`
resolves them as the getters do. The API server fills in a default only below
an object that is present, so a policy created without `debounce` and `guard`
is stored without them; the operator's own `Update`, which serialises both
structs as empty objects, is stored with the defaults and moves the generation
in the middle of the pass (`WrittenBack`, and `Updated` in Reconciler).

**NodeEvents.** One policy means one condition type and one taint key, so a
changed-keys map is one Boolean. `EnqueuesOnUpdate` is the predicate of
`SetupWithManager` followed by the filter of `UpdateFunc`.

**RemediationLoop.** Time is relative: now is 0, a `lastTransitionTime` is a
negated age, and ages saturate at `Horizon`, beyond every window, so that the
state space is finite without a bound on the run. `wake` is the delay until the
next pass. Detectors may flip conditions, stamp them with a clock up to
`MaxSkew` ahead, omit the timestamp, add, bump or drop it, or set it back when
their clock steps. The last is the one change that brings a deadline forward and is
filtered all the same; the auxiliary variable `rewound` remembers the nodes it
concerns, and `NoOversleep` excepts them until the deadline of the old
timestamp and no longer. Users relabel nodes, remove
taints and edit the spec.

**TaintStore, TaintPatch.** `Get`, `Patch`, `PatchConflicts` and the failures
are the attempts of `RetryOnConflict`; `version` is the resourceVersion. The
other writers change anything, even delete and re-create the node. TaintPatch
has the variables of TaintStore and more, so the refinement mapping is the
identity: `ImplementsStore` is `StoreSpec`.

**Reconciler.** An object is a log of versions: the first is what the cache
shows, the last what the API server holds; a write appends, a watch event drops
the first, a relist drops all but the last. One action per request of
`Reconcile`:

| code | action |
|---|---|
| `Get`, early returns (91-119) | `ReconcileNothing`, `StartPass` |
| `Update` that adds the finalizer (100-106) | `AddFinalizer`, `AddFinalizerUnacknowledged` |
| `projectPolicy` fails (139-153) | `ObserveInvalidSpec` |
| `List`, `observeNodes`, `Decide`, `writeStatus` | `Observe` (both lists are local to the pass, so they are computed together) |
| the two taint loops (167-191) | `ApplyTaintTo`, `RemoveTaintFrom`, `TaintWriteFails` |
| deferred status patch and return (121-135, 225-230) | `WriteStatus`, `WriteStatusFails` |
| `cleanupTaints` (239-274) | `ListNodes`, `RemoveTaintFrom`, `TaintWriteFails`, `CleanupFailed` |
| `Update` that removes the finalizer (112-115) | `RemoveFinalizer`, `RemoveFinalizerUnacknowledged` |
| conflicts and failed requests | `UpdateConflicts`, `RequestFails` |
| informers, process | `DeliverPolicy`, `DeliverNode`, `RelistPolicy`, `RelistNodes`, `Restart` |

Detectors do here what they do in RemediationLoop: `FlipCondition` stamps a new
status with a clock up to `MaxSkew` ahead or leaves the timestamp out, and
`Restamp` adds, drops or moves the timestamp of a status that stays, which the
watch filters out unless the timestamp comes or goes. A delay may therefore be
as long as the longest window plus the skew (`Delays`). A deletion that finds a
finalizer marks the object and moves its generation, as the API server does.

A taint write is one step here; TaintPatch shows that this is justified.
`current` says whether the resourceVersion the pass holds is the stored one.
The status patch is modelled field by field (`Merged`): it sends the fields in
which the new status differs from the copy's and overwrites those of whatever
is stored.

`TaintOwnership` says what the finalizer promises, with two variables: a phase
(`free`, `owned`, `releasing`) and the set of tainted nodes. `ImplementsOwnership`
maps the phase to the stored policy's finalizer and deletion mark: stale caches,
locks, retries, restarts and passes disappear behind five steps.

**EventRecording.** History variables over Reconciler: `warned`, everything the
operator has warned about, and `lastEvent[n]`, the last taint event of a node
unless somebody else has removed the taint since. Every step of Reconciler is
joined with what it records: the status write with the warnings of the pass
(`Warnings` compares with the copy, as lines 193-223 and 147 do), a taint write
with the event of `recordTaintAction`, which depends on what `EnsureTaint` or
`RemoveTaint` report and not on the cache. An event counts from the call that
hands it to the recorder, which is asynchronous and best effort.

**PolicyAdmission.** A request is sent, admitted or rejected by the webhook
against the policies stored at that moment, and stored later. `current` is the
lock of the two finalizer `Update`s. A policy acts on nodes only under its
finalizer (module Reconciler), so "protected" is what has to be exclusive. An
edit may name any key or leave the taint out: two CEL rules stand in its way,
the one that requires a taint (`HasTaint`) and the one that compares with the
old taint (`TaintUnchanged`), which the API server evaluates only if there is
one before and after.

## 3. The runs

| run | checks | bounds |
|---|---|---|
| `remediation_loop` | `TypeOK`, `NoOversleep`, `DueNodesAreTainted`, `DueNodesAreReleased`, `LoopFallsSilent` | 2 nodes, 2 label sets, 2 specs (one by defaults, one triggers on Unknown), windows 0-2, skew 1; no bound on the run |
| `taint_patch` | `Inv`, `ForeignTaintsKept`, `ImplementsStore`, `CallsReturn` | 2 callers, 2 keys, 2 attempts, 2 versions |
| `reconciler` | `RestMeansConverged`, `RestMeansTruthfulStatus` | 1 node, 2 specs, skew 1, 2 changes, 1 fault, caches 1 version behind |
| `deletion` | `NoStrandedTaint`, `Inv`, `RestMeansFinalizerSettled`, `RestMeansTruthfulStatus`, `ImplementsOwnership` | 1 node, a spec that does not parse beside one that does, 2 changes, 1 fault, broken watches |
| `event_recording` | `RestMeansConverged`, `ReportedMeansWarned`, `EventsTellTaint` | 2 nodes, a 50% guard, a spec that does not parse, exit window 1, 1 change, 1 fault, caches 2 versions behind |
| `reconciler_live` | `DeletionCompletes`, `ComesToRest` | 1 node, the default spec, windows 1, 2 changes, 1 fault, broken watches, caches 1 version behind |
| `policy_admission` | `OneOwnerPerKey`, `Inv`, `TaintIsImmutable`, `UncontestedAreServed` | 2 policies, 2 keys, 2 users, 2 operators, 3 requests of users, 1 fault |

Two changes and one fault are enough for a change to hit a pass between any
two of its requests and for a second one to hit the pass that repairs it; the
initial states already contain every condition, label and window a node can
have. Two nodes are needed only where they interact: in the guard and in the
error of one node beside the success of the other. Two versions of lag show a
cache that misses the operator's own last write and one more. The run
`reconciler` has one version of lag to stay short; it holds with two as well
(`MaxLag = 2`, 4.9 million states), and `reconciler_live` holds with a skew of 1
(416,892 states). Two attempts contain a retry and an exhausted
limit; `MaxVersion` bounds the other writers, so a call would return even
without the limit, and the limit itself is what `AttemptLeft`, a part of
`TaintPatch!Inv`, checks. Skew is 0 in the other runs of Reconciler: it only
makes a delay longer. What does not depend on bounds is proved (section 5).

Five runs show that the code does not do what a comment or a document says;
`PROJECT.json` quotes the lines.

| run | refuted | in short |
|---|---|---|
| `guard_blast_radius` | `GuardLimitsRemediated` | the guard counts the nodes that match now, not those already tainted: successive passes exceed the percentage |
| `repeated_warning` | `WarnsOnlyOfNews` | the event of the finalizer `Update` wakes a second pass whose copy lacks the status the first has just written: it repeats the warning, without any fault (in the trace, the one of a selector that does not parse) |
| `scoped_out_taint` | `RestMeansScopedOutReleased` | a node that is relabelled out of the selector while a pass is about to taint it keeps the taint, because the event of the taint is filtered by the new labels |
| `lost_wake_up` | `RestMeansConverged` | when a broken watch hides that a taint was written and removed, the relist shows no difference and the taint is not re-asserted |
| `contested_deletion` | `DeletedPoliciesGo` | of two policies with one key, the protected one cannot be deleted: the webhook refuses the removal of its finalizer while its twin exists |

Two smaller mismatches need no run. `DESIGN.md:138-139` and `:179` say that a
deletion does not bump the generation, and give this as the reason for a policy
watch without a generation-changed predicate; the API server does bump it. The
predicate would be wrong all the same: an edit of the status would then go
unnoticed (the mutant of `RestMeansTruthfulStatus`). And `heldNodes` is documented as "the matched
nodes held" (`noderemediationpolicy_types.go:114`), while `Decide` also puts there
a cleared node that keeps its taint for want of a timestamp
(`HeldMissingTimestamp`).

The third and fourth last until the policy is reconciled for another reason, at
the latest the periodic resync of the policy informer (hours, by
controller-runtime's default), which the model leaves out.

Deadlock is checked except in `taint_patch` and the admission runs, where
nobody is obliged to act; elsewhere `Tick` is always possible, and
quiescence is the subject of `ComesToRest` and of the `RestMeans...`
invariants.

Every property has a mutant: the code changed as a plausible bug would change
it (a cached list in the cleanup, a generation-changed predicate on the policy
watch, a forgotten optimistic lock, an error that is logged and not returned),
under which TLC finds the property violated.

## 4. Fairness and assumptions

Fairness is weak except in one place. Clocks advance; controller-runtime's
worker takes the next step of its pass or the next ready key; watches deliver;
a request to the API server is answered or fails. Faults, restarts and changes
of the cluster are never fair: nothing makes them happen. In PolicyAdmission
the finalizer `Update`s are strongly fair: one worker serves several policies
from a queue that is first come first served, so each policy gets its turn
again and again although the worker is busy in between.

An error requeues with a growing backoff; the model requeues at once, and since
a step may be arbitrarily late this covers every backoff.

Assumed: users do not strip or preset the operator's finalizer and do not add
its taint key; informer caches never go back in time; a request in flight when
the process dies has landed or never lands; one worker per controller and one instance of it in Reconciler
(TaintPatch and PolicyAdmission allow overlapping instances). The named bounds
are `MaxLag`, `MaxChanges`, `MaxFaults`, `MaxVersion`, `Horizon`, `MaxSkew`.

## 5. The proofs

All theorems hold for any sets of nodes, specs, keys, callers, policies and
clients, and any bounds; their assumptions are the named `ASSUME`s of the
modules, which TLC evaluates in the runs.

**TaintPatchProofs.** `InvHolds`: `TaintPatch!Inv` is inductive. To map a
landed patch to an atomic change, the copy must equal the node (`ReadIsCurrent`,
because versions only grow and a matching version means nothing was written)
and the change must be a real one (`ReadNeedsChange`, or the call would report a
change it did not make). `PatchImplementsStore` is the refinement, step by
step; `PatchKeepsForeignTaints` the action property.

**ReconcilerProofs.** `TaintNeverStranded`: while a node carries the taint, the
stored policy exists and has the finalizer. By itself this is not inductive. A
pass may act on a cached version long gone from the API server, so the
invariant says of every version a cache may still show as live and protected
that the stored policy is protected (`ShownVersionsHeld`); a pass that acts is
then covered to its end (`ActingPassHeld`). When the finalizer goes, the lock
implies that the cache has nothing left to show (`LockMeansNoLag`) and the
uncached list that no taint is left (`CleanupCoversTaints`, which needs that
only one worker taints and that this worker is in the cleanup). One lemma per
action, grouped where actions disturb the same conjuncts. `TypeCorrect` bounds
every requeue by the longest window plus the skew of the clocks; it rests on
**RemediationProofs**, the lemmas on `MinPositive` and `Decide`.

**OwnershipProofs.** `ControllerOwnsTaints`: Reconciler implements
TaintOwnership. From `Inv`, each step is mapped to a step or a stutter of the
abstract specification. The steps that matter are the two `Update`s (the lock
says the stored policy is the copy, so the phase moves from free to owned, or
from releasing to free, and then `CleanupCoversTaints` says that no node is
tainted), the taint writes (`ActingPassHeld` says the phase is not free), the
status patch, which lands on whatever is stored and leaves the phase alone, and
users' edits and deletions.

**PolicyAdmissionProofs.** `KeysHaveOneOwner`: two policies with one key never
both have the finalizer, although the webhook cannot keep them from being
stored. The strengthening counts an admitted `Update` whose lock still holds
like a stored one (`OneGrantPerKey`): the second admission sees the first
policy, which by `LockMeansUnchanged` exists with the key the request names.
`TaintNeverChanges`: no admitted request changes a taint; it needs both rules
and, for the finalizer `Update`s, `LockMeansUnchanged`.

**RemediationLoopProofs.** `LoopNeverOversleeps`: before its next requeue the
loop has nothing to do, and nothing at all when it asked for none. `NoOversleep`
speaks about every moment to come and is not inductive; `WakesInTime` says the
same of the deadlines: no scoped-out node is tainted, nobody waits when nothing
is scheduled, and the delay is at most what each waiting node still has to wait
(those whose timestamp was set back excepted). It rests on `RequeueCoversWaits`
(a delay of 0 means that everybody due is acted on, any other is the least
wait) and on `QuietUpdate` (an update the filters drop leaves a node out of
scope or changes only its timestamp). `LoopTypeCorrect` bounds the delay by the
longest window plus the skew.

**EventRecordingProofs.** `NothingReportedInSilence`: a patch may land on a
newer object than the copy its warnings were compared with, so the invariant is
about everything such a comparison may start from: each version in the log
(`VersionsWarned`) and the copy of the pass (`CopyWarned`) report only what has
been warned of; and a pass that gives up on the spec keeps the held nodes
(`InvalidSpecKeepsNodes`). `EventsTellTheTaint`: as long as no request has
failed the last event of a node tells its taint.

**SettlingProofs.** What holds at rest depends on everything the operator went
through before; the proofs turn it into an invariant of a policy that is
*undisturbed*: its cache is up to date and no pass is ready to run. Whatever
disturbs it (an error, a write of the policy, an event that passes the filter,
a restart) brings another pass, so nothing has to be said of disturbed states
(`UndisturbedStep`); and a step that leaves the policy undisturbed shows it
nothing it would notice, because the handler drops only such events
(`DroppedEvent`, `UndisturbedFacts`).

- `FinalizerSettlesAtRest`, `StatusTruthfulAtRest`: in an undisturbed state the
  pass holds the stored policy (`PassHoldsStored`), prepares the status its
  cache deserves (`StatusPrepared`) and leaves it behind (`PolicySettled`): a
  patch that makes no new version wanted to change nothing (`MergedUnchanged`).
  The status is the whole of it: every list, every count and the `Remediating`
  condition with its reason (`ProjectedCondition`), which depends on the lists
  and the guard alone (`SameCondition`) and so does not age.
  Broken watches are included.
- `ConvergedAtRest`: as long as watches do not break, every selected node is as
  the policy wants it. A pass that returns no delay leaves behind only nodes of
  which a version the watch can tell from the cached one is on its way
  (`NobodyForgotten`, `OnItsWay`); so when nothing is scheduled everybody who
  waits has such a version (`NobodyWaits`), and it cannot reach the cache
  without waking the policy (`StaysOnItsWay`): a version the cache takes over
  unnoticed looks like the one before it, so the one that differs is still
  behind it. At rest nothing is on its way. With broken watches the statement
  is false: a list may skip the version that differs, and the run
  `lost_wake_up` is the counterexample.

Every invariant of the passing runs is now proved. Only model-checked are the
liveness properties (`DueNodesAreTainted`, `DueNodesAreReleased`,
`LoopFallsSilent`, `CallsReturn`, `DeletionCompletes`, `ComesToRest`,
`UncontestedAreServed`): temporal reasoning under fairness is out of the
prover's reach.

## 6. Not modelled

- Logs, the wording of events and conditions, and the delivery of events by
  the recorder.
- The CEL rules on the formats of keys, values, effects and durations:
  stateless checks of one request. A stored policy always has a taint, so the
  branches for a policy without one (controller lines 241, 310 and 468) are
  not reached.
- Several policies in one controller. They share the worker and the nodes but
  neither keys nor conditions: `PolicyAdmission` shows that two protected
  policies never have one key, and `Reconciler` is the pass of one of them.
- Two instances of the operator in Reconciler: leader election makes them rare
  but the code has no fencing, and a patch delayed in a paused instance past
  the cleanup of the other would leave its taint.
- A `List` that fails in `enqueuePolicies`, which the synced cache serves.
- The process wiring, generated code, manifests and test helpers.

Condition and taint *values* other than those a policy looks at never concern
it and are left out.

## 7. Plan

Done: the decision core, specs and their defaults, the predicates, the loop
over time with clocks that are ahead or step back, the taint writes and the
controller, each with its abstract specification, event recording, the webhook
with the rules on the taint. Every invariant that a passing run checks, both
refinements and the action properties are proved.

Next, in this order:

1. lemmas that say what `Decide` promises for each node: what it applies and
   removes is disjoint, Unknown nodes in scope are never touched, a tripped
   guard applies nothing;
2. the safety half of the liveness properties: a step of a pass that nobody
   disturbs never undoes the progress of an earlier one;
3. `LockMeansNoLag` and its neighbours for two workers, which shows exactly
   where overlapping instances of the operator break the ownership.
