--------------------------- MODULE EventRecording ---------------------------
(***************************************************************************)
(* The events the reconciler records while it works: the edge-triggered    *)
(* warnings on the policy and the taint events on nodes.  Both are history *)
(* variables over Reconciler: nothing reads them back.  The recorder is    *)
(* asynchronous; an event counts from the call that hands it over.         *)
(***************************************************************************)
EXTENDS Reconciler

VARIABLES
  warned,      \* what the operator has ever warned about
  lastEvent    \* lastEvent[n]: the last taint event of n, or "" when others
               \* have taken the taint off since, or deleted n

eventVars == <<warned, lastEvent>>

reasonTaintApplied == "TaintApplied"
reasonTaintRemoved == "TaintRemoved"

(* What a status reports and a warning announces: a reason of the policy,  *)
(* or a node that is held for want of a timestamp.                         *)
ReportedReason(status) == {status.condition.reason} \cap {"GuardTripped", "InvalidSpec"}

ReportedNodes(status) == status.lists["heldMissingTimestamp"]

Reported(status) == ReportedReason(status) \cup ReportedNodes(status)

EventsInit ==
  /\ Init
  /\ warned = {} /\ lastEvent = [n \in Nodes |-> ""]

-----------------------------------------------------------------------------

(* Mutant of oldHeld: captured after writeStatus has overwritten it. *)
OldHeldOverwritten == ReportedNodes(newStatus)

oldHeld == ReportedNodes(copy.status)

oldReason == copy.status.condition.reason

(* The warnings of the pass.  A spec that does not project is reported     *)
(* whenever the status changes, the others when they are new to the copy.  *)
Warnings ==
  IF ValidSelector(copy.spec)
    THEN (ReportedReason(newStatus) \ {oldReason}) \cup (ReportedNodes(newStatus) \ oldHeld)
    ELSE IF StatusUnchanged THEN {} ELSE ReportedReason(newStatus)

(* They are handed to the recorder before the status is written. *)
RecordWarnings ==
  /\ warned' = warned \cup Warnings
  /\ UNCHANGED lastEvent

(* Mutant of Changed: the event is decided from the cached node. *)
ChangedInCache(n) ==
  Cached(nodeLog[n]) # NoNode => Cached(nodeLog[n]).hasTaint # (n \in apply)

(* What EnsureTaint and RemoveTaint report. *)
Changed(n) == Stored(nodeLog[n]).hasTaint # (n \in apply)

(* A call that changed nothing, or failed, records nothing. *)
recordTaintAction(n) ==
  /\ lastEvent' = CASE ~Changed(n) -> lastEvent
                    [] Changed(n)  -> [lastEvent EXCEPT ![n] =
                         IF n \in apply THEN reasonTaintApplied ELSE reasonTaintRemoved]
  /\ UNCHANGED warned

OthersStep ==
  /\ ClusterStep
  /\ lastEvent' = [n \in Nodes |-> IF (n \in Tainted) = (n \in Tainted')
                                     THEN lastEvent[n] ELSE ""]
  /\ UNCHANGED warned

EventsNext ==
  \/ QuietStep /\ UNCHANGED eventVars
  \/ StatusStep /\ RecordWarnings
  \/ \E n \in Nodes : TaintStep(n) /\ recordTaintAction(n)
  \/ OthersStep

EventsSpec == EventsInit /\ [][EventsNext]_<<vars, eventVars>>

-----------------------------------------------------------------------------

(* Nothing is reported in silence: the stored status never shows a tripped *)
(* guard, a held node or a spec that does not project of which no warning  *)
(* was ever recorded, although each pass decides what is new from the copy *)
(* it holds and its patch may land on a different object.                  *)
ReportedMeansWarned ==
  Stored(policyLog) # NoPolicy => Reported(Stored(policyLog).status) \subseteq warned

(* The events of a node tell its taint: as long as no request has failed,  *)
(* the last event of a node says TaintApplied exactly while it is tainted, *)
(* re-assertions and cleanups included, however stale the cache is.        *)
EventsTellTaint ==
  faults = MaxFaults =>
    \A n \in Nodes : n \in Tainted <=> lastEvent[n] = reasonTaintApplied

(* "The guard warning fires only when the guard newly trips; the           *)
(* missing-timestamp warning only for a newly held node": no warning is    *)
(* recorded of what the stored status reports already.                     *)
WarnsOnlyOfNews ==
  [][StatusStep /\ Stored(policyLog) # NoPolicy =>
       Warnings \cap Reported(Stored(policyLog).status) = {}]_<<vars, eventVars>>

=============================================================================
