------------------------ MODULE EventRecordingProofs ------------------------
(***************************************************************************)
(* What the operator's events say is true, for any nodes, labels and       *)
(* specs, any lag of the caches and any number of changes and faults:      *)
(* nothing is reported in a status without a warning, and the events of a  *)
(* node tell its taint.                                                    *)
(***************************************************************************)
EXTENDS EventRecording, ReconcilerProofs

USE ReconcilerAssumption DEF Live, Holds, HasFinalizer

(* Every version of the policy, cached, on its way or stored. *)
VersionsWarned ==
  \A i \in 1 .. Len(policyLog) :
    policyLog[i] # NoPolicy => Reported(policyLog[i].status) \subseteq warned

(* The copy a pass compares with: what is not new to it was announced. *)
CopyWarned == pc # "idle" => Reported(copy.status) \subseteq warned

(* A pass over a spec that does not project holds no other nodes back. *)
InvalidSpecKeepsNodes ==
  pc = "act" /\ ~ValidSelector(copy.spec) =>
    ReportedNodes(newStatus) = ReportedNodes(copy.status)

WarnInv == VersionsWarned /\ CopyWarned /\ InvalidSpecKeepsNodes

-----------------------------------------------------------------------------
(* Warnings. *)

(* An empty status reports nothing. *)
LEMMA NothingReported == Reported(EmptyStatus) = {}
BY DEF Reported, ReportedReason, ReportedNodes, EmptyStatus, ListNames

(* A merge patch reports nothing that neither status reports. *)
LEMMA MergedReports ==
  ASSUME NEW stored, NEW old, NEW new
  PROVE  /\ ReportedReason(Merged(stored, old, new))
              \subseteq ReportedReason(stored) \cup ReportedReason(new)
         /\ ReportedNodes(Merged(stored, old, new))
              \subseteq ReportedNodes(stored) \cup ReportedNodes(new)
<1>1. Merged(stored, old, new).condition \in {stored.condition, new.condition}
  BY DEF Merged
<1>2. ReportedNodes(Merged(stored, old, new)) \in {ReportedNodes(stored), ReportedNodes(new)}
  BY DEF Merged, ReportedNodes, ListNames
<1> QED BY <1>1, <1>2 DEF ReportedReason

(* The operator's own Updates keep the status. *)
LEMMA UpdatesKeepStatus ==
  ASSUME NEW p \in PolicyObject
  PROVE  /\ WithFinalizer(p).status = p.status
         /\ Released(p) # NoPolicy => Released(p).status = p.status
<1>1. Updated(p) \in PolicyObject /\ Updated(p).status = p.status
  <2>1. Updated(p).status = p.status
    BY DEF Updated, PolicyObject
  <2> QED BY <2>1, UpdatedType
<1>2. \A f : [Updated(p) EXCEPT !.finalizers = f].status = p.status
  BY <1>1 DEF PolicyObject
<1> QED BY <1>2 DEF WithFinalizer, Released

(* A version is stored of which everything has been announced. *)
LEMMA AppendWarned ==
  ASSUME LogsTypeOK, VersionsWarned, NEW v \in PolicyVersion, policyLog' = Append(policyLog, v),
         warned \subseteq warned', v # NoPolicy => Reported(v.status) \subseteq warned'
  PROVE  VersionsWarned'
<1>1. /\ Len(policyLog) \in Nat
      /\ Len(policyLog') = Len(policyLog) + 1
      /\ \A i \in 1 .. Len(policyLog') :
           policyLog'[i] = IF i <= Len(policyLog) THEN policyLog[i] ELSE v
  BY LogAppend DEF LogsTypeOK, PolicyVersion
<1>2. ASSUME NEW i \in 1 .. Len(policyLog'), policyLog'[i] # NoPolicy
      PROVE  Reported(policyLog'[i].status) \subseteq warned'
  <2>1. CASE i <= Len(policyLog)
    <3>1. i \in 1 .. Len(policyLog) /\ policyLog'[i] = policyLog[i]
      BY <1>1, <2>1
    <3> QED BY <1>2, <3>1 DEF VersionsWarned
  <2>2. CASE ~(i <= Len(policyLog))
    BY <1>1, <1>2, <2>2
  <2> QED BY <2>1, <2>2
<1> QED BY <1>2 DEF VersionsWarned

(* Versions are forgotten, none is added. *)
LEMMA ForgettingWarned ==
  ASSUME VersionsWarned, warned \subseteq warned',
         \A i \in 1 .. Len(policyLog') : \E j \in 1 .. Len(policyLog) :
           policyLog'[i] = policyLog[j]
  PROVE  VersionsWarned'
BY DEF VersionsWarned

(* The stored version is one of them. *)
LEMMA StoredWarned ==
  ASSUME LogsTypeOK, VersionsWarned
  PROVE  /\ ReportedMeansWarned
         /\ Cached(policyLog) # NoPolicy => Reported(Cached(policyLog).status) \subseteq warned
<1>1. Len(policyLog) \in 1 .. Len(policyLog) /\ 1 \in 1 .. Len(policyLog)
  BY LogStored DEF LogsTypeOK
<1> QED BY <1>1 DEF VersionsWarned, ReportedMeansWarned, Stored, Cached

(* Neither the policy nor what a pass knows of it changes. *)
LEMMA KeptWarned ==
  ASSUME WarnInv, UNCHANGED <<policyLog, pc, copy, newStatus, warned>>
  PROVE  WarnInv'
BY DEF WarnInv, VersionsWarned, CopyWarned, InvalidSpecKeepsNodes

(* No pass is left. *)
LEMMA IdleWarned ==
  ASSUME VersionsWarned', pc' = "idle"
  PROVE  WarnInv'
BY DEF WarnInv, CopyWarned, InvalidSpecKeepsNodes

(* A pass starts from the cached version. *)
LEMMA StartPassWarned ==
  ASSUME Inv, WarnInv, StartPass, UNCHANGED warned
  PROVE  WarnInv'
<1>1. /\ UNCHANGED policyLog /\ copy' = Cached(policyLog) /\ pc' # "act"
      /\ Cached(policyLog) # NoPolicy
  BY DEF StartPass, NothingToDo
<1>2. Reported(copy'.status) \subseteq warned
  BY <1>1, StoredWarned DEF Inv, TypeOK, WarnInv
<1> QED BY <1>1, <1>2 DEF WarnInv, VersionsWarned, CopyWarned, InvalidSpecKeepsNodes

(* The Updates of the finalizer store the status of the copy. *)
LEMMA FinalizerWarned ==
  ASSUME Inv, WarnInv, UNCHANGED warned,
         \/ AddFinalizer \/ AddFinalizerUnacknowledged
         \/ RemoveFinalizer \/ RemoveFinalizerUnacknowledged
  PROVE  WarnInv'
<1>1. copy \in PolicyObject /\ Reported(copy.status) \subseteq warned
  BY DEF AddFinalizer, AddFinalizerUnacknowledged, RemoveFinalizer, CleanedUp,
         RemoveFinalizerUnacknowledged, Inv, TypeOK, PassTypeOK, WarnInv, CopyWarned
<1>2. CASE AddFinalizer
  <2>1. /\ policyLog' = Append(policyLog, WithFinalizer(copy))
        /\ copy' = WithFinalizer(copy) /\ pc' = "observe"
    BY <1>2 DEF AddFinalizer, StorePolicy
  <2>2. /\ WithFinalizer(copy) \in PolicyVersion
        /\ Reported(WithFinalizer(copy).status) \subseteq warned
    BY <1>1, WithFinalizerType, UpdatesKeepStatus DEF PolicyVersion
  <2>3. VersionsWarned'
    BY <2>1, <2>2, AppendWarned DEF Inv, TypeOK, WarnInv
  <2> QED BY <2>1, <2>2, <2>3 DEF WarnInv, CopyWarned, InvalidSpecKeepsNodes
<1>3. CASE AddFinalizerUnacknowledged
  <2>1. policyLog' = Append(policyLog, WithFinalizer(copy)) /\ pc' = "idle"
    BY <1>3 DEF AddFinalizerUnacknowledged, StorePolicy, EndPassWithError, EndPass
  <2>2. /\ WithFinalizer(copy) \in PolicyVersion
        /\ Reported(WithFinalizer(copy).status) \subseteq warned
    BY <1>1, WithFinalizerType, UpdatesKeepStatus DEF PolicyVersion
  <2>3. VersionsWarned'
    BY <2>1, <2>2, AppendWarned DEF Inv, TypeOK, WarnInv
  <2> QED BY <2>1, <2>3, IdleWarned
<1>4. CASE RemoveFinalizer \/ RemoveFinalizerUnacknowledged
  <2>1. policyLog' = Append(policyLog, Released(copy)) /\ pc' = "idle"
    BY <1>4 DEF RemoveFinalizer, RemoveFinalizerUnacknowledged, StorePolicy,
       EndPassWithError, EndPass
  <2>2. Released(copy) \in PolicyVersion
    <3>1. copy.finalizers \ {taintCleanupFinalizer} \in SUBSET Finalizers
      BY <1>1 DEF PolicyObject
    <3> QED BY <1>1, <3>1, UpdatedType, PolicyExceptType DEF Released, PolicyVersion
  <2>3. Released(copy) # NoPolicy => Reported(Released(copy).status) \subseteq warned
    BY <1>1, UpdatesKeepStatus
  <2>4. VersionsWarned'
    BY <2>1, <2>2, <2>3, AppendWarned DEF Inv, TypeOK, WarnInv
  <2> QED BY <2>1, <2>4, IdleWarned
<1> QED BY <1>2, <1>3, <1>4

(* The pass decides what it is going to report. *)
LEMMA ObserveWarned ==
  ASSUME Inv, WarnInv, ObserveInvalidSpec \/ Observe, UNCHANGED warned
  PROVE  WarnInv'
<1>1. UNCHANGED <<policyLog, copy>> /\ pc = "observe" /\ pc' = "act"
  BY DEF ObserveInvalidSpec, Observe
<1>2. VersionsWarned' /\ CopyWarned'
  BY <1>1 DEF WarnInv, VersionsWarned, CopyWarned
<1>3. CASE Observe
  BY <1>1, <1>2, <1>3 DEF Observe, WarnInv, InvalidSpecKeepsNodes
<1>4. CASE ObserveInvalidSpec
  <2>1. copy \in PolicyObject
    BY <1>1 DEF Inv, TypeOK, PassTypeOK
  <2>2. newStatus'.lists = copy.status.lists
    BY <1>4, <2>1 DEF ObserveInvalidSpec, InvalidSpecStatus, PolicyObject, Status
  <2> QED BY <1>1, <1>2, <2>2 DEF WarnInv, InvalidSpecKeepsNodes, ReportedNodes
<1> QED BY <1>3, <1>4

(* The warnings are recorded before the status is written.  What the pass   *)
(* does not announce the copy reported already, and the copy was announced; *)
(* what the patch leaves alone is the stored version's, announced as well. *)
LEMMA StatusStepWarned ==
  ASSUME Inv, WarnInv, StatusStep, RecordWarnings
  PROVE  WarnInv'
<1> DEFINE p      == Stored(policyLog)
           status == Merged(p.status, copy.status, newStatus)
           v      == [p EXCEPT !.status = status]
<1>1. /\ pc = "act" /\ pc' = "idle"
      /\ \/ UNCHANGED policyLog
         \/ ~StatusUnchanged /\ StorePatchedStatus
  BY DEF StatusStep, WriteStatus, WriteStatusFails, Acted, FinishPass, EndPassWithError, EndPass
<1>2. warned' = warned \cup Warnings
  BY DEF RecordWarnings
<1>3. CASE UNCHANGED policyLog
  <2>1. VersionsWarned'
    BY <1>2, <1>3 DEF WarnInv, VersionsWarned
  <2> QED BY <1>1, <2>1, IdleWarned
<1>4. CASE ~StatusUnchanged /\ StorePatchedStatus /\ ~UNCHANGED policyLog
  <2>1. p # NoPolicy /\ policyLog' = Append(policyLog, v)
    BY <1>4 DEF StorePatchedStatus, StorePolicy
  <2>2. p \in PolicyObject /\ newStatus \in Status /\ copy \in PolicyObject
    BY <1>1, <2>1, StoredTypes DEF PolicyVersion, Inv, TypeOK, PassTypeOK
  <2>3. status \in Status
    <3>1. p.status \in Status /\ copy.status \in Status
      BY <2>2 DEF PolicyObject
    <3> HIDE DEF p
    <3> QED BY <2>2, <3>1, MergedType
  <2>4. v \in PolicyVersion /\ v.status = status
    <3> HIDE DEF p, status
    <3> QED BY <2>2, <2>3 DEF PolicyObject, PolicyVersion
  <2>5. Reported(p.status) \subseteq warned /\ Reported(copy.status) \subseteq warned
    BY <1>1, <2>1, StoredWarned DEF Inv, TypeOK, WarnInv, CopyWarned, ReportedMeansWarned
  <2>6. ReportedReason(newStatus) \cup ReportedNodes(newStatus) \subseteq warned'
    <3>1. CASE ValidSelector(copy.spec)
      <4>1. /\ ReportedReason(newStatus) \ {copy.status.condition.reason} \subseteq warned'
            /\ ReportedNodes(newStatus) \ ReportedNodes(copy.status) \subseteq warned'
        BY <1>2, <3>1 DEF Warnings, oldReason, oldHeld
      <4>2. \A r \in ReportedReason(newStatus) :
              r = copy.status.condition.reason => r \in Reported(copy.status)
        BY DEF Reported, ReportedReason
      <4>3. ReportedNodes(copy.status) \subseteq Reported(copy.status)
        BY DEF Reported
      <4> QED BY <1>2, <2>5, <4>1, <4>2, <4>3
    <3>2. CASE ~ValidSelector(copy.spec)
      <4>1. ReportedReason(newStatus) \subseteq warned'
        BY <1>2, <1>4, <3>2 DEF Warnings
      <4>2. ReportedNodes(newStatus) \subseteq Reported(copy.status)
        BY <1>1, <3>2 DEF WarnInv, InvalidSpecKeepsNodes, Reported
      <4> QED BY <1>2, <2>5, <4>1, <4>2
    <3> QED BY <3>1, <3>2
  <2>7. Reported(status) \subseteq warned'
    <3>1. ReportedReason(p.status) \cup ReportedNodes(p.status) \subseteq warned'
      BY <1>2, <2>5 DEF Reported
    <3> HIDE DEF p
    <3>2. /\ ReportedReason(status) \subseteq ReportedReason(p.status) \cup ReportedReason(newStatus)
          /\ ReportedNodes(status) \subseteq ReportedNodes(p.status) \cup ReportedNodes(newStatus)
      BY MergedReports
    <3> HIDE DEF status
    <3> QED BY <2>6, <3>1, <3>2 DEF Reported
  <2>8. VersionsWarned'
    <3> HIDE DEF v, status, p
    <3> QED BY <1>2, <2>1, <2>4, <2>7, AppendWarned DEF Inv, TypeOK, WarnInv
  <2> QED BY <1>1, <2>8, IdleWarned
<1> QED BY <1>1, <1>3, <1>4

(* Everybody else stores what the policy reported, or nothing. *)
LEMMA ClusterWarned ==
  ASSUME Inv, WarnInv, ClusterStep, UNCHANGED warned
  PROVE  WarnInv'
<1>1. CASE DeliverPolicy
  <2>1. /\ Len(policyLog) > 1 /\ policyLog' = Tail(policyLog)
        /\ UNCHANGED <<pc, copy, newStatus>>
    BY <1>1 DEF DeliverPolicy, passVars
  <2>2. /\ Len(policyLog) \in Nat /\ Len(policyLog') = Len(policyLog) - 1
        /\ \A i \in 1 .. Len(policyLog') : policyLog'[i] = policyLog[i + 1]
    BY <2>1, LogTail DEF Inv, TypeOK, LogsTypeOK
  <2>3. \A i \in 1 .. Len(policyLog') : i + 1 \in 1 .. Len(policyLog)
    BY <2>2
  <2>4. VersionsWarned'
    BY <2>2, <2>3, ForgettingWarned DEF WarnInv
  <2> QED BY <2>1, <2>4 DEF WarnInv, CopyWarned, InvalidSpecKeepsNodes
<1>2. CASE RelistPolicy
  <2>1. policyLog' = <<Stored(policyLog)>> /\ UNCHANGED <<pc, copy, newStatus>>
    BY <1>2 DEF RelistPolicy, passVars
  <2>2. VersionsWarned'
    BY <2>1, Relisted, ForgettingWarned DEF WarnInv, Inv, TypeOK
  <2> QED BY <2>1, <2>2 DEF WarnInv, CopyWarned, InvalidSpecKeepsNodes
<1>3. CASE Restart
  <2>1. policyLog' = <<Stored(policyLog)>> /\ pc' = "idle"
    BY <1>3 DEF Restart
  <2>2. VersionsWarned'
    BY <2>1, Relisted, ForgettingWarned DEF WarnInv, Inv, TypeOK
  <2> QED BY <2>1, <2>2, IdleWarned
<1>4. CASE RelistNodes \/ Tick \/ \E n \in Nodes : DeliverNode(n)
  <2>1. UNCHANGED <<policyLog, pc, copy, newStatus>>
    BY <1>4 DEF RelistNodes, Tick, DeliverNode, passVars
  <2> QED BY <2>1, KeptWarned
<1>5. ASSUME NEW n \in Nodes, NodeChange(n)
      PROVE  WarnInv'
  <2>1. UNCHANGED <<policyLog, pc, copy, newStatus>>
    BY <1>5 DEF NodeChange, FlipCondition, Restamp, Relabel, RemoveOutOfBand, DeleteNode,
       CreateNode, NodeUpdate, passVars
  <2> QED BY <2>1, KeptWarned
<1>6. CASE CreatePolicy \/ EditSpec \/ EditStatus \/ DeletePolicy \/ CollectGarbage
  <2>1. PICK v \in PolicyVersion :
          /\ PolicyUpdate(v)
          /\ v # NoPolicy => \/ v.status = EmptyStatus
                             \/ /\ Stored(policyLog) # NoPolicy
                                /\ v.status = Stored(policyLog).status
    BY <1>6, PolicyEdited
  <2>2. policyLog' = Append(policyLog, v) /\ UNCHANGED <<pc, copy, newStatus>>
    BY <2>1 DEF PolicyUpdate, StorePolicy
  <2>3. v # NoPolicy => Reported(v.status) \subseteq warned
    BY <2>1, StoredWarned, NothingReported DEF Inv, TypeOK, WarnInv, ReportedMeansWarned
  <2>4. VersionsWarned'
    BY <2>2, <2>3, AppendWarned DEF Inv, TypeOK, WarnInv
  <2> QED BY <2>2, <2>4 DEF WarnInv, CopyWarned, InvalidSpecKeepsNodes
<1> QED BY <1>1, <1>2, <1>3, <1>4, <1>5, <1>6 DEF ClusterStep, EnvironmentStep

(* The steps of a pass that record no event. *)
LEMMA QuietWarned ==
  ASSUME Inv, WarnInv, QuietStep, UNCHANGED warned
  PROVE  WarnInv'
<1>1. CASE CleanupFailed \/ UpdateConflicts \/ RequestFails
  <2>1. UNCHANGED policyLog /\ pc' = "idle"
    BY <1>1 DEF CleanupFailed, UpdateConflicts, RequestFails, EndPassWithError, EndPass
  <2>2. VersionsWarned'
    BY <2>1 DEF WarnInv, VersionsWarned
  <2> QED BY <2>1, <2>2, IdleWarned
<1>2. CASE ReconcileNothing \/ \E n \in Nodes : TaintWriteFails(n)
  <2>1. UNCHANGED <<policyLog, pc, copy, newStatus>>
    BY <1>2 DEF ReconcileNothing, TaintWriteFails, passVars
  <2> QED BY <2>1, KeptWarned
<1>3. CASE ListNodes
  BY <1>3 DEF ListNodes, WarnInv, VersionsWarned, CopyWarned, InvalidSpecKeepsNodes
<1> QED BY <1>1, <1>2, <1>3, StartPassWarned, FinalizerWarned, ObserveWarned DEF QuietStep

-----------------------------------------------------------------------------
(* Taint events. *)

(* The faults left are at most all of them: one that is spent is not       *)
(* regained, so EventsTellTaint says something of a prefix of the run.     *)
TaintInv ==
  /\ lastEvent \in [Nodes -> {"", reasonTaintApplied, reasonTaintRemoved}]
  /\ faults <= MaxFaults
  /\ EventsTellTaint

(* Their number is a natural number, of which one less is less. *)
LEMMA FaultBound ==
  /\ MaxFaults \in Nat /\ MaxFaults <= MaxFaults
  /\ \A k \in Nat : k <= MaxFaults => k - 1 <= MaxFaults /\ k - 1 # MaxFaults
OBVIOUS

(* A step that spends a fault owes no event. *)
LEMMA FaultSpent ==
  ASSUME Inv, TaintInv, Fault, UNCHANGED lastEvent
  PROVE  TaintInv'
<1>1. faults \in Nat /\ faults' = faults - 1
  BY DEF Fault, Inv, TypeOK
<1>2. faults' <= MaxFaults /\ faults' # MaxFaults
  BY <1>1, FaultBound DEF TaintInv
<1> QED BY <1>2 DEF TaintInv, EventsTellTaint

(* Neither does one that changes no taint. *)
LEMMA TaintsKept ==
  ASSUME TaintInv, Tainted' = Tainted, UNCHANGED <<lastEvent, faults>>
  PROVE  TaintInv'
BY DEF TaintInv, EventsTellTaint

(* A step that is not a taint write of the pass. *)
LEMMA QuietTells ==
  ASSUME Inv, TaintInv, QuietStep, UNCHANGED lastEvent
  PROVE  TaintInv'
<1>1. ASSUME NEW n \in Nodes, TaintWriteFails(n)
      PROVE  Fault \/ UNCHANGED <<nodeLog, faults>>
  BY <1>1, Zenon DEF TaintWriteFails
<1>2. Fault \/ UNCHANGED <<nodeLog, faults>>
  BY <1>1 DEF QuietStep, ReconcileNothing, StartPass, AddFinalizer, AddFinalizerUnacknowledged,
     ObserveInvalidSpec, Observe, ListNodes, CleanupFailed, RemoveFinalizer,
     RemoveFinalizerUnacknowledged, UpdateConflicts, RequestFails
<1>3. UNCHANGED nodeLog => Tainted' = Tainted
  BY DEF Tainted, Exists
<1> QED BY <1>2, <1>3, FaultSpent, TaintsKept

(* The status patch touches no node. *)
LEMMA StatusTells ==
  ASSUME Inv, TaintInv, StatusStep, RecordWarnings
  PROVE  TaintInv'
<1>1. UNCHANGED <<nodeLog, lastEvent>> /\ (Fault \/ UNCHANGED faults)
  BY DEF StatusStep, WriteStatus, WriteStatusFails, RecordWarnings
<1>2. Tainted' = Tainted
  BY <1>1 DEF Tainted, Exists
<1> QED BY <1>1, <1>2, FaultSpent, TaintsKept

(* A taint write is recorded exactly if it changed the stored node. *)
LEMMA TaintStepTells ==
  ASSUME Inv, TaintInv, NEW n \in Nodes, TaintStep(n), recordTaintAction(n)
  PROVE  TaintInv'
<1> DEFINE value == n \in apply
<1>1. SetTaint(n, value) /\ UNCHANGED faults
  <2>1. CASE ApplyTaintTo(n)
    BY <2>1 DEF ApplyTaintTo
  <2>2. CASE RemoveTaintFrom(n)
    <3>1. SetTaint(n, FALSE) /\ apply = {} /\ UNCHANGED faults
      BY <2>2 DEF RemoveTaintFrom
    <3>2. value = FALSE
      BY <3>1
    <3> QED BY <3>1, <3>2
  <2> QED BY <2>1, <2>2 DEF TaintStep
<1>2. value \in BOOLEAN
  OBVIOUS
<1>3. CASE ~Changed(n)
  <2>1. UNCHANGED nodeLog
    BY <1>1, <1>3 DEF SetTaint, Changed
  <2>2. UNCHANGED lastEvent
    BY <1>3 DEF recordTaintAction
  <2>3. Tainted' = Tainted
    BY <2>1 DEF Tainted, Exists
  <2> QED BY <1>1, <2>2, <2>3, TaintsKept
<1>4. CASE Changed(n)
  <2>1. lastEvent' = [lastEvent EXCEPT ![n] =
                        IF value THEN reasonTaintApplied ELSE reasonTaintRemoved]
    BY <1>4 DEF recordTaintAction
  <2>2. nodeLog' = [nodeLog EXCEPT ![n] = Append(@, [Stored(nodeLog[n]) EXCEPT !.hasTaint = value])]
    BY <1>1, <1>4 DEF SetTaint, StoreNode, Changed
  <2>3. /\ [Stored(nodeLog[n]) EXCEPT !.hasTaint = value] \in NodeVersion
        /\ [Stored(nodeLog[n]) EXCEPT !.hasTaint = value] # NoNode
        /\ [Stored(nodeLog[n]) EXCEPT !.hasTaint = value].hasTaint = value
    <3>1. Stored(nodeLog[n]) \in NodeObject
      BY <1>1, StoredTypes DEF SetTaint, Exists, NodeVersion, Inv, TypeOK
    <3>2. /\ [Stored(nodeLog[n]) EXCEPT !.hasTaint = value] \in NodeObject
          /\ [Stored(nodeLog[n]) EXCEPT !.hasTaint = value].hasTaint = value
      BY <1>2, <3>1 DEF NodeObject
    <3> QED BY <3>2 DEF NodeVersion
  <2>4. Tainted' = IF value THEN Tainted \cup {n} ELSE Tainted \ {n}
    BY <2>2, <2>3, NodeAppendEffect DEF Inv, TypeOK
  <2>5. reasonTaintApplied # reasonTaintRemoved
    BY DEF reasonTaintApplied, reasonTaintRemoved
  <2> HIDE DEF value
  <2>6. lastEvent' \in [Nodes -> {"", reasonTaintApplied, reasonTaintRemoved}]
    BY <2>1 DEF TaintInv
  <2>7. /\ \A m \in Nodes \ {n} : lastEvent'[m] = lastEvent[m]
        /\ lastEvent'[n] = reasonTaintApplied <=> value
    BY <2>1, <2>5 DEF TaintInv
  <2>8. /\ \A m \in Nodes \ {n} : m \in Tainted' <=> m \in Tainted
        /\ n \in Tainted' <=> value
    BY <1>2, <2>4
  <2>9. EventsTellTaint'
    BY <1>1, <2>7, <2>8 DEF TaintInv, EventsTellTaint
  <2> QED BY <1>1, <2>6, <2>9 DEF TaintInv
<1> QED BY <1>3, <1>4

(* Nobody else adds the taint, and faults are only ever spent. *)
LEMMA ClusterAddsNoTaint ==
  ASSUME Inv, ClusterStep
  PROVE  Tainted' \subseteq Tainted /\ (Fault \/ UNCHANGED faults)
<1>1. CASE DeliverPolicy \/ RelistPolicy
  <2>1. UNCHANGED nodeLog /\ (Fault \/ UNCHANGED faults)
    BY <1>1 DEF DeliverPolicy, RelistPolicy
  <2> QED BY <2>1 DEF Tainted, Exists
<1>2. CASE RelistNodes \/ Restart
  <2>1. Fault /\ nodeLog' = [n \in Nodes |-> <<Stored(nodeLog[n])>>]
    BY <1>2 DEF RelistNodes, Restart
  <2> QED BY <2>1, NodesRelisted DEF Inv, TypeOK
<1>3. CASE Tick
  BY <1>3, TickEffect DEF Tick
<1>4. ASSUME NEW n \in Nodes, DeliverNode(n)
      PROVE  Tainted' \subseteq Tainted /\ (Fault \/ UNCHANGED faults)
  BY <1>4, DeliverNodeEffect DEF DeliverNode
<1>5. CASE CreatePolicy \/ EditSpec \/ EditStatus \/ DeletePolicy \/ CollectGarbage
  <2>1. PICK v \in PolicyVersion : PolicyUpdate(v)
    BY <1>5, PolicyEdited
  <2>2. UNCHANGED <<nodeLog, faults>>
    BY <2>1 DEF PolicyUpdate
  <2> QED BY <2>2 DEF Tainted, Exists
<1>6. ASSUME NEW n \in Nodes, NodeChange(n)
      PROVE  Tainted' \subseteq Tainted /\ (Fault \/ UNCHANGED faults)
  <2>1. PICK v \in NodeVersion : NodeUpdate(n, v) /\ (v # NoNode /\ v.hasTaint => n \in Tainted)
    BY <1>6, NodeEdited, NodeReplaced DEF NodeChange
  <2>2. nodeLog' = [nodeLog EXCEPT ![n] = Append(@, v)] /\ UNCHANGED faults
    BY <2>1 DEF NodeUpdate, StoreNode
  <2> QED BY <2>1, <2>2, NodeAppendEffect DEF Inv, TypeOK
<1> QED BY <1>1, <1>2, <1>3, <1>4, <1>5, <1>6 DEF ClusterStep, EnvironmentStep

(* A taint that others take off is forgotten with its event. *)
LEMMA OthersTell ==
  ASSUME Inv, TaintInv, OthersStep
  PROVE  TaintInv'
<1>1. Tainted' \subseteq Tainted /\ (Fault \/ UNCHANGED faults)
  BY ClusterAddsNoTaint DEF OthersStep
<1>2. lastEvent' = [n \in Nodes |-> IF (n \in Tainted) = (n \in Tainted')
                                      THEN lastEvent[n] ELSE ""]
  BY DEF OthersStep
<1>3. lastEvent' \in [Nodes -> {"", reasonTaintApplied, reasonTaintRemoved}]
  BY <1>2 DEF TaintInv
<1>4. faults' <= MaxFaults /\ (faults' = MaxFaults => faults = MaxFaults)
  <2>1. faults \in Nat /\ faults <= MaxFaults
    BY DEF Inv, TypeOK, TaintInv
  <2> QED BY <1>1, <2>1 DEF Fault
<1>5. ASSUME faults = MaxFaults, NEW n \in Nodes
      PROVE  n \in Tainted' <=> lastEvent'[n] = reasonTaintApplied
  <2>1. n \in Tainted <=> lastEvent[n] = reasonTaintApplied
    BY <1>5 DEF TaintInv, EventsTellTaint
  <2>2. CASE (n \in Tainted) = (n \in Tainted')
    BY <1>2, <2>1, <2>2
  <2>3. CASE (n \in Tainted) # (n \in Tainted')
    <3>1. n \notin Tainted'
      BY <1>1, <2>3
    <3>2. lastEvent'[n] = ""
      BY <1>2, <2>3
    <3> QED BY <3>1, <3>2 DEF reasonTaintApplied
  <2> QED BY <2>2, <2>3
<1> QED BY <1>3, <1>4, <1>5 DEF TaintInv, EventsTellTaint

-----------------------------------------------------------------------------

EventsInv == Inv /\ WarnInv /\ TaintInv

(* Nothing is reported and nothing tainted at first. *)
LEMMA EventsInitInv == EventsInit => EventsInv
<1> SUFFICES ASSUME EventsInit PROVE EventsInv
  OBVIOUS
<1>1. Init /\ Inv
  BY InitInv DEF EventsInit
<1>2. PICK p \in {NewPolicy(s) : s \in Specs} \cup {NoPolicy} : policyLog = <<p>>
  BY <1>1 DEF Init
<1>3. p # NoPolicy => Reported(p.status) = {}
  BY <1>2, NothingReported DEF NewPolicy
<1>4. WarnInv
  <2>1. Len(policyLog) = 1 /\ policyLog[1] = p
    BY <1>2
  <2>2. VersionsWarned
    BY <1>3, <2>1 DEF VersionsWarned
  <2> QED BY <1>1, <2>2 DEF Init, WarnInv, CopyWarned, InvalidSpecKeepsNodes
<1>5. Tainted = {}
  <2>1. ~Holds(Stored(policyLog))
    BY <1>2, NewPolicyType DEF Stored
  <2> QED BY <1>1, <2>1 DEF Inv, NoStrandedTaint
<1>6. TaintInv
  <2>1. lastEvent = [n \in Nodes |-> ""] /\ faults = MaxFaults
    BY <1>1 DEF EventsInit, Init
  <2>2. lastEvent \in [Nodes -> {"", reasonTaintApplied, reasonTaintRemoved}]
    BY <2>1
  <2>3. \A n \in Nodes : lastEvent[n] # reasonTaintApplied
    BY <2>1 DEF reasonTaintApplied
  <2>4. faults <= MaxFaults
    BY <2>1, FaultBound
  <2> QED BY <1>5, <2>2, <2>3, <2>4 DEF TaintInv, EventsTellTaint
<1> QED BY <1>1, <1>4, <1>6 DEF EventsInv

(* Recording events changes nothing of what the controller does. *)
LEMMA EventsStepInv ==
  ASSUME EventsInv, [EventsNext]_<<vars, eventVars>>
  PROVE  EventsInv'
<1> USE DEF EventsInv
<1>1. CASE QuietStep /\ UNCHANGED eventVars
  BY <1>1, StepInv, QuietWarned, QuietTells DEF Next, WorkerStep, eventVars
<1>2. CASE StatusStep /\ RecordWarnings
  BY <1>2, StepInv, StatusStepWarned, StatusTells DEF Next, WorkerStep
<1>3. ASSUME NEW n \in Nodes, TaintStep(n), recordTaintAction(n)
      PROVE  EventsInv'
  <2>1. UNCHANGED <<policyLog, pc, copy, newStatus, warned>>
    BY <1>3 DEF TaintStep, ApplyTaintTo, RemoveTaintFrom, recordTaintAction
  <2> QED BY <1>3, <2>1, StepInv, KeptWarned, TaintStepTells DEF Next, WorkerStep
<1>4. CASE OthersStep
  BY <1>4, StepInv, ClusterWarned, OthersTell DEF Next, OthersStep
<1>5. CASE UNCHANGED <<vars, eventVars>>
  <2>1. UNCHANGED vars /\ UNCHANGED <<policyLog, pc, copy, newStatus, warned, lastEvent, faults>>
    BY <1>5 DEF vars, passVars, eventVars
  <2>2. Tainted' = Tainted
    BY <2>1 DEF vars, Tainted, Exists
  <2> QED BY <2>1, <2>2, StepInv, KeptWarned, TaintsKept
<1> QED BY <1>1, <1>2, <1>3, <1>4, <1>5 DEF EventsNext

(* The inductive invariant holds in every reachable state. *)
LEMMA EventsInvHolds == EventsSpec => []EventsInv
BY EventsInitInv, EventsStepInv, PTL DEF EventsSpec

(* Nothing is reported in silence: whatever copy a pass worked from and     *)
(* whatever object its patch landed on, a tripped guard, a held node or a  *)
(* spec that does not project is shown in the stored status only after a   *)
(* warning was recorded.                                                   *)
THEOREM NothingReportedInSilence == EventsSpec => []ReportedMeansWarned
<1>1. EventsInv => ReportedMeansWarned
  BY StoredWarned DEF EventsInv, Inv, TypeOK, WarnInv
<1> QED BY <1>1, EventsInvHolds, PTL

(* As long as no request has failed the last event of a node says          *)
(* TaintApplied exactly while the node is tainted, however stale the cache *)
(* the pass decided from: EnsureTaint and RemoveTaint report a change      *)
(* against the stored node.                                                *)
THEOREM EventsTellTheTaint == EventsSpec => []EventsTellTaint
<1>1. EventsInv => EventsTellTaint
  BY DEF EventsInv, TaintInv
<1> QED BY <1>1, EventsInvHolds, PTL

=============================================================================
