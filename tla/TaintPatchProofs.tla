-------------------------- MODULE TaintPatchProofs --------------------------
(***************************************************************************)
(* Proofs about TaintPatch, for any number of overlapping calls, any keys  *)
(* and effects, and any number of attempts.                                *)
(***************************************************************************)
EXTENDS TaintPatch, TLAPS

(* What a call wants is again a set of taints. *)
LEMMA WantedType ==
  ASSUME NEW r \in Request, NEW s \in SUBSET Taint
  PROVE  Wanted(r, s) \in SUBSET Taint
  BY DEF Wanted, Request, HasTaintKey

(* EnsureTaint and RemoveTaint leave the taints with another key alone. *)
LEMMA WantedKeepsForeign ==
  ASSUME NEW r \in Request, NEW s \in SUBSET Taint
  PROVE  {t \in Wanted(r, s) : t.key # r.taint.key} = {t \in s : t.key # r.taint.key}
  BY DEF Wanted, Request, HasTaintKey

(* No call is running at first. *)
LEMMA InitInv == Init => Inv
  BY StepsAssumption
  DEF Init, Inv, TypeOK, ReadIsCurrent, ReadNeedsChange, AttemptLeft, StoreInit, NoResult, Running

(* One step per action; only Patch and OtherWriter move the version. *)
LEMMA InvPreserved == Inv /\ [Next]_vars => Inv'
<1> SUFFICES ASSUME Inv, [Next]_vars PROVE Inv'
  OBVIOUS
<1> USE StepsAssumption DEF Inv, TypeOK, ReadIsCurrent, ReadNeedsChange, AttemptLeft, Running
<1>1. CASE OtherWriter
  BY <1>1 DEF OtherWriter, OthersWrite
<1>2. ASSUME NEW c \in Callers, Begin(c) PROVE Inv'
  BY <1>2 DEF Begin, Call, NoResult
<1>3. ASSUME NEW c \in Callers, Get(c) PROVE Inv'
  <2>1. attempts[c] + 1 \in 0 .. Steps
    BY <1>3 DEF Get
  <2>2. CASE Wanted(request[c], taints) = taints
    <3>1. /\ Return(c, FALSE, FALSE)
          /\ UNCHANGED <<taints, version, pc, read>>
          /\ attempts' = [attempts EXCEPT ![c] = @ + 1]
      BY <1>3, <2>2 DEF Get, changed
    <3> QED BY <2>1, <3>1 DEF Return
  <2>3. CASE Wanted(request[c], taints) # taints
    <3>1. /\ UNCHANGED <<exists, taints, phase, request, result, version>>
          /\ pc' = [pc EXCEPT ![c] = "patch"]
          /\ read' = [read EXCEPT ![c] = [version |-> version, taints |-> taints]]
          /\ attempts' = [attempts EXCEPT ![c] = @ + 1]
      BY <1>3, <2>3 DEF Get
    <3>2. TypeOK'
      BY <2>1, <3>1
    <3>3. ReadIsCurrent' /\ ReadNeedsChange' /\ AttemptLeft'
      BY <2>3, <3>1
    <3> QED BY <3>2, <3>3
  <2> QED BY <2>2, <2>3
<1>4. ASSUME NEW c \in Callers, GetFails(c) PROVE Inv'
  BY <1>4 DEF GetFails, GiveUp, Return
<1>5. ASSUME NEW c \in Callers, Patch(c) PROVE Inv'
  <2>1. taints' \in SUBSET Taint
    BY <1>5, WantedType DEF Patch
  <2>2. ASSUME NEW new \in BOOLEAN, NEW err \in BOOLEAN, Return(c, new, err)
        PROVE  TypeOK'
    <3>1. version' \in Nat /\ UNCHANGED <<pc, read, attempts>>
      BY <1>5 DEF Patch
    <3> QED BY <2>1, <2>2, <3>1 DEF Return
  <2>3. TypeOK'
    BY <1>5, <2>2 DEF Patch
  <2>4. ReadIsCurrent' /\ ReadNeedsChange' /\ AttemptLeft'
    BY <1>5 DEF Patch, Return
  <2> QED BY <2>3, <2>4
<1>6. ASSUME NEW c \in Callers, PatchConflicts(c) PROVE Inv'
  <2>1. UNCHANGED <<taints, version, read, attempts>>
    BY <1>6 DEF PatchConflicts
  <2>2. CASE /\ attempts[c] < Steps
             /\ pc' = [pc EXCEPT ![c] = "get"]
             /\ UNCHANGED <<exists, phase, request, result>>
    BY <2>1, <2>2
  <2>3. CASE Return(c, FALSE, TRUE) /\ UNCHANGED pc
    BY <2>1, <2>3 DEF Return
  <2> QED BY <1>6, <2>2, <2>3 DEF PatchConflicts, AttemptsLeft
<1>7. ASSUME NEW c \in Callers, PatchFails(c) PROVE Inv'
  BY <1>7 DEF PatchFails, GiveUp, Return
<1>8. CASE UNCHANGED vars
  BY <1>8 DEF vars
<1> QED BY <1>1, <1>2, <1>3, <1>4, <1>5, <1>6, <1>7, <1>8 DEF Next, CallStep

(* TLC checks Inv as an invariant of the same specification. *)
THEOREM InvHolds == Spec => []Inv
<1>1. Init => Inv
  BY InitInv
<1>2. Inv /\ [Next]_vars => Inv'
  BY InvPreserved
<1> QED BY <1>1, <1>2, PTL DEF Spec

-----------------------------------------------------------------------------

(* Under the invariant every step is a step of the atomic store: a patch   *)
(* that lands is the atomic change, and so is a read that finds nothing to *)
(* change; a conflict that is retried is a stutter.                        *)
LEMMA StepImplementsStore == Inv /\ [Next]_vars => [StoreNext]_storeVars
<1> SUFFICES ASSUME Inv, [Next]_vars PROVE [StoreNext]_storeVars
  OBVIOUS
<1>1. CASE OtherWriter
  BY <1>1 DEF OtherWriter, StoreNext
<1>2. ASSUME NEW c \in Callers, Begin(c) PROVE StoreNext
  BY <1>2 DEF Begin, StoreNext
<1>3. ASSUME NEW c \in Callers, Get(c) PROVE [StoreNext]_storeVars
  <2>1. CASE Wanted(request[c], taints) = taints
    <3>1. Return(c, FALSE, FALSE) /\ UNCHANGED taints
      BY <1>3, <2>1 DEF Get, changed
    <3>2. Return(c, taints' # taints, FALSE)
      BY <3>1 DEF Return
    <3>3. Succeed(c)
      BY <1>3, <2>1, <3>1, <3>2 DEF Get, Running, Succeed
    <3> QED BY <3>3 DEF StoreNext
  <2>2. CASE Wanted(request[c], taints) # taints
    BY <1>3, <2>2 DEF Get, storeVars
  <2> QED BY <2>1, <2>2
<1>4. ASSUME NEW c \in Callers, GetFails(c) PROVE StoreNext
  BY <1>4 DEF GetFails, GiveUp, Running, Fail, StoreNext
<1>5. ASSUME NEW c \in Callers, Patch(c) PROVE StoreNext
  <2>1. read[c].taints = taints
    BY <1>5 DEF Patch, LockHolds, Running, Inv, ReadIsCurrent
  <2>2. phase[c] = "running" /\ exists /\ taints' = Wanted(request[c], taints)
    BY <1>5, <2>1 DEF Patch, LockHolds, Running
  <2>3. taints' # taints
    BY <1>5, <2>1, <2>2 DEF Patch, Inv, ReadNeedsChange
  <2>4. CASE Return(c, TRUE, FALSE)
    <3>1. Return(c, taints' # taints, FALSE)
      BY <2>3, <2>4 DEF Return
    <3> QED BY <2>2, <3>1 DEF Succeed, StoreNext
  <2>5. CASE Return(c, FALSE, TRUE)
    BY <2>2, <2>5 DEF SucceedUnacknowledged, StoreNext
  <2> QED BY <1>5, <2>4, <2>5 DEF Patch
<1>6. ASSUME NEW c \in Callers, PatchConflicts(c) PROVE [StoreNext]_storeVars
  <2>1. UNCHANGED taints /\ phase[c] = "running"
    BY <1>6 DEF PatchConflicts, Running
  <2>2. CASE UNCHANGED <<exists, phase, request, result>>
    BY <2>1, <2>2 DEF storeVars
  <2>3. CASE Return(c, FALSE, TRUE)
    BY <2>1, <2>3 DEF Fail, StoreNext
  <2> QED BY <1>6, <2>2, <2>3 DEF PatchConflicts
<1>7. ASSUME NEW c \in Callers, PatchFails(c) PROVE StoreNext
  BY <1>7 DEF PatchFails, GiveUp, Running, Fail, StoreNext
<1>8. CASE UNCHANGED vars
  BY <1>8 DEF vars, storeVars
<1> QED BY <1>1, <1>2, <1>3, <1>4, <1>5, <1>6, <1>7, <1>8 DEF Next, CallStep

(* EnsureTaint and RemoveTaint behave as one atomic change of the node,    *)
(* whatever the other writers do between the read and the patch.           *)
THEOREM PatchImplementsStore == Spec => ImplementsStore
<1>1. Init => StoreInit
  BY DEF Init
<1>2. Inv /\ [Next]_vars => [StoreNext]_storeVars
  BY StepImplementsStore
<1> QED BY <1>1, <1>2, InvHolds, PTL DEF Spec, ImplementsStore, StoreSpec

(* A call never disturbs a taint of another key, not even one added after  *)
(* its read.                                                               *)
THEOREM PatchKeepsForeignTaints == Spec => ForeignTaintsKept
<1> DEFINE Keeps(c) == CallStep(c) =>
      {t \in taints' : t.key # request[c].taint.key} = {t \in taints : t.key # request[c].taint.key}
<1>1. ASSUME Inv, [Next]_vars, NEW c \in Callers PROVE Keeps(c)
  <2>1. CASE Patch(c)
    <3>1. read[c].taints = taints
      BY <1>1, <2>1 DEF Patch, LockHolds, Running, Inv, ReadIsCurrent
    <3>2. request[c] \in Request /\ taints \in SUBSET Taint
      BY <1>1 DEF Inv, TypeOK
    <3>3. taints' = Wanted(request[c], taints)
      BY <2>1, <3>1 DEF Patch
    <3> QED BY <3>2, <3>3, WantedKeepsForeign
  <2>2. CASE Get(c) \/ GetFails(c) \/ PatchConflicts(c) \/ PatchFails(c)
    BY <2>2 DEF Get, GetFails, GiveUp, PatchConflicts, PatchFails
  <2> QED BY <2>1, <2>2 DEF CallStep
<1>2. Inv /\ [Next]_vars => [\A c \in Callers : Keeps(c)]_vars
  BY <1>1
<1> QED BY <1>2, InvHolds, PTL DEF Spec, ForeignTaintsKept

=============================================================================
