----------------------------- MODULE TaintPatch -----------------------------
(***************************************************************************)
(* patchTaintList (internal/controller/taint.go): EnsureTaint and          *)
(* RemoveTaint as a read from the API server, a local change and a patch   *)
(* under an optimistic lock, retried on conflict at most Steps times.      *)
(* spec.taints is replaced as a whole by the patch.  The operator itself   *)
(* makes one call at a time; two instances may overlap around a change of  *)
(* leader, and other controllers write the node at any time.               *)
(***************************************************************************)
EXTENDS TaintStore

CONSTANTS
  Steps,         \* taintBackoff.Steps: attempts before a conflict is returned
  MaxVersion     \* bound on the writes and calls that are explored

ASSUME StepsAssumption == Steps \in Nat \ {0}
ASSUME MaxVersionAssumption == MaxVersion \in Nat

VARIABLES
  version,    \* the node's resourceVersion; a new object takes a new one too
  pc,         \* pc[c]: the request c's attempt makes next, "get" or "patch"
  read,       \* read[c]: the copy of the node c's attempt has read
  attempts    \* attempts[c]: attempts c's current call has made

vars == <<exists, taints, phase, request, result, version, pc, read, attempts>>

TypeOK ==
  /\ exists \in BOOLEAN
  /\ taints \in SUBSET Taint
  /\ phase \in [Callers -> {"idle", "running", "returned"}]
  /\ request \in [Callers -> Request]
  /\ result \in [Callers -> [changed : BOOLEAN, err : BOOLEAN]]
  /\ version \in Nat
  /\ pc \in [Callers -> {"get", "patch"}]
  /\ read \in [Callers -> [version : Nat, taints : SUBSET Taint]]
  /\ attempts \in [Callers -> 0 .. Steps]

Init ==
  /\ StoreInit
  /\ version = 0
  /\ pc = [c \in Callers |-> "get"]
  /\ read = [c \in Callers |-> [version |-> 0, taints |-> {}]]
  /\ attempts = [c \in Callers |-> 0]

-----------------------------------------------------------------------------

(* Any write of anybody else moves the resourceVersion. *)
OtherWriter ==
  /\ version < MaxVersion
  /\ OthersWrite
  /\ version' = version + 1
  /\ UNCHANGED <<pc, read, attempts>>

Begin(c) ==
  /\ version < MaxVersion
  /\ Call(c)
  /\ pc' = [pc EXCEPT ![c] = "get"]
  /\ attempts' = [attempts EXCEPT ![c] = 0]
  /\ UNCHANGED <<version, read>>

Running(c, at) == phase[c] = "running" /\ pc[c] = at

(* Mutant of changed: set before the patch, and kept by the attempt that   *)
(* follows a conflict.                                                     *)
ChangedSurvivesRetry(c) == attempts[c] > 0

(* What an attempt of c reports before its patch. *)
changed(c) == FALSE

(* mutate reports no change: no patch is sent.  Otherwise keep the copy. *)
Get(c) ==
  /\ Running(c, "get")
  /\ exists
  /\ attempts' = [attempts EXCEPT ![c] = @ + 1]
  /\ \/ /\ Wanted(request[c], taints) = taints
        /\ Return(c, changed(c), FALSE)
        /\ UNCHANGED <<pc, read>>
     \/ /\ Wanted(request[c], taints) # taints
        /\ pc' = [pc EXCEPT ![c] = "patch"]
        /\ read' = [read EXCEPT ![c] = [version |-> version, taints |-> taints]]
        /\ UNCHANGED <<exists, phase, request, result>>
  /\ UNCHANGED <<taints, version>>

(* An error that is not a conflict is returned at once. *)
GiveUp(c, at) ==
  /\ Running(c, at)
  /\ Return(c, FALSE, TRUE)
  /\ UNCHANGED <<taints, version, pc, read, attempts>>

(* Mutant of GetFails: a node that is not found is waited for. *)
GetWaitsForNode(c) == exists /\ GiveUp(c, "get")

(* NotFound, or the request failed. *)
GetFails(c) == GiveUp(c, "get")

(* Mutant of LockHolds: the patch is sent without the optimistic lock. *)
LockForgotten(c) == exists

LockHolds(c) == exists /\ version = read[c].version

(* The API server accepts the patch; the reply may still be lost. *)
Patch(c) ==
  /\ Running(c, "patch")
  /\ LockHolds(c)
  /\ taints' = Wanted(request[c], read[c].taints)
  /\ version' = version + 1
  /\ Return(c, TRUE, FALSE) \/ Return(c, FALSE, TRUE)
  /\ UNCHANGED <<pc, read, attempts>>

(* Mutant of AttemptsLeft: conflicts are retried without a limit. *)
AttemptsUnlimited(c) == TRUE

AttemptsLeft(c) == attempts[c] < Steps

(* 409: read again, unless the attempts are used up. *)
PatchConflicts(c) ==
  /\ Running(c, "patch")
  /\ exists /\ ~LockHolds(c)
  /\ \/ /\ AttemptsLeft(c)
        /\ pc' = [pc EXCEPT ![c] = "get"]
        /\ UNCHANGED <<exists, phase, request, result>>
     \/ /\ ~AttemptsLeft(c)
        /\ Return(c, FALSE, TRUE)
        /\ UNCHANGED pc
  /\ UNCHANGED <<taints, version, read, attempts>>

(* NotFound, or the request did not reach the server. *)
PatchFails(c) == GiveUp(c, "patch")

CallStep(c) ==
  Get(c) \/ GetFails(c) \/ Patch(c) \/ PatchConflicts(c) \/ PatchFails(c)

Next == OtherWriter \/ \E c \in Callers : Begin(c) \/ CallStep(c)

(* A request is answered or fails; nothing makes the others write.         *)
Fairness == \A c \in Callers : WF_vars(CallStep(c))

Spec == Init /\ [][Next]_vars /\ Fairness

-----------------------------------------------------------------------------

(* A copy whose resourceVersion is still the node's is the node. *)
ReadIsCurrent ==
  \A c \in Callers :
    /\ read[c].version <= version
    /\ Running(c, "patch") /\ read[c].version = version => read[c].taints = taints

(* The inductive invariant behind the refinement.  A copy is kept only     *)
(* when its change is a real one, so a patch that lands changes the node.  *)
ReadNeedsChange ==
  \A c \in Callers :
    Running(c, "patch") => Wanted(request[c], read[c].taints) # read[c].taints

(* A call that is about to read has an attempt left. *)
AttemptLeft ==
  \A c \in Callers : Running(c, "get") => attempts[c] < Steps

(* patchTaintList patches only a copy that still is the node and only when *)
(* that changes it, and starts no more than Steps attempts.                *)
Inv == TypeOK /\ ReadIsCurrent /\ ReadNeedsChange /\ AttemptLeft

(* Whatever the others write in between, a call never disturbs a taint     *)
(* with a foreign key, neither one it has seen nor one added since its     *)
(* read: the promise not to clobber spec.taints.                           *)
ForeignTaintsKept ==
  [][\A c \in Callers :
       LET foreign(s) == {t \in s : t.key # request[c].taint.key}
       IN  CallStep(c) => foreign(taints') = foreign(taints)]_vars

(* Every call returns, however often the others write. *)
CallsReturn == \A c \in Callers : phase[c] = "running" ~> phase[c] = "returned"

(* Each call is atomic: the read-modify-write implements TaintStore. *)
ImplementsStore == StoreSpec

=============================================================================
