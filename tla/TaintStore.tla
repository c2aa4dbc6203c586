----------------------------- MODULE TaintStore -----------------------------
(***************************************************************************)
(* What EnsureTaint and RemoveTaint promise their callers: each call is    *)
(* one atomic change of the node's taints, made somewhere between the call *)
(* and its return, that touches only the taints with its own key and       *)
(* reports truthfully whether it changed anything; a call that returns an  *)
(* error has made that change or has done nothing.  Module TaintPatch is   *)
(* the read-modify-write that implements it, module Reconciler uses it as  *)
(* one step.                                                               *)
(***************************************************************************)
EXTENDS Naturals

CONSTANTS
  Callers,    \* processes that may call at the same time
  Keys,
  Effects

Taint == [key : Keys, effect : Effects]

(* "ensure" adds the taint unless its key is present, "remove" removes     *)
(* every taint with its key.                                               *)
Request == [kind : {"ensure", "remove"}, taint : Taint]

HasTaintKey(taints, key) == \E t \in taints : t.key = key

Wanted(request, taints) ==
  IF request.kind = "ensure"
    THEN IF HasTaintKey(taints, request.taint.key) THEN taints
                                                  ELSE taints \cup {request.taint}
    ELSE {t \in taints : t.key # request.taint.key}

VARIABLES
  exists,     \* the node object exists
  taints,     \* its spec.taints
  phase,      \* phase[c]: "idle", "running" or "returned"
  request,    \* request[c]: the arguments of c's current or last call
  result      \* result[c]: what that call returned

storeVars == <<exists, taints, phase, request, result>>

NoResult == [changed |-> FALSE, err |-> FALSE]

StoreInit ==
  /\ exists = TRUE
  /\ taints \in SUBSET Taint
  /\ phase = [c \in Callers |-> "idle"]
  /\ request \in [Callers -> Request]
  /\ result = [c \in Callers |-> NoResult]

(* kubelet, other controllers and users change the node as they like.      *)
OthersWrite ==
  /\ exists' \in BOOLEAN
  /\ taints' \in SUBSET Taint
  /\ UNCHANGED <<phase, request, result>>

Call(c) ==
  /\ phase[c] # "running"
  /\ \E r \in Request : request' = [request EXCEPT ![c] = r]
  /\ phase' = [phase EXCEPT ![c] = "running"]
  /\ result' = [result EXCEPT ![c] = NoResult]
  /\ UNCHANGED <<exists, taints>>

Return(c, new, err) ==
  /\ phase' = [phase EXCEPT ![c] = "returned"]
  /\ result' = [result EXCEPT ![c] = [changed |-> new, err |-> err]]
  /\ UNCHANGED <<exists, request>>

Succeed(c) ==
  /\ phase[c] = "running"
  /\ exists
  /\ taints' = Wanted(request[c], taints)
  /\ Return(c, taints' # taints, FALSE)

(* The change was made and its acknowledgement lost. *)
SucceedUnacknowledged(c) ==
  /\ phase[c] = "running"
  /\ exists
  /\ taints' = Wanted(request[c], taints)
  /\ Return(c, FALSE, TRUE)

Fail(c) ==
  /\ phase[c] = "running"
  /\ UNCHANGED taints
  /\ Return(c, FALSE, TRUE)

StoreNext ==
  \/ OthersWrite
  \/ \E c \in Callers : Call(c) \/ Succeed(c) \/ SucceedUnacknowledged(c) \/ Fail(c)

StoreSpec == StoreInit /\ [][StoreNext]_storeVars

=============================================================================
