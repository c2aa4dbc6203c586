-------------------------- MODULE PolicyAdmission --------------------------
(***************************************************************************)
(* Several policies and the admission webhook (internal/webhook) that is   *)
(* to keep their taint keys apart.  A request to create or update a policy *)
(* is validated against a list of the stored policies and stored later:    *)
(* anything may happen in between.  The operator's own Updates, which add  *)
(* and remove the finalizer, pass through the same webhook; deletions and  *)
(* status patches do not.                                                  *)
(*                                                                         *)
(* A policy is its taint key, whether it is being deleted and whether the  *)
(* operator's finalizer protects it.  The CEL rules of the type keep the   *)
(* taint as it was created.  What a protected policy does to the nodes is  *)
(* the subject of Reconciler.                                              *)
(***************************************************************************)
EXTENDS Naturals

CONSTANTS
  Names,        \* names of policies
  Keys,         \* taint keys
  NoTaint,      \* the key of a request without a taint
  Users,        \* clients that create and edit policies
  Operators,    \* instances of the operator; two may overlap
  NoPolicy,
  NoRequest,
  MaxChanges,   \* bound on the requests of users
  MaxFaults     \* bound on failed requests

PolicyObject == [key : Keys, deleting : BOOLEAN, protected : BOOLEAN]

Clients == Users \cup Operators

(* current: the request carries the resourceVersion of the stored policy.  *)
Request ==
  [verb : {"create", "edit", "addFinalizer", "removeFinalizer"}, name : Names,
   key : Keys \cup {NoTaint}, admitted : BOOLEAN, current : BOOLEAN]

ASSUME AdmissionAssumption ==
  /\ NoPolicy \notin PolicyObject
  /\ NoRequest \notin Request
  /\ NoTaint \notin Keys
  /\ MaxChanges \in Nat /\ MaxFaults \in Nat

VARIABLES
  policy,     \* policy[n]: the stored policy named n
  request,    \* request[c]: the request client c waits for
  changes,    \* requests users have left
  faults      \* faults left

vars == <<policy, request, changes, faults>>

TypeOK ==
  /\ policy \in [Names -> PolicyObject \cup {NoPolicy}]
  /\ request \in [Clients -> Request \cup {NoRequest}]
  /\ changes \in Nat
  /\ faults \in Nat

Init ==
  /\ policy = [n \in Names |-> NoPolicy]
  /\ request = [c \in Clients |-> NoRequest]
  /\ changes = MaxChanges /\ faults = MaxFaults

Exists(n)      == policy[n] # NoPolicy
Protected(n)   == Exists(n) /\ policy[n].protected
Terminating(n) == Exists(n) /\ policy[n].deleting

-----------------------------------------------------------------------------
(* The clients. *)

Send(c, verb, n, k) ==
  /\ request[c] = NoRequest
  /\ request' = [request EXCEPT ![c] = [verb |-> verb, name |-> n, key |-> k,
                                        admitted |-> FALSE, current |-> TRUE]]
  /\ UNCHANGED policy

Change == changes > 0 /\ changes' = changes - 1

CreatePolicy(u, n, k) ==
  Change /\ Send(u, "create", n, k) /\ UNCHANGED faults

EditPolicy(u, n, k) ==
  Exists(n) /\ Change /\ Send(u, "edit", n, k) /\ UNCHANGED faults

(* The two Updates of Reconcile; cleanupTaints comes before the second. *)
AddFinalizer(o, n) ==
  /\ Exists(n) /\ ~policy[n].deleting /\ ~policy[n].protected
  /\ Send(o, "addFinalizer", n, policy[n].key)
  /\ UNCHANGED <<changes, faults>>

RemoveFinalizer(o, n) ==
  /\ Terminating(n) /\ policy[n].protected
  /\ Send(o, "removeFinalizer", n, policy[n].key)
  /\ UNCHANGED <<changes, faults>>

(* A write of policy n moves its resourceVersion. *)
Outdated(r, n) ==
  IF r # NoRequest /\ r.name = n THEN [r EXCEPT !.current = FALSE] ELSE r

(* No webhook is called: ValidateDelete is not registered. *)
DeletePolicy(n) ==
  /\ Exists(n) /\ ~policy[n].deleting
  /\ Change
  /\ policy' = [policy EXCEPT ![n] = IF @.protected THEN [@ EXCEPT !.deleting = TRUE]
                                                    ELSE NoPolicy]
  /\ request' = [c \in Clients |-> Outdated(request[c], n)]
  /\ UNCHANGED faults

-----------------------------------------------------------------------------
(* The webhook. *)

(* Mutant of validateUniqueTaintKey: the policy itself is not skipped. *)
KeyUnused(r) == \A m \in Names : Exists(m) => policy[m].key # r.key

(* Mutant of validateUniqueTaintKey: policies on their way out are skipped. *)
UniqueAmongLive(r) ==
  \A m \in Names \ {r.name} : Exists(m) /\ ~policy[m].deleting => policy[m].key # r.key

(* A request without a taint collides with nobody. *)
validateUniqueTaintKey(r) ==
  r.key # NoTaint => \A m \in Names \ {r.name} : Exists(m) => policy[m].key # r.key

(* Mutant of Validate: an update cannot change the key, so only a create   *)
(* is checked.                                                             *)
ValidateOnlyCreate(r) == r.verb = "create" => validateUniqueTaintKey(r)

(* ValidateCreate and ValidateUpdate. *)
Validate(r) == validateUniqueTaintKey(r)

Waiting(c) == request[c] # NoRequest /\ ~request[c].admitted

Admit(c) ==
  /\ Waiting(c)
  /\ Validate(request[c])
  /\ request' = [request EXCEPT ![c].admitted = TRUE]
  /\ UNCHANGED <<policy, changes, faults>>

Refused(c) ==
  /\ request' = [request EXCEPT ![c] = NoRequest]
  /\ UNCHANGED <<policy, changes>>

Reject(c) ==
  Waiting(c) /\ ~Validate(request[c]) /\ Refused(c) /\ UNCHANGED faults

(* The list fails, or the webhook is not reached (failurePolicy=fail); an  *)
(* admitted request may be lost as well, and a restarted operator forgets  *)
(* its request.                                                            *)
RequestFails(c) ==
  /\ request[c] # NoRequest
  /\ faults > 0 /\ faults' = faults - 1
  /\ Refused(c)

-----------------------------------------------------------------------------
(* The API server stores an admitted request. *)

(* Mutant of HasTaint: the taint is optional, as its marker says. *)
TaintOptional(r) == TRUE

(* The CEL rule of Remediations. *)
HasTaint(r) == r.key # NoTaint

(* The CEL rule of the taint refers to the old one, so it applies only if  *)
(* there is a taint before and after.                                      *)
TaintUnchanged(r) ==
  policy[r.name].key # NoTaint /\ r.key # NoTaint => policy[r.name].key = r.key

(* A create needs a free name; an edit is a patch without a lock, a        *)
(* finalizer Update carries the resourceVersion.                           *)
Storable(r) ==
  /\ HasTaint(r)
  /\ CASE r.verb = "create" -> ~Exists(r.name)
       [] r.verb = "edit"   -> Exists(r.name) /\ TaintUnchanged(r)
       [] OTHER             -> r.current

Written(r) ==
  CASE r.verb = "create"          -> [key |-> r.key, deleting |-> FALSE, protected |-> FALSE]
    [] r.verb = "edit"            -> [policy[r.name] EXCEPT !.key = r.key]
    [] r.verb = "addFinalizer"    -> [policy[r.name] EXCEPT !.protected = TRUE]
    [] r.verb = "removeFinalizer" -> NoPolicy

Admitted(c) == request[c] # NoRequest /\ request[c].admitted

Store(c) ==
  LET r == request[c]
  IN  /\ Admitted(c)
      /\ Storable(r)
      /\ policy' = [policy EXCEPT ![r.name] = Written(r)]
      /\ request' = [d \in Clients |-> IF d = c THEN NoRequest
                                       ELSE Outdated(request[d], r.name)]
      /\ UNCHANGED <<changes, faults>>

(* Invalid, AlreadyExists, NotFound or Conflict. *)
NotStored(c) ==
  Admitted(c) /\ ~Storable(request[c]) /\ Refused(c) /\ UNCHANGED faults

Serve(c) == Admit(c) \/ Reject(c) \/ Store(c) \/ NotStored(c)

(* The turn of policy n in the work queue. *)
Turn(n) == \E o \in Operators : AddFinalizer(o, n) \/ RemoveFinalizer(o, n)

Next ==
  \/ \E u \in Users, n \in Names : \E k \in Keys \cup {NoTaint} :
       CreatePolicy(u, n, k) \/ EditPolicy(u, n, k)
  \/ \E n \in Names : DeletePolicy(n) \/ Turn(n)
  \/ \E c \in Clients : Serve(c) \/ RequestFails(c)

(* Requests are served, and the work queue gives every policy its turn.    *)
Fairness ==
  /\ \A c \in Clients : WF_vars(Serve(c))
  /\ \A n \in Names : SF_vars(Turn(n))

Spec == Init /\ [][Next]_vars /\ Fairness

-----------------------------------------------------------------------------

(* Two policies with one key never both act on the nodes.  The webhook     *)
(* cannot keep two such policies from being stored (both may be validated  *)
(* before either is stored), but a pass touches nodes only under the       *)
(* finalizer, and the Update that adds it is validated once more, when     *)
(* both are there to be seen.                                              *)
OneOwnerPerKey ==
  \A n, m \in Names :
    n # m /\ Protected(n) /\ Protected(m) => policy[n].key # policy[m].key

(* "The taint is immutable once set": no sequence of admitted requests     *)
(* changes the taint of a policy, for instance by taking it off first,     *)
(* which the rule about the old taint does not see.  The cleanup of a      *)
(* deleted policy relies on it: it removes the key the spec has then.      *)
TaintIsImmutable ==
  [][\A n \in Names : Exists(n) /\ Exists(n)' => policy'[n].key = policy[n].key]_vars

(* The finalizer of n has been let through, stored or not. *)
Granted(n) ==
  \/ Protected(n)
  \/ \E o \in Clients : /\ Admitted(o) /\ request[o].verb = "addFinalizer"
                        /\ request[o].name = n /\ request[o].current

(* Why it holds: the same for finalizers that are admitted and on their    *)
(* way, because an admission sees every policy that can be granted one.    *)
OneGrantPerKey ==
  \A n, m \in Names : n # m /\ Granted(n) /\ Granted(m) => policy[n].key # policy[m].key

(* A finalizer Update whose lock holds is about the policy as it is. *)
LockMeansUnchanged ==
  \A c \in Clients :
    LET r == request[c]
    IN  r # NoRequest /\ r.current /\ r.verb \in {"addFinalizer", "removeFinalizer"} =>
          /\ Exists(r.name) /\ policy[r.name].key = r.key
          /\ policy[r.name].protected = policy[r.name].deleting
          /\ policy[r.name].deleting = (r.verb = "removeFinalizer")

(* The inductive invariant of the webhook and the two finalizer Updates.   *)
Inv == TypeOK /\ OneGrantPerKey /\ LockMeansUnchanged

(* Another policy has the same key. *)
Contested(n) == \E m \in Names \ {n} : Exists(m) /\ policy[m].key = policy[n].key

(* A policy nobody contests is served: a live one is protected in the end  *)
(* and a deleted one goes, whatever was refused while it was contested.    *)
UncontestedAreServed ==
  \A n \in Names :
    ~<>[](Exists(n) /\ policy[n].protected = policy[n].deleting /\ ~Contested(n))

(* "when the policy is deleted -- a finalizer removes it from the affected *)
(* nodes first", and the key-based cleanup is the backstop of two policies *)
(* with one key: a policy that is deleted goes.                            *)
DeletedPoliciesGo == \A n \in Names : Terminating(n) ~> ~Terminating(n)

=============================================================================
