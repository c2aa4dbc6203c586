----------------------- MODULE PolicyAdmissionProofs -----------------------
(***************************************************************************)
(* Proofs about PolicyAdmission, for any names, keys, users and operators. *)
(***************************************************************************)
EXTENDS PolicyAdmission, TLAPS

USE AdmissionAssumption

(* A request that becomes outdated keeps everything but its lock. *)
LEMMA OutdatedEffect ==
  ASSUME NEW r \in Request \cup {NoRequest}, NEW n
  PROVE  /\ Outdated(r, n) \in Request \cup {NoRequest}
         /\ Outdated(r, n) = NoRequest <=> r = NoRequest
         /\ r # NoRequest /\ Outdated(r, n).current => /\ r.name # n
                                                       /\ Outdated(r, n) = r
<1>1. CASE r # NoRequest /\ r.name = n
  <2> DEFINE w == [r EXCEPT !.current = FALSE]
  <2>1. r \in Request
    BY <1>1
  <2>2. w \in Request /\ ~w.current
    BY <2>1 DEF Request
  <2>3. Outdated(r, n) = w
    BY <1>1 DEF Outdated
  <2> HIDE DEF w
  <2> QED BY <1>1, <2>2, <2>3
<1>2. CASE ~(r # NoRequest /\ r.name = n)
  BY <1>2 DEF Outdated
<1> QED BY <1>1, <1>2

(* Client c sends a request or loses one: nothing is granted by that. *)
LEMMA NewRequestInv ==
  ASSUME Inv, NEW c \in Clients, NEW r \in Request \cup {NoRequest},
         request' = [request EXCEPT ![c] = r], UNCHANGED policy,
         r # NoRequest => ~r.admitted,
         r # NoRequest /\ r.verb \in {"addFinalizer", "removeFinalizer"} =>
           /\ Exists(r.name) /\ policy[r.name].key = r.key
           /\ policy[r.name].protected = policy[r.name].deleting
           /\ policy[r.name].deleting = (r.verb = "removeFinalizer"),
         changes' \in Nat, faults' \in Nat
  PROVE  Inv'
<1>1. /\ request'[c] = r
      /\ \A d \in Clients \ {c} : request'[d] = request[d]
  BY DEF Inv, TypeOK
<1>2. TypeOK'
  BY DEF Inv, TypeOK
<1>3. \A n \in Names : Granted(n)' => Granted(n)
  BY <1>1 DEF Granted, Admitted, Protected, Exists
<1>4. OneGrantPerKey'
  BY <1>3 DEF Inv, OneGrantPerKey
<1>5. LockMeansUnchanged'
  <2> SUFFICES ASSUME NEW d \in Clients, request'[d] # NoRequest, request'[d].current,
                      request'[d].verb \in {"addFinalizer", "removeFinalizer"}
               PROVE  LET q == request'[d]
                      IN  /\ Exists(q.name) /\ policy[q.name].key = q.key
                          /\ policy[q.name].protected = policy[q.name].deleting
                          /\ policy[q.name].deleting = (q.verb = "removeFinalizer")
    BY Zenon DEF LockMeansUnchanged, Exists
  <2>1. CASE d = c
    BY <1>1, <2>1
  <2>2. CASE d # c
    BY <1>1, <2>2 DEF Inv, LockMeansUnchanged
  <2> QED BY <2>1, <2>2
<1> QED BY <1>2, <1>4, <1>5 DEF Inv

(* A request is refused. *)
LEMMA RefusedInv ==
  ASSUME Inv, NEW c \in Clients, Refused(c), faults' \in Nat
  PROVE  Inv'
<1>1. /\ request' = [request EXCEPT ![c] = NoRequest] /\ UNCHANGED policy
      /\ changes' \in Nat
  BY DEF Refused, Inv, TypeOK
<1> QED BY <1>1, NewRequestInv

(* A client sends a request. *)
LEMMA SendInv ==
  ASSUME Inv, NEW c \in Clients, NEW verb, NEW n \in Names, NEW k \in Keys \cup {NoTaint},
         Send(c, verb, n, k),
         \/ verb \in {"create", "edit"}
         \/ /\ verb \in {"addFinalizer", "removeFinalizer"}
            /\ Exists(n) /\ policy[n].key = k
            /\ policy[n].protected = policy[n].deleting
            /\ policy[n].deleting = (verb = "removeFinalizer"),
         changes' \in Nat, faults' \in Nat
  PROVE  Inv'
<1> DEFINE r == [verb |-> verb, name |-> n, key |-> k, admitted |-> FALSE, current |-> TRUE]
<1>1. r \in Request /\ ~r.admitted /\ r.name = n /\ r.key = k /\ r.verb = verb
  BY DEF Request
<1>2. request' = [request EXCEPT ![c] = r] /\ UNCHANGED policy
  BY DEF Send
<1> HIDE DEF r
<1> QED BY <1>1, <1>2, NewRequestInv

(* A user or the operator sends a create, an edit or a finalizer Update. *)
LEMMA ClientInv ==
  ASSUME Inv, NEW c \in Clients, NEW n \in Names,
         \/ \E k \in Keys \cup {NoTaint} : CreatePolicy(c, n, k) \/ EditPolicy(c, n, k)
         \/ AddFinalizer(c, n)
         \/ RemoveFinalizer(c, n)
  PROVE  Inv'
<1>1. changes' \in Nat /\ faults' \in Nat
  BY DEF CreatePolicy, EditPolicy, AddFinalizer, RemoveFinalizer, Change, Inv, TypeOK
<1>2. Exists(n) => /\ policy[n] \in PolicyObject /\ policy[n].key \in Keys
                   /\ policy[n].deleting \in BOOLEAN /\ policy[n].protected \in BOOLEAN
  BY DEF Exists, Inv, TypeOK, PolicyObject
<1>3. CASE \E k \in Keys \cup {NoTaint} : CreatePolicy(c, n, k)
  BY <1>1, <1>3, SendInv DEF CreatePolicy
<1>4. CASE \E k \in Keys \cup {NoTaint} : EditPolicy(c, n, k)
  BY <1>1, <1>4, SendInv DEF EditPolicy
<1>5. CASE AddFinalizer(c, n)
  <2>1. /\ Send(c, "addFinalizer", n, policy[n].key) /\ Exists(n)
        /\ policy[n].deleting = FALSE /\ policy[n].protected = FALSE
    BY <1>2, <1>5 DEF AddFinalizer
  <2> QED BY <1>1, <1>2, <2>1, SendInv
<1>6. CASE RemoveFinalizer(c, n)
  <2>1. /\ Send(c, "removeFinalizer", n, policy[n].key) /\ Exists(n)
        /\ policy[n].deleting = TRUE /\ policy[n].protected = TRUE
    BY <1>2, <1>6 DEF RemoveFinalizer, Terminating
  <2> QED BY <1>1, <1>2, <2>1, SendInv
<1> QED BY <1>3, <1>4, <1>5, <1>6

(* The webhook lets a request through: nobody else has its key. *)
LEMMA AdmitInv ==
  ASSUME Inv, NEW c \in Clients, Admit(c)
  PROVE  Inv'
<1> DEFINE r == request[c]
           w == [r EXCEPT !.admitted = TRUE]
<1>1. /\ r # NoRequest /\ Validate(r) /\ request' = [request EXCEPT ![c] = w]
      /\ UNCHANGED <<policy, changes, faults>>
  BY DEF Admit, Waiting
<1>2. r \in Request
  BY <1>1 DEF Inv, TypeOK
<1>3. /\ w \in Request /\ w # NoRequest /\ w.current = r.current
      /\ w.name = r.name /\ w.key = r.key /\ w.verb = r.verb
  BY <1>2 DEF Request
<1>4. /\ request'[c] = w
      /\ \A d \in Clients \ {c} : request'[d] = request[d]
  BY <1>1 DEF Inv, TypeOK
<1> HIDE DEF r, w
<1>5. TypeOK'
  BY <1>1, <1>3 DEF Inv, TypeOK
<1>6. LockMeansUnchanged'
  BY <1>1, <1>3, <1>4 DEF Inv, LockMeansUnchanged, Exists, r
<1>7. \A n \in Names : Granted(n) => Exists(n)
  BY DEF Granted, Admitted, Protected, Inv, LockMeansUnchanged
<1>8. \A n \in Names : Granted(n)' =>
        \/ Granted(n)
        \/ n = r.name /\ r.current /\ r.verb = "addFinalizer"
  BY <1>1, <1>3, <1>4 DEF Granted, Admitted, Protected, Exists
<1>9. r.current /\ r.verb = "addFinalizer" => policy[r.name].key = r.key /\ r.key \in Keys
  <2> SUFFICES ASSUME r.current, r.verb = "addFinalizer"
               PROVE  policy[r.name].key = r.key /\ r.key \in Keys
    OBVIOUS
  <2>1. Exists(r.name) /\ policy[r.name].key = r.key
    BY <1>1 DEF Inv, LockMeansUnchanged, r
  <2>2. policy[r.name] \in PolicyObject
    BY <1>2, <2>1 DEF Exists, Inv, TypeOK, Request
  <2> QED BY <2>1, <2>2 DEF PolicyObject
<1>10. r.key \in Keys =>
         \A m \in Names : m # r.name /\ Granted(m) => policy[m].key # r.key
  BY <1>1, <1>7 DEF Validate, validateUniqueTaintKey
<1>11. OneGrantPerKey'
  <2> SUFFICES ASSUME NEW n \in Names, NEW m \in Names, n # m, Granted(n)', Granted(m)'
               PROVE  policy[n].key # policy[m].key
    BY <1>1 DEF OneGrantPerKey
  <2>1. CASE Granted(n) /\ Granted(m)
    BY <2>1 DEF Inv, OneGrantPerKey
  <2>2. CASE ~Granted(n)
    BY <1>8, <1>9, <1>10, <2>2
  <2>3. CASE ~Granted(m)
    BY <1>8, <1>9, <1>10, <2>3
  <2> QED BY <2>1, <2>2, <2>3
<1> QED BY <1>5, <1>6, <1>11 DEF Inv

(* Policy n is written or goes: the locks on it are void. *)
LEMMA PolicyWriteInv ==
  ASSUME Inv, NEW n \in Names, NEW v \in PolicyObject \cup {NoPolicy},
         policy' = [policy EXCEPT ![n] = v],
         request' \in [Clients -> Request \cup {NoRequest}],
         \A c \in Clients : request'[c] # NoRequest /\ request'[c].current =>
           request'[c] = request[c] /\ request[c].name # n,
         v # NoPolicy /\ v.protected => Granted(n) /\ v.key = policy[n].key,
         changes' \in Nat, faults' \in Nat
  PROVE  Inv'
<1>1. /\ policy'[n] = v
      /\ \A m \in Names \ {n} : policy'[m] = policy[m]
  BY DEF Inv, TypeOK
<1>2. TypeOK'
  BY DEF Inv, TypeOK
<1>3. LockMeansUnchanged'
  <2> SUFFICES ASSUME NEW c \in Clients, request'[c] # NoRequest, request'[c].current,
                      request'[c].verb \in {"addFinalizer", "removeFinalizer"}
               PROVE  LET q == request'[c]
                      IN  /\ policy'[q.name] # NoPolicy /\ policy'[q.name].key = q.key
                          /\ policy'[q.name].protected = policy'[q.name].deleting
                          /\ policy'[q.name].deleting = (q.verb = "removeFinalizer")
    BY Zenon DEF LockMeansUnchanged, Exists
  <2>1. request'[c] = request[c] /\ request[c].name \in Names \ {n}
    BY DEF Inv, TypeOK, Request
  <2>2. policy'[request[c].name] = policy[request[c].name]
    BY <1>1, <2>1
  <2> QED BY <2>1, <2>2 DEF Inv, LockMeansUnchanged, Exists
<1>4. \A m \in Names : Granted(m)' => Granted(m) /\ policy'[m].key = policy[m].key
  <2> SUFFICES ASSUME NEW m \in Names, Granted(m)'
               PROVE  Granted(m) /\ policy'[m].key = policy[m].key
    OBVIOUS
  <2>1. CASE m = n
    <3>1. ~(\E c \in Clients : Admitted(c)' /\ request'[c].name = n /\ request'[c].current)
      BY DEF Admitted
    <3>2. v # NoPolicy /\ v.protected
      BY <1>1, <2>1, <3>1 DEF Granted, Protected, Exists
    <3> QED BY <1>1, <2>1, <3>2
  <2>2. CASE m # n
    BY <1>1, <2>2 DEF Granted, Admitted, Protected, Exists
  <2> QED BY <2>1, <2>2
<1>5. OneGrantPerKey'
  BY <1>4 DEF Inv, OneGrantPerKey
<1> QED BY <1>2, <1>3, <1>5 DEF Inv

(* A delete, which no webhook sees, voids the locks on the policy. *)
LEMMA DeletePolicyInv ==
  ASSUME Inv, NEW n \in Names, DeletePolicy(n)
  PROVE  Inv'
<1> DEFINE p == policy[n]
           w == [p EXCEPT !.deleting = TRUE]
           v == IF p.protected THEN w ELSE NoPolicy
<1>1. /\ Exists(n) /\ policy' = [policy EXCEPT ![n] = v]
      /\ request' = [c \in Clients |-> Outdated(request[c], n)]
      /\ changes' \in Nat /\ faults' \in Nat
  BY DEF DeletePolicy, Change, Inv, TypeOK
<1>2. p \in PolicyObject
  BY <1>1 DEF Exists, Inv, TypeOK
<1>3. w \in PolicyObject /\ w.key = p.key /\ w.protected = p.protected
  <2> HIDE DEF p
  <2> QED BY <1>2 DEF PolicyObject
<1>4. /\ v \in PolicyObject \cup {NoPolicy}
      /\ v # NoPolicy /\ v.protected => Granted(n) /\ v.key = policy[n].key
  <2> HIDE DEF w
  <2> QED BY <1>1, <1>3 DEF Granted, Protected
<1>5. \A c \in Clients : request[c] \in Request \cup {NoRequest}
  BY DEF Inv, TypeOK
<1>6. /\ request' \in [Clients -> Request \cup {NoRequest}]
      /\ \A c \in Clients : request'[c] # NoRequest /\ request'[c].current =>
           request'[c] = request[c] /\ request[c].name # n
  <2> HIDE DEF Outdated
  <2> QED BY <1>1, <1>5, OutdatedEffect
<1> HIDE DEF v
<1> QED BY <1>1, <1>4, <1>6, PolicyWriteInv

(* The API server stores an admitted request. *)
LEMMA StoreInv ==
  ASSUME Inv, NEW c \in Clients, Store(c)
  PROVE  Inv'
<1> DEFINE r == request[c]
           n == r.name
           p == policy[n]
           v == Written(r)
<1>1. /\ Admitted(c) /\ Storable(r) /\ policy' = [policy EXCEPT ![n] = v]
      /\ request' = [d \in Clients |-> IF d = c THEN NoRequest ELSE Outdated(request[d], n)]
      /\ changes' \in Nat /\ faults' \in Nat
  BY DEF Store, Inv, TypeOK
<1>2. r \in Request /\ r # NoRequest /\ r.admitted /\ n \in Names
  BY <1>1 DEF Admitted, Inv, TypeOK, Request
<1>3. /\ v \in PolicyObject \cup {NoPolicy}
      /\ v # NoPolicy /\ v.protected => Granted(n) /\ v.key = p.key
  <2>1. CASE r.verb = "create"
    <3>1. v = [key |-> r.key, deleting |-> FALSE, protected |-> FALSE] /\ r.key \in Keys
      BY <1>1, <1>2, <2>1 DEF Written, Request, Storable, HasTaint
    <3>2. v \in PolicyObject /\ ~v.protected
      BY <3>1 DEF PolicyObject
    <3> QED BY <3>2
  <2>2. CASE r.verb = "edit"
    <3>1. v = [p EXCEPT !.key = r.key] /\ Exists(n) /\ TaintUnchanged(r) /\ r.key # NoTaint
      BY <1>1, <2>2 DEF Written, Storable, HasTaint
    <3>2. p \in PolicyObject
      BY <1>2, <3>1 DEF Exists, Inv, TypeOK
    <3>3. r.key = p.key
      BY <3>1, <3>2 DEF TaintUnchanged, PolicyObject
    <3>4. v = p
      <4> HIDE DEF p, v
      <4> QED BY <3>1, <3>2, <3>3 DEF PolicyObject
    <3> QED BY <3>1, <3>2, <3>4 DEF Granted, Protected
  <2>3. CASE r.verb = "addFinalizer"
    <3>1. r.current /\ v = [p EXCEPT !.protected = TRUE]
      BY <1>1, <2>3 DEF Written, Storable
    <3>2. Granted(n)
      BY <1>1, <2>3, <3>1 DEF Granted
    <3>3. Exists(n)
      BY <1>2, <2>3, <3>1 DEF Inv, LockMeansUnchanged
    <3>4. p \in PolicyObject
      BY <1>2, <3>3 DEF Exists, Inv, TypeOK
    <3>5. v \in PolicyObject /\ v.key = p.key
      <4> HIDE DEF p, v
      <4> QED BY <3>1, <3>4 DEF PolicyObject
    <3> QED BY <3>2, <3>5
  <2>4. CASE r.verb = "removeFinalizer"
    BY <2>4 DEF Written
  <2> QED BY <1>2, <2>1, <2>2, <2>3, <2>4 DEF Request
<1>4. \A d \in Clients : request[d] \in Request \cup {NoRequest}
  BY DEF Inv, TypeOK
<1>5. /\ request' \in [Clients -> Request \cup {NoRequest}]
      /\ \A d \in Clients : request'[d] # NoRequest /\ request'[d].current =>
           request'[d] = request[d] /\ request[d].name # n
  <2> HIDE DEF Outdated, n
  <2> QED BY <1>1, <1>4, OutdatedEffect
<1> HIDE DEF v, n
<1> QED BY <1>1, <1>2, <1>3, <1>5, PolicyWriteInv DEF r

(* The webhook and the API server answer a request. *)
LEMMA ServeInv ==
  ASSUME Inv, NEW c \in Clients, Serve(c) \/ RequestFails(c)
  PROVE  Inv'
<1>1. CASE Admit(c)
  BY <1>1, AdmitInv
<1>2. CASE Store(c)
  BY <1>2, StoreInv
<1>3. CASE Reject(c) \/ NotStored(c) \/ RequestFails(c)
  <2>1. Refused(c) /\ faults' \in Nat
    BY <1>3 DEF Reject, NotStored, RequestFails, Inv, TypeOK
  <2> QED BY <2>1, RefusedInv
<1> QED BY <1>1, <1>2, <1>3 DEF Serve

(* Without policies and requests nothing is granted. *)
LEMMA InitInv == Init => Inv
<1> SUFFICES ASSUME Init PROVE Inv
  OBVIOUS
<1>1. TypeOK
  BY DEF Init, TypeOK
<1>2. \A c \in Clients : request[c] = NoRequest
  BY DEF Init
<1>3. \A n \in Names : ~Granted(n)
  BY <1>2 DEF Init, Granted, Admitted, Protected, Exists
<1> QED BY <1>1, <1>2, <1>3 DEF Inv, OneGrantPerKey, LockMeansUnchanged

(* Every step preserves the invariant: one lemma above per kind of step. *)
LEMMA StepInv == Inv /\ [Next]_vars => Inv'
<1> SUFFICES ASSUME Inv, [Next]_vars PROVE Inv'
  OBVIOUS
<1>1. CASE \E u \in Users, n \in Names :
             \E k \in Keys \cup {NoTaint} : CreatePolicy(u, n, k) \/ EditPolicy(u, n, k)
  BY <1>1, ClientInv DEF Clients
<1>2. CASE \E n \in Names : DeletePolicy(n)
  BY <1>2, DeletePolicyInv
<1>3. CASE \E o \in Operators, n \in Names : AddFinalizer(o, n) \/ RemoveFinalizer(o, n)
  BY <1>3, ClientInv DEF Clients
<1>4. CASE \E c \in Clients : Serve(c) \/ RequestFails(c)
  BY <1>4, ServeInv
<1>5. CASE UNCHANGED vars
  BY <1>5 DEF vars, Inv, TypeOK, OneGrantPerKey, LockMeansUnchanged, Granted, Admitted,
     Protected, Exists
<1> QED BY <1>1, <1>2, <1>3, <1>4, <1>5 DEF Next, Turn

(* The inductive invariant: an admitted finalizer whose lock holds counts  *)
(* like a stored one.                                                      *)
THEOREM AdmissionInvHolds == Spec => []Inv
BY InitInv, StepInv, PTL DEF Spec

(* The race that lets two policies with one key be stored never gives both *)
(* the finalizer, without which Reconcile touches no node: for any number  *)
(* of policies, users and overlapping operators.                           *)
THEOREM KeysHaveOneOwner == Spec => []OneOwnerPerKey
<1>1. Inv => OneOwnerPerKey
  BY DEF Inv, OneGrantPerKey, OneOwnerPerKey, Granted
<1> QED BY <1>1, AdmissionInvHolds, PTL

(* Only the API server writes a policy, and what it stores has the taint   *)
(* of the policy it replaces.                                              *)
LEMMA StepKeepsTaint ==
  ASSUME Inv, [Next]_vars, NEW n \in Names, Exists(n), policy'[n] # NoPolicy
  PROVE  policy'[n].key = policy[n].key
<1> USE DEF Inv, TypeOK
<1>1. policy[n] \in PolicyObject
  BY DEF Exists
<1>2. CASE UNCHANGED policy
  BY <1>2
<1>3. ASSUME NEW m \in Names, DeletePolicy(m) PROVE policy'[n].key = policy[n].key
  <2>1. CASE n # m
    BY <1>3, <2>1 DEF DeletePolicy
  <2>2. CASE n = m
    <3>1. policy'[n] = [policy[n] EXCEPT !.deleting = TRUE]
      BY <1>3, <2>2 DEF DeletePolicy
    <3> QED BY <1>1, <3>1 DEF PolicyObject
  <2> QED BY <2>1, <2>2
<1>4. ASSUME NEW c \in Clients, Store(c) PROVE policy'[n].key = policy[n].key
  <2> DEFINE r == request[c]
  <2>1. r \in Request /\ Storable(r) /\ policy' = [policy EXCEPT ![r.name] = Written(r)]
    BY <1>4 DEF Store, Admitted
  <2>2. CASE n # r.name
    BY <2>1, <2>2
  <2>3. CASE n = r.name
    <3>1. policy'[n] = Written(r) /\ r.verb # "create"
      BY <2>1, <2>3 DEF Storable
    <3>2. CASE r.verb = "edit"
      <4>1. policy'[n] = [policy[n] EXCEPT !.key = r.key]
        BY <2>3, <3>1, <3>2 DEF Written
      <4>2. policy[n].key = r.key
        BY <1>1, <2>1, <2>3, <3>2 DEF Storable, HasTaint, TaintUnchanged, PolicyObject
      <4> HIDE DEF r
      <4> QED BY <1>1, <4>1, <4>2 DEF PolicyObject
    <3>3. CASE r.verb = "addFinalizer"
      <4>1. policy'[n] = [policy[n] EXCEPT !.protected = TRUE]
        BY <2>3, <3>1, <3>3 DEF Written
      <4> QED BY <1>1, <4>1 DEF PolicyObject
    <3>4. r.verb # "removeFinalizer"
      BY <3>1 DEF Written
    <3> QED BY <2>1, <3>1, <3>2, <3>3, <3>4 DEF Request
  <2> QED BY <2>2, <2>3
<1>5. UNCHANGED policy \/ (\E m \in Names : DeletePolicy(m)) \/ (\E c \in Clients : Store(c))
  BY DEF Next, Turn, vars, CreatePolicy, EditPolicy, AddFinalizer, RemoveFinalizer, Send, Serve,
     Admit, Reject, NotStored, Refused, RequestFails
<1> QED BY <1>2, <1>3, <1>4, <1>5

(* No sequence of requests changes the taint of a stored policy: the rule  *)
(* that there is one closes the gap of the rule that it stays the same.    *)
THEOREM TaintNeverChanges == Spec => TaintIsImmutable
<1> DEFINE Keeps == \A n \in Names : Exists(n) /\ Exists(n)' => policy'[n].key = policy[n].key
<1>1. Inv /\ [Next]_vars => [Keeps]_vars
  BY StepKeepsTaint DEF Exists
<1> QED BY <1>1, AdmissionInvHolds, PTL DEF Spec, TaintIsImmutable

=============================================================================
