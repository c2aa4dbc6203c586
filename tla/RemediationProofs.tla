------------------------- MODULE RemediationProofs -------------------------
(***************************************************************************)
(* Facts about the decision for every policy and every set of nodes, used  *)
(* by the proofs about the modules that take it.                           *)
(***************************************************************************)
EXTENDS Remediation, FiniteSetTheorems, WellFoundedInduction, TLAPS

(* A set of positive integers that is not empty has a least element. *)
LEMMA PositiveMin ==
  ASSUME NEW S, S \subseteq Nat, S # {}
  PROVE  Min(S) \in S /\ \A y \in S : Min(S) <= y
<1>1. PICK x \in S : \A y \in S : ~(<<y, x>> \in OpToRel(<, Nat))
  BY NatLessThanWellFounded, WFMin
<1>2. \A y \in S : <<y, x>> \in Nat \X Nat
  OBVIOUS
<1>3. ASSUME NEW y \in S, y < x PROVE FALSE
  BY <1>1, <1>2, <1>3 DEF OpToRel
<1>4. \A y \in S : x <= y
  BY <1>3
<1> QED BY <1>4 DEF Min

(* The requeue delay: 0 without a positive wait, else the smallest one. *)
LEMMA MinPositiveLeast ==
  ASSUME NEW S, S \subseteq Int
  PROVE  /\ MinPositive(S) \in Nat
         /\ MinPositive(S) = 0 => \A d \in S : d <= 0
         /\ MinPositive(S) # 0 => /\ MinPositive(S) \in S
                                  /\ \A d \in S : d > 0 => MinPositive(S) <= d
<1>0. \A d \in S : d \in Int
  OBVIOUS
<1> DEFINE positive == {d \in S : d > 0}
<1>1. CASE positive = {}
  BY <1>1 DEF MinPositive
<1>2. CASE positive # {}
  <2>1. \A d \in positive : d \in Nat
    BY <1>0
  <2>2. Min(positive) \in positive /\ \A y \in positive : Min(positive) <= y
    <3> positive \subseteq Nat
      BY <2>1
    <3> HIDE DEF positive
    <3> QED BY <1>2, PositiveMin
  <2>3. MinPositive(S) = Min(positive)
    BY <1>2 DEF MinPositive
  <2>4. MinPositive(S) \in S /\ MinPositive(S) > 0
    BY <2>2, <2>3
  <2>5. \A d \in S : d > 0 => MinPositive(S) <= d
    BY <2>2, <2>3
  <2>6. MinPositive(S) \in Nat /\ MinPositive(S) # 0
    <3>1. \A m \in Int : m > 0 => m \in Nat /\ m # 0
      OBVIOUS
    <3>2. MinPositive(S) \in Int
      BY <1>0, <2>4
    <3> QED BY <2>4, <3>1, <3>2
  <2> QED BY <2>4, <2>5, <2>6
<1> QED BY <1>1, <1>2

(* Every wait is an integer, so the requeue delay is a natural number. *)
LEMMA RequeueType ==
  ASSUME NEW p, NEW facts, NEW now \in Int,
         p.debounceEnter \in Int, p.debounceExit \in Int,
         \A n \in DOMAIN facts : facts[n].lastTransition \in Int
  PROVE  RequeueAfter(p, facts, now) \in Nat
<1>1. \A n \in Pending(p, facts) : p.debounceEnter - StableFor(facts[n], now) \in Int
  BY DEF Pending, Matched, Selected, StableFor
<1>2. \A n \in Exiting(p, facts) : p.debounceExit - StableFor(facts[n], now) \in Int
  BY DEF Exiting, Selected, StableFor
<1>3. Waits(p, facts, now) \subseteq Int
  BY <1>1, <1>2 DEF Waits, Entering
<1> QED BY <1>3, MinPositiveLeast DEF RequeueAfter

(* The requeue delay is no longer than the longer window and the distance   *)
(* by which a transition may lie in the future.                            *)
LEMMA RequeueBound ==
  ASSUME NEW p, NEW facts, NEW H \in Nat, NEW skew \in Nat,
         p.debounceEnter \in Int, p.debounceExit \in Int,
         p.debounceEnter <= H, p.debounceExit <= H,
         \A n \in DOMAIN facts : /\ facts[n].lastTransition \in Int
                                 /\ facts[n].lastTransition <= skew
  PROVE  RequeueAfter(p, facts, 0) <= H + skew
<1>1. \A n \in Pending(p, facts) : /\ p.debounceEnter - StableFor(facts[n], 0) \in Int
                                   /\ p.debounceEnter - StableFor(facts[n], 0) <= H + skew
  BY DEF Pending, Matched, Selected, StableFor
<1>2. \A n \in Exiting(p, facts) : /\ p.debounceExit - StableFor(facts[n], 0) \in Int
                                   /\ p.debounceExit - StableFor(facts[n], 0) <= H + skew
  BY DEF Exiting, Selected, StableFor
<1>3. \A w \in Waits(p, facts, 0) : w \in Int /\ w <= H + skew
  BY <1>1, <1>2 DEF Waits, Entering
<1>4. Waits(p, facts, 0) \subseteq Int
  BY <1>3
<1> QED BY <1>3, <1>4, MinPositiveLeast DEF RequeueAfter

(* When a pass asks for no requeue, every node that waits for its window    *)
(* is handled by the pass itself; otherwise none waits less than the delay.*)
LEMMA RequeueCoversWaits ==
  ASSUME NEW p, NEW facts, NEW now \in Int,
         p.debounceEnter \in Int, p.debounceExit \in Int,
         \A n \in DOMAIN facts : facts[n].lastTransition \in Int
  PROVE  LET delay == RequeueAfter(p, facts, now) IN
         /\ delay = 0 =>
              /\ Entering(p, facts) \subseteq ApplyTaint(p, facts, now)
              /\ Exiting(p, facts) \subseteq RemoveTaint(p, facts, now)
         /\ delay # 0 =>
              /\ \A n \in Entering(p, facts) \ ApplyTaint(p, facts, now) :
                   delay <= p.debounceEnter - StableFor(facts[n], now)
              /\ \A n \in Exiting(p, facts) \ RemoveTaint(p, facts, now) :
                   delay <= p.debounceExit - StableFor(facts[n], now)
<1> DEFINE enter(n) == p.debounceEnter - StableFor(facts[n], now)
           exit(n) == p.debounceExit - StableFor(facts[n], now)
           late == Entering(p, facts) \ ApplyTaint(p, facts, now)
           stuck == Exiting(p, facts) \ RemoveTaint(p, facts, now)
<1>1. \A n \in late : enter(n) \in Int /\ enter(n) > 0
  BY DEF Entering, Pending, Matched, Selected, ApplyTaint, StableFor
<1>2. \A n \in stuck : exit(n) \in Int /\ exit(n) > 0
  BY DEF Exiting, Selected, RemoveTaint, StableFor
<1>3. Waits(p, facts, now) = {enter(n) : n \in late} \cup {exit(n) : n \in stuck}
  BY DEF Waits
<1> HIDE DEF enter, exit, late, stuck
<1>4. Waits(p, facts, now) \subseteq Int
  BY <1>1, <1>2, <1>3
<1>5. /\ \A n \in late : enter(n) \in Waits(p, facts, now)
      /\ \A n \in stuck : exit(n) \in Waits(p, facts, now)
  BY <1>3
<1>6. RequeueAfter(p, facts, now) = 0 => late = {} /\ stuck = {}
  <2>1. SUFFICES ASSUME RequeueAfter(p, facts, now) = 0
                 PROVE  late = {} /\ stuck = {}
    OBVIOUS
  <2>2. \A d \in Waits(p, facts, now) : d <= 0
    BY <1>4, <2>1, MinPositiveLeast DEF RequeueAfter
  <2>3. \A i \in Int : ~(i <= 0 /\ i > 0)
    OBVIOUS
  <2> QED BY <1>1, <1>2, <1>5, <2>2, <2>3
<1>7. RequeueAfter(p, facts, now) # 0 =>
        \A d \in Waits(p, facts, now) : d > 0 => RequeueAfter(p, facts, now) <= d
  BY <1>4, MinPositiveLeast DEF RequeueAfter
<1>8. RequeueAfter(p, facts, now) # 0 =>
        /\ \A n \in late : RequeueAfter(p, facts, now) <= enter(n)
        /\ \A n \in stuck : RequeueAfter(p, facts, now) <= exit(n)
  BY <1>1, <1>2, <1>5, <1>7
<1> QED BY <1>6, <1>8 DEF enter, exit, late, stuck

(* What the classification looks at: which nodes are in scope, and of those *)
(* the status, whether there is a timestamp, and the taint.  The age of the *)
(* condition decides when a node is acted on, never to which class it      *)
(* belongs.                                                                *)
LEMMA ClassifiedAlike ==
  ASSUME NEW p, NEW facts, NEW other,
         Selected(p, other) = Selected(p, facts),
         \A n \in Selected(p, facts) : /\ other[n].status = facts[n].status
                                       /\ NoTimestamp(other[n]) <=> NoTimestamp(facts[n])
                                       /\ other[n].hasTaint = facts[n].hasTaint
  PROVE  /\ Matched(p, other) = Matched(p, facts)
         /\ GuardTripped(p, other) = GuardTripped(p, facts)
         /\ Pending(p, other) = Pending(p, facts)
         /\ Entering(p, other) = Entering(p, facts)
         /\ Exiting(p, other) = Exiting(p, facts)
         /\ HeldMissingTimestamp(p, other) = HeldMissingTimestamp(p, facts)
         /\ \A now : /\ Decide(p, other, now).unknownNodes = Decide(p, facts, now).unknownNodes
                     /\ Decide(p, other, now).remediatedNodes = Decide(p, facts, now).remediatedNodes
<1>1. \A n \in Selected(p, facts) :
        /\ Matches(p, other[n]) <=> Matches(p, facts[n])
        /\ Indeterminate(other[n]) <=> Indeterminate(facts[n])
        /\ Determinate(p, other[n]) <=> Determinate(p, facts[n])
        /\ Cleared(p, other[n]) <=> Cleared(p, facts[n])
  BY DEF Matches, Indeterminate, Determinate, Cleared
<1>2. Matched(p, other) = Matched(p, facts)
  BY <1>1 DEF Matched
<1>3. DeterminateCount(p, other) = DeterminateCount(p, facts)
  <2>1. {n \in Selected(p, other) : Determinate(p, other[n])}
          = {n \in Selected(p, facts) : Determinate(p, facts[n])}
    BY <1>1
  <2> QED BY <2>1 DEF DeterminateCount
<1>4. GuardTripped(p, other) = GuardTripped(p, facts)
  BY <1>2, <1>3 DEF GuardTripped
<1>5. Pending(p, other) = Pending(p, facts)
  <2>1. Matched(p, facts) \subseteq Selected(p, facts)
    BY DEF Matched
  <2> QED BY <1>2, <2>1 DEF Pending
<1>6. Entering(p, other) = Entering(p, facts)
  BY <1>4, <1>5 DEF Entering
<1>7. Exiting(p, other) = Exiting(p, facts)
  BY <1>1 DEF Exiting
<1>8. HeldMissingTimestamp(p, other) = HeldMissingTimestamp(p, facts)
  BY <1>1 DEF HeldMissingTimestamp
<1>9. {n \in Selected(p, other) : ~Matches(p, other[n]) /\ Indeterminate(other[n])}
        = {n \in Selected(p, facts) : ~Matches(p, facts[n]) /\ Indeterminate(facts[n])}
  BY <1>1
<1>10. {n \in Selected(p, other) : other[n].hasTaint} = {n \in Selected(p, facts) : facts[n].hasTaint}
  OBVIOUS
<1> QED BY <1>2, <1>4, <1>5, <1>6, <1>7, <1>8, <1>9, <1>10 DEF Decide

(* A pass never both taints and releases a node: what it taints matches, is *)
(* in scope and has no taint; what it releases is out of scope or does not *)
(* match, and has the taint.                                               *)
LEMMA ActsChangeTaint ==
  ASSUME NEW p, NEW facts, NEW now
  PROVE  /\ \A n \in ApplyTaint(p, facts, now) :
              /\ n \in Selected(p, facts)
              /\ n \in Entering(p, facts)
              /\ Matches(p, facts[n])
              /\ ~facts[n].hasTaint
         /\ \A n \in RemoveTaint(p, facts, now) :
              /\ n \in DOMAIN facts
              /\ facts[n].hasTaint
              /\ n \in Selected(p, facts) => n \in Exiting(p, facts) /\ ~Matches(p, facts[n])
<1>1. \A n \in ApplyTaint(p, facts, now) : n \in Entering(p, facts) /\ n \in Pending(p, facts)
  BY DEF ApplyTaint, Entering
<1>2. \A n \in Pending(p, facts) :
        n \in Selected(p, facts) /\ Matches(p, facts[n]) /\ ~facts[n].hasTaint
  BY DEF Pending, Matched
<1>3. \A n \in ScopedOutTainted(p, facts) :
        n \in DOMAIN facts /\ facts[n].hasTaint /\ n \notin Selected(p, facts)
  BY DEF ScopedOutTainted
<1>4. \A n \in Exiting(p, facts) :
        n \in DOMAIN facts /\ facts[n].hasTaint /\ ~Matches(p, facts[n])
  BY DEF Exiting, Selected, Cleared
<1> QED BY <1>1, <1>2, <1>3, <1>4 DEF RemoveTaint

(* A decision only speaks of nodes it was given. *)
LEMMA DecideType ==
  ASSUME NEW p, NEW facts, NEW now \in Int, NEW N, DOMAIN facts \subseteq N,
         p.debounceEnter \in Int, p.debounceExit \in Int,
         \A n \in DOMAIN facts : facts[n].lastTransition \in Int
  PROVE  LET d == Decide(p, facts, now)
         IN  /\ d.applyTaint \subseteq N
             /\ d.removeTaint \subseteq N
             /\ d.requeueAfter \in Nat
             /\ d.selectedNodes \subseteq N
             /\ d.matchedNodes \subseteq N
             /\ d.pendingNodes \subseteq N
             /\ d.unknownNodes \subseteq N
             /\ d.heldMissingTimestamp \subseteq N
             /\ d.remediatedNodes \subseteq N
<1>1. RequeueAfter(p, facts, now) \in Nat
  BY RequeueType
<1>2. /\ Selected(p, facts) \subseteq N
      /\ Matched(p, facts) \subseteq N
      /\ Pending(p, facts) \subseteq N
      /\ HeldMissingTimestamp(p, facts) \subseteq N
      /\ ApplyTaint(p, facts, now) \subseteq N
      /\ RemoveTaint(p, facts, now) \subseteq N
  BY DEF Selected, Matched, Pending, HeldMissingTimestamp, Entering, ApplyTaint,
         RemoveTaint, ScopedOutTainted, Exiting
<1> QED BY <1>1, <1>2 DEF Decide

=============================================================================
