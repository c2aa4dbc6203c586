--------------------------- MODULE TaintOwnership ---------------------------
(***************************************************************************)
(* What the finalizer promises, seen from the nodes: the taint is a        *)
(* resource that the policy acquires before any node carries it and        *)
(* releases, once it is deleted, after the last node has lost it.          *)
(* Deletion gives notice; it takes effect when the nodes are clean.        *)
(***************************************************************************)
CONSTANT Nodes

VARIABLES
  phase,     \* "free", "owned", or "releasing" once the owner is deleted
  tainted    \* the nodes that carry the taint

Init == phase = "free" /\ tainted = {}

Acquire == phase = "free" /\ phase' = "owned" /\ UNCHANGED tainted

GiveNotice == phase = "owned" /\ phase' = "releasing" /\ UNCHANGED tainted

Release == phase = "releasing" /\ tainted = {} /\ phase' = "free" /\ UNCHANGED tainted

(* Also after the notice: a pass that started before it may still act. *)
Taint(n) == phase # "free" /\ tainted' = tainted \cup {n} /\ UNCHANGED phase

Untaint(n) == tainted' = tainted \ {n} /\ UNCHANGED phase

Next == Acquire \/ GiveNotice \/ Release \/ \E n \in Nodes : Taint(n) \/ Untaint(n)

Spec == Init /\ [][Next]_<<phase, tainted>>

=============================================================================
