------------------------- MODULE MCRemediationLoop -------------------------
(* Small instances of RemediationLoop. *)
EXTENDS RemediationLoop

CONSTANTS a, b       \* two label sets

MCZeroTime == -10

(* Every default but the guard's, which one node of two does not trip, and *)
(* a narrower spec that triggers on Unknown at once.                       *)
MCPolicies ==
  {[selector |-> Unset, conditionStatus |-> Unset,
    debounceEnter |-> Unset, debounceExit |-> Unset, maxAffectedPercent |-> 50],
   [selector |-> {a}, conditionStatus |-> "Unknown",
    debounceEnter |-> 0, debounceExit |-> 2, maxAffectedPercent |-> Unset]}

(* A single spec for the instance that counts nodes: every node, no delay. *)
MCGuardPolicies ==
  {[selector |-> Unset, conditionStatus |-> "True",
    debounceEnter |-> 0, debounceExit |-> 1, maxAffectedPercent |-> 50]}

=============================================================================
