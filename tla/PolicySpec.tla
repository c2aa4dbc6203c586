----------------------------- MODULE PolicySpec -----------------------------
(***************************************************************************)
(* spec of a NodeRemediationPolicy and its projection onto the policy of   *)
(* module Remediation (projectPolicy and the ...OrDefault getters).  A     *)
(* spec has the fields of that policy, and any of them may be Unset.       *)
(*                                                                         *)
(* The API server fills in a default only below an object that is present: *)
(* a user who writes no debounce and no guard stores neither, but the      *)
(* operator's Updates write both as empty objects, which are filled in.    *)
(***************************************************************************)
EXTENDS Remediation

CONSTANTS
  Labels,                \* label sets a node can have
  Unset,                 \* the field is absent
  InvalidSelector,       \* a nodeSelector LabelSelectorAsSelector rejects
  DefaultDebounceEnter,
  DefaultDebounceExit

DefaultConditionStatus    == "True"
DefaultMaxAffectedPercent == 100

OrDefault(value, default) == IF value # Unset THEN value ELSE default

(* A nil selector matches every node. *)
nodeSelector(s) == OrDefault(s.selector, Labels)

ValidSelector(s) == s.selector # InvalidSelector

Selects(s, node) == ValidSelector(s) /\ node.labels \in nodeSelector(s)

projectPolicy(s) ==
  [selector           |-> nodeSelector(s),
   conditionStatus    |-> OrDefault(s.conditionStatus, DefaultConditionStatus),
   debounceEnter      |-> OrDefault(s.debounceEnter, DefaultDebounceEnter),
   debounceExit       |-> OrDefault(s.debounceExit, DefaultDebounceExit),
   maxAffectedPercent |-> OrDefault(s.maxAffectedPercent, DefaultMaxAffectedPercent)]

(* The spec as it is stored after an Update of the operator. *)
WrittenBack(s) ==
  [s EXCEPT !.debounceEnter      = OrDefault(@, DefaultDebounceEnter),
            !.debounceExit       = OrDefault(@, DefaultDebounceExit),
            !.maxAffectedPercent = OrDefault(@, DefaultMaxAffectedPercent)]

=============================================================================
