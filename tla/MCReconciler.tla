---------------------------- MODULE MCReconciler ----------------------------
(* Small instances of Reconciler. *)
EXTENDS Reconciler

CONSTANTS a, b       \* two label sets

MCZeroTime == -10

PolicyFor(selector, enter, exit, percent) ==
  [selector |-> selector, conditionStatus |-> "True", debounceEnter |-> enter,
   debounceExit |-> exit, maxAffectedPercent |-> percent]

(* Every node, with the defaults, and one label set with an exit window.   *)
MCSpecs ==
  {PolicyFor(Unset, Unset, Unset, Unset), PolicyFor({a}, 0, 1, 100)}

(* A single spec without windows and without a guard: nothing is timed. *)
MCOneSpec == {PolicyFor(Unset, 0, 0, 100)}

(* A single spec with the default windows. *)
MCDefaultSpec == {PolicyFor(Unset, Unset, Unset, Unset)}

(* A single spec for the nodes of one label set. *)
MCScopedSpec == {PolicyFor({a}, 0, 0, 100)}

(* A spec that does not parse beside one that does. *)
MCInvalidSpecs ==
  {PolicyFor(Unset, 0, 0, 100), PolicyFor(InvalidSelector, 0, 0, Unset)}

=============================================================================
