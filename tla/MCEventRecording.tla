-------------------------- MODULE MCEventRecording --------------------------
(* A small instance of EventRecording. *)
EXTENDS EventRecording

CONSTANT a           \* the label set of every node

MCZeroTime == -10

PolicyFor(selector, percent) ==
  [selector |-> selector, conditionStatus |-> "True", debounceEnter |-> 0,
   debounceExit |-> 1, maxAffectedPercent |-> percent]

(* One matched node of two is allowed, two are not; the other spec does    *)
(* not parse.                                                              *)
MCGuardSpecs == {PolicyFor(Unset, 50), PolicyFor(InvalidSelector, 50)}

=============================================================================
