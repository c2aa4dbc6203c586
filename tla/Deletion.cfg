\* Deletion and re-creation, valid and invalid specs, with broken watches.
CONSTANTS
  Nodes = {n1}
  a = a
  b = b
  Labels = {a}
  Specs <- MCInvalidSpecs
  ZeroTime <- MCZeroTime
  InvalidSelector = InvalidSelector
  Unset = Unset
  DefaultDebounceEnter = 0
  DefaultDebounceExit = 0
  Horizon = 0
  MaxSkew = 0
  Never = Never
  NoNode = NoNode
  NoPolicy = NoPolicy
  MaxLag = 2
  MaxChanges = 2
  MaxFaults = 1
  WatchesBreak = TRUE
SPECIFICATION Spec
INVARIANTS NoStrandedTaint Inv RestMeansFinalizerSettled RestMeansTruthfulStatus
PROPERTY ImplementsOwnership
