\* One node that leaves the selector while a pass is on its way; no faults needed.
CONSTANTS
  Nodes = {n1}
  a = a
  b = b
  Labels = {a, b}
  Specs <- MCScopedSpec
  ZeroTime <- MCZeroTime
  InvalidSelector = InvalidSelector
  Unset = Unset
  DefaultDebounceEnter = 1
  DefaultDebounceExit = 0
  Horizon = 1
  MaxSkew = 0
  Never = Never
  NoNode = NoNode
  NoPolicy = NoPolicy
  MaxLag = 2
  MaxChanges = 1
  MaxFaults = 0
  WatchesBreak = FALSE
SPECIFICATION Spec
INVARIANT RestMeansScopedOutReleased
