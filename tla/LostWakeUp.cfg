\* One node, one broken watch.
CONSTANTS
  Nodes = {n1}
  a = a
  b = b
  Labels = {a}
  Specs <- MCOneSpec
  ZeroTime <- MCZeroTime
  InvalidSelector = InvalidSelector
  Unset = Unset
  DefaultDebounceEnter = 0
  DefaultDebounceExit = 0
  Horizon = 0
  MaxSkew = 0
  Never = Never
  NoNode = NoNode
  NoPolicy = NoPolicy
  MaxLag = 2
  MaxChanges = 2
  MaxFaults = 1
  WatchesBreak = TRUE
SPECIFICATION Spec
INVARIANT RestMeansConverged
