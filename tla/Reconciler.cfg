\* One node, two specs.  The operator rests when the cluster does.
CONSTANTS
  Nodes = {n1}
  a = a
  b = b
  Labels = {a, b}
  Specs <- MCSpecs
  ZeroTime <- MCZeroTime
  InvalidSelector = InvalidSelector
  Unset = Unset
  DefaultDebounceEnter = 1
  DefaultDebounceExit = 0
  Horizon = 1
  MaxSkew = 1
  Never = Never
  NoNode = NoNode
  NoPolicy = NoPolicy
  MaxLag = 1
  MaxChanges = 2
  MaxFaults = 1
  WatchesBreak = FALSE
SPECIFICATION Spec
INVARIANTS RestMeansConverged RestMeansTruthfulStatus
