\* One node, two changes, liveness.
CONSTANTS
  Nodes = {n1}
  a = a
  b = b
  Labels = {a}
  Specs <- MCDefaultSpec
  ZeroTime <- MCZeroTime
  InvalidSelector = InvalidSelector
  Unset = Unset
  DefaultDebounceEnter = 1
  DefaultDebounceExit = 1
  Horizon = 1
  MaxSkew = 0
  Never = Never
  NoNode = NoNode
  NoPolicy = NoPolicy
  MaxLag = 1
  MaxChanges = 2
  MaxFaults = 1
  WatchesBreak = TRUE
SPECIFICATION Spec
PROPERTIES DeletionCompletes ComesToRest
