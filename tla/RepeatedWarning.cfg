\* Two nodes under a 50% guard; nothing changes and nothing fails.
CONSTANTS
  Nodes = {n1, n2}
  a = a
  Labels = {a}
  Specs <- MCGuardSpecs
  ZeroTime <- MCZeroTime
  InvalidSelector = InvalidSelector
  Unset = Unset
  DefaultDebounceEnter = 0
  DefaultDebounceExit = 0
  Horizon = 1
  MaxSkew = 0
  Never = Never
  NoNode = NoNode
  NoPolicy = NoPolicy
  MaxLag = 2
  MaxChanges = 0
  MaxFaults = 0
  WatchesBreak = FALSE
SPECIFICATION EventsSpec
PROPERTY WarnsOnlyOfNews
