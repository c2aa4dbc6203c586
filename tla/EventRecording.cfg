\* Two nodes under a 50% guard, and a spec that does not parse.
CONSTANTS
  Nodes = {n1, n2}
  a = a
  Labels = {a}
  Specs <- MCGuardSpecs
  ZeroTime <- MCZeroTime
  InvalidSelector = InvalidSelector
  Unset = Unset
  DefaultDebounceEnter = 0
  DefaultDebounceExit = 0
  Horizon = 1
  MaxSkew = 0
  Never = Never
  NoNode = NoNode
  NoPolicy = NoPolicy
  MaxLag = 2
  MaxChanges = 1
  MaxFaults = 1
  WatchesBreak = FALSE
SPECIFICATION EventsSpec
INVARIANTS RestMeansConverged ReportedMeansWarned EventsTellTaint
