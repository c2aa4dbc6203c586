\* Two nodes, windows of 0 to 2 units, clocks up to one unit ahead.
CONSTANTS
  Nodes = {n1, n2}
  a = a
  b = b
  Labels = {a, b}
  Policies <- MCPolicies
  ZeroTime <- MCZeroTime
  InvalidSelector = InvalidSelector
  Unset = Unset
  DefaultDebounceEnter = 2
  DefaultDebounceExit = 1
  Horizon = 2
  MaxSkew = 1
  Never = Never
SPECIFICATION Spec
INVARIANTS TypeOK NoOversleep
PROPERTIES DueNodesAreTainted DueNodesAreReleased LoopFallsSilent
