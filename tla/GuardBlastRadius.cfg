\* Three nodes under a 50% guard; relabelling is not needed.
CONSTANTS
  Nodes = {n1, n2, n3}
  a = a
  b = b
  Labels = {a}
  Policies <- MCGuardPolicies
  ZeroTime <- MCZeroTime
  InvalidSelector = InvalidSelector
  Unset = Unset
  DefaultDebounceEnter = 2
  DefaultDebounceExit = 1
  Horizon = 1
  MaxSkew = 0
  Never = Never
SPECIFICATION Spec
INVARIANT GuardLimitsRemediated
