\* Two policies with one key are stored by a race, then one is deleted.
CONSTANTS
  Names = {p1, p2}
  Keys = {k1}
  Users = {u1, u2}
  Operators = {o1}
  NoTaint = NoTaint
  NoPolicy = NoPolicy
  NoRequest = NoRequest
  MaxChanges = 3
  MaxFaults = 0
SPECIFICATION Spec
PROPERTY DeletedPoliciesGo
CHECK_DEADLOCK FALSE
