\* Two policies, two keys; two users and two operator instances race.
CONSTANTS
  Names = {p1, p2}
  Keys = {k1, k2}
  Users = {u1, u2}
  Operators = {o1, o2}
  NoTaint = NoTaint
  NoPolicy = NoPolicy
  NoRequest = NoRequest
  MaxChanges = 3
  MaxFaults = 1
SPECIFICATION Spec
CHECK_DEADLOCK FALSE
INVARIANTS OneOwnerPerKey Inv
PROPERTIES TaintIsImmutable UncontestedAreServed
