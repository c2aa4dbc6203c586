\* Two overlapping calls; the node may rest when nobody calls or writes.
CONSTANTS
  Callers = {c1, c2}
  Keys = {k1, k2}
  Effects = {e1}
  Steps = 2
  MaxVersion = 2
SPECIFICATION Spec
INVARIANT Inv
PROPERTIES ForeignTaintsKept ImplementsStore CallsReturn
CHECK_DEADLOCK FALSE
