SPECIFICATION Spec
CONSTANTS
  a = a
  b = b
  r1 = r1
  r2 = r2
  Reqs = {q1, q2}
  Names = {f}
  Dirs = {a, b}
  First = f
  Roots = {r1, r2}
  NoRoot = NoRoot
  Boundaries <- BoundariesDef
  Unchecked = Unchecked
  Budget = 3
  MaxInodes = 5
INVARIANTS
  StagesStayPrivate
  TimeNotNewer
PROPERTIES
  StaysInside
  NothingTakenUnseen
SYMMETRY Symmetry
CHECK_DEADLOCK FALSE
