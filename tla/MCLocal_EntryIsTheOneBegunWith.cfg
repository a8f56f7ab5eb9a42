SPECIFICATION Spec
CONSTANTS
  a = a
  b = b
  r1 = r1
  r2 = r2
  Reqs = {q1}
  Names = {f}
  Dirs = {a, b}
  First = f
  Roots = {r1, r2}
  NoRoot = NoRoot
  Boundaries <- BoundariesDef
  Unchecked = Unchecked
  Budget = 3
  MaxInodes = 5
PROPERTY EntryIsTheOneBegunWith
CHECK_DEADLOCK FALSE
