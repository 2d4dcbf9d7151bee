SPECIFICATION Spec
CONSTANTS
  Threads = {t1, t2, t3}
  Routines = {r1, r2}
  Objects = {o1, o2, o3}
  NULL = NULL
  Link = Link
  TypeIndex = 3
  MaxCreates = 4
SYMMETRY Symmetry
INVARIANT ObjectsSafe
CHECK_DEADLOCK FALSE
