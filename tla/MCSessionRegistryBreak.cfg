SPECIFICATION Spec
CONSTANTS
  c1 = c1
  c2 = c2
  c3 = c3
  p1 = p1
  p2 = p2
  p3 = p3
  s1 = s1
  s2 = s2
  NULL = NULL
  Callers = {c1, c2, c3}
  Procs = {p1, p2, p3}
  ProcOf <- MCOneEach
  Sessions = {s1, s2}
  Works <- MCWorks
  Parent <- MCParent
  Patient = TRUE
  MaxCrashes = 1
PROPERTIES NeverRemoved
