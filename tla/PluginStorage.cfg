SPECIFICATION Spec
CONSTANTS
  Tasks = {t1, t2}
  Keys = {k1, k2}
  Texts = {x1, x2}
  Absent = Absent
  None = None
  MaxNonces = 3
INVARIANTS
  TypeOK
PROPERTIES
  ImplementsPlain
CHECK_DEADLOCK FALSE
