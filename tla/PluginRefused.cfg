SPECIFICATION Spec
CONSTANTS
  Tasks = {t1, t2}
  Keys = {k1}
  Texts = {x1, x2}
  Absent = Absent
  None = None
  MaxNonces = 3
PROPERTIES
  RefusedOnlyIfModified
CHECK_DEADLOCK FALSE
