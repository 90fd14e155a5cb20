CONSTANTS
  Thread = {th1, th2}
  KeyTriple = {t1}
  IdMin = 1
  IdMax = 4
  NoTriple = NoTriple
  NoThread = NoThread
  Overlap = TRUE
  Faults = {}
SPECIFICATION Spec
INVARIANT RollbackKeyIsPrivate
