CONSTANTS
  Thread = {th1, th2}
  KeyTriple = {t1, t2}
  IdMin = 1
  IdMax = 4
  NoTriple = NoTriple
  NoThread = NoThread
  Overlap = TRUE
  Faults = {"crash", "kim", "backend"}
SPECIFICATION Spec
INVARIANT IdInv
PROPERTIES MappedKeyStays ZombiesStayUnreachable
