CONSTANTS
  Thread = {th1, th2}
  KeyTriple = {t1, t2}
  Id = {1, 2}
  IdMax = 4
  NoTriple = NoTriple
  NoId = 0
  Overlap = FALSE
  Faults = {"crash", "kim", "token", "data", "psa"}
SYMMETRY MCSymmetry
SPECIFICATION MCSpec
INVARIANTS FoundObjectIsOwn VolatileKeysReleased SecureKeyIsOwn
PROPERTIES KeyStoreSpec ObjectsLostByTokenOnly DeadMappingsFromRollback
