CONSTANTS
  Thread = {th1, th2}
  KeyTriple = {t1, t2}
  TokenTriple = {t1}
  TokenId = {1, 2}
  Context = {1, 2, 3, 4}
  NoTriple = NoTriple
  NoThread = NoThread
  NoId = 0
  Overlap = TRUE
  Faults = {"crash", "kim", "tpm", "panic"}
SPECIFICATION MCSpec
INVARIANTS SoleKeyKept BrokenContextUnused
PROPERTIES TokenDrainEnds TpmDrainEnds
