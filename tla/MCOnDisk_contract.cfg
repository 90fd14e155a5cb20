CONSTANTS
  KeyTriple = {t1, t2, t3}
  KeyInfo = {i1, i2}
  NoInfo = NoInfo
  Torn = Torn
  Unsure = Unsure
  NoTriple = NoTriple
SPECIFICATION Spec
INVARIANT AckedIsKept
PROPERTY StoreSpec
