CONSTANTS
  KeyTriple = {t1, t2}
  KeyInfo = {i1, i2}
  NoInfo = NoInfo
  Torn = Torn
  Unsure = Unsure
  NoTriple = NoTriple
SPECIFICATION DurableSpec
INVARIANT CacheAgreesWithDisk
PROPERTY WrittenBackIsKept
