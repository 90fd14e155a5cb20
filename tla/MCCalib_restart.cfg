CONSTANTS
  Thread = {th1}
  KeyTriple = {t1}
  Slot <- MCSlot
  LockedSlot <- MCLockedSlot
  Kind <- MCKind
  Fits <- MCFits
  NoTriple = NoTriple
  NoSlot = NoSlot
  Overlap = FALSE
  Faults = {}
SPECIFICATION Spec
PROPERTY ValidMappingsKept
