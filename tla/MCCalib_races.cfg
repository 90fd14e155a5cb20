CONSTANTS
  Thread = {th1, th2}
  KeyTriple = {t1, t2}
  Slot <- MCSlot
  LockedSlot <- MCLockedSlot
  Kind <- MCKind
  Fits <- MCFits
  NoTriple = NoTriple
  NoSlot = NoSlot
  Overlap = TRUE
  Faults = {"crash", "kim", "device", "data"}
SPECIFICATION Spec
INVARIANT MappedSlotIsWritten
PROPERTY LockedSlotsUntouched
