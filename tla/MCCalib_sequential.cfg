CONSTANTS
  Thread = {th1, th2, th3}
  KeyTriple = {t1, t2, t3}
  Slot <- MCSlot
  LockedSlot <- MCLockedSlot
  Kind <- MCKind
  Fits <- MCFits
  NoTriple = NoTriple
  NoSlot = NoSlot
  Overlap = FALSE
  Faults = {"crash", "kim", "device"}
SPECIFICATION Spec
INVARIANTS SlotInv UsedSlotIsOwn BusySlotHasOwner
