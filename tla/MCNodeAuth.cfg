CONSTANTS
  Name <- MCName
  Master <- MCMaster
  Machine = {m1, m2}
  Server = server
  Keyed = {m1}
  MaxEvents = 1
SPECIFICATION Spec
INVARIANTS PassIsEarned RemovalHasCause
PROPERTIES VerifiedNodesStay EveryNodeIsDecided
