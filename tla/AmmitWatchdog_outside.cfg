SPECIFICATION FairSpec

CONSTANTS
  MaxRun = 2
  MaxCycle = 1
  MaxRow = 2
  Limit = 1
  Renewals = 1
  Endings = {"green", "nodrop", "drop", "spent"}
  Faults = {"outside", "unread", "withdraw"}
  MaxRestarts = 1

INVARIANTS
  NoFixForAnsweredDrop

PROPERTIES
  CyclesMoveOn
