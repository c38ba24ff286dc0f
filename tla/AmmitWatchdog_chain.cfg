SPECIFICATION Spec

CONSTANTS
  MaxRun = 2
  MaxCycle = 4
  MaxRow = 3
  Limit = 3
  Renewals = 1
  Endings = {"drop", "budget"}
  Faults = {"waiting"}
  MaxRestarts = 0

INVARIANTS
  WatchInv
  OneCyclePerChain

PROPERTIES
  KeepsChain
