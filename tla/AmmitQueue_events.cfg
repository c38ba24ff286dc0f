SPECIFICATION Spec

CONSTANTS
  t1 = t1
  Tickets = {t1}
  Unnamed = Unnamed
  MaxRow = 2
  MaxRun = 2
  Slots = 2
  HostStarter = FALSE
  Asks <- AnyStand
  Verdicts = {"other"}
  Leases = {}
  Faults = {"reorder", "slow", "unsaid", "several"}
  MaxHolds = 1
  MaxTakes = 0
  MaxRestarts = 0

INVARIANTS
  TypeOK
  OneOpenRunPerTicket
  DoneMeansOver
  WaitingIsUntied
  OneRunPerRow
  QueueInv

PROPERTIES
  OverStaysOver
