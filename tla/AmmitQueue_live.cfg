SPECIFICATION FairSpec

CONSTANTS
  t1 = t1
  Tickets = {t1}
  Unnamed = Unnamed
  MaxRow = 2
  MaxRun = 1
  Slots = 1
  HostStarter = FALSE
  Asks <- AnyStand
  Verdicts = {"other"}
  Leases = {"deploy"}
  Faults = {"duplicate", "slow"}
  MaxHolds = 1
  MaxTakes = 1
  MaxRestarts = 1

PROPERTIES
  NoRowStuck
  EveryRowServed
