SPECIFICATION Spec

CONSTANTS
  t1 = t1
  t2 = t2
  Tickets = {t1, t2}
  Unnamed = Unnamed
  MaxRow = 3
  MaxRun = 3
  Slots = 1
  HostStarter = TRUE
  Asks <- BothStands
  Verdicts = {"answer"}
  Leases = {"deploy"}
  Faults = {"deploys"}
  MaxHolds = 1
  MaxTakes = 1
  MaxRestarts = 0

SYMMETRY TicketSymmetry

INVARIANTS
  RoomKept
  OneRowPerRun

PROPERTIES
  NoOvertaking
