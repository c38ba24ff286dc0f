SPECIFICATION Spec

CONSTANTS
  Runs = {r1}
  Places = {"stack", "host"}
  Tick = 1
  Late = 1
  Beat = 1
  Heartbeat = 2
  Gone = 3
  Progress = 3
  RunLimit = 3
  Window = 3
  Cap = 4
  MaxAway = 2
  MaxBreaks = 2
  MaxSlips = 0
  HostAlone = FALSE

INVARIANTS
  TypeOK

PROPERTIES
  LiveRunKept
  DeadRunClosed
