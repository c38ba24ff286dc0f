SPECIFICATION Spec

CONSTANTS
  Branches = {b1, b2}
  FlowPhases = {"implementing", "gate"}
  AttemptPhase = "implementing"
  MaxSaid = 6
  MaxAlone = 8
  MaxLate = 1
  Phases = {coding, testing}
  Models = {1, 2}
  Gaps = {2}
  Slice = 3
  Day = 3
  MaxEvents = 3
  MaxHeld = 2
  MaxLives = 2

INVARIANTS
  RecordInv
  HangIsHeard
  OverIsNotJudged
  ReportedAsItIs
  LiftInv
  WholeAnswers

SYMMETRY Alike

CHECK_DEADLOCK FALSE
