SPECIFICATION LiftSpec
CONSTANTS
  Phases = {coding}
  Models = {1}
  Gaps = {2}
  Slice = 3
  Day = 3
  MaxEvents = 2
  MaxHeld = 1
  MaxLives = 2
CHECK_DEADLOCK FALSE
INVARIANT NothingCountedTwice
