SPECIFICATION Spec
CONSTANTS
  Flows <- MCFlows
  Branches = {b1, b2}
  Trunk = trunk
  MaxStarts = 3
SYMMETRY Alike
CHECK_DEADLOCK FALSE
INVARIANTS
  FrontierInv
  ResumeIsAccepted
  NothingLeftBehind
