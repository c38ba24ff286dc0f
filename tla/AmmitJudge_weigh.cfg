SPECIFICATION Spec

CONSTANTS
  r1 = r1
  r2 = r2
  s1 = s1
  s2 = s2
  s3 = s3
  quiet = quiet
  Nobody = Nobody
  Unset = Unset
  Twice = Twice
  Runs <- MCRuns
  Names <- MCNames
  Anonymous = {quiet}
  Action <- MCAction
  Blind = "stop_run"
  TwiceAction = "notify"
  EndsRun = {"stop_run", "restart_worker"}
  RetryMax = 1
  Plans <- MCPlans
  ByHand = {"restart_worker"}
  Long = 2
  MaxLives = 2
  MaxHands = 1
  MaxCrossings = 2

INVARIANTS
  JudgeInv
  RevivalsBounded
  ReachesItsOwn
  WarnedRunsGoOn

PROPERTIES
  NoLimitCrossedSilently
