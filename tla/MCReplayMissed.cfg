SPECIFICATION ReplayFairSpec
CONSTANTS
  Stages <- MCStages
  Entry = "Think"
  Exits <- MCExits
  Executes <- MCExecutes
  Goto <- MCGoto
  Tools <- MCTools
  Allows <- MCAllows
  Filled = {"Save"}
  Omissible <- MCOmissible
  Guarded <- MCGuarded
  Aliased = FALSE
  MaxSteps = 2
  MaxRetries = 1
  MaxRounds = 1
INVARIANT
  FixtureMissReported
