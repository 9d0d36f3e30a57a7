SPECIFICATION StreamFairSpec
CONSTANTS
  Stages <- MCStages
  Entry = "Work"
  Exits <- MCExits
  Transitions <- MCTransitions
  Requires <- MCRequires
  Writes <- MCWrites
  MaxSteps = 2
  EventLimit = 1
INVARIANTS
  CallerSeesTheRun
  ClosedMeansFinalised
PROPERTIES
  WaiterWakes
  CloseCompletes
