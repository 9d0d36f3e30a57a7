SPECIFICATION FairSpec
CONSTANTS
  Stages <- MCStages
  Entry = "Draft"
  Exits <- MCExits
  Transitions <- MCTransitions
  Requires <- MCRequires
  Writes <- MCWrites
  MaxSteps = 4
  EventLimit = 3
INVARIANTS
  ArchiveTellsTheRun
  RunFollowsManifest
PROPERTIES
  NothingTakenBack
  Terminates
  KeepsLifecycle
