SPECIFICATION GateFairSpec
CONSTANTS
  Caps <- MCCaps
  Confirm = "confirm"
  StageRequires <- MCStageRequires
  Policies <- MCPolicies
  MaxCalls = 2
  TapeLength = 1
INVARIANTS
  GateHolds
  AskedOnlyIfAllowed
  EveryStartHasItsEnd
  EvidenceAgrees
PROPERTIES
  Answers
