SPECIFICATION StageFairSpec
CONSTANTS
  MaxRetries = 2
  MaxRounds = 2
  MaxCalls = 2
  MaxDeltas = 1
  MaxRequired = 1
INVARIANTS
  ToolCallsAnswered
  RecordsAccounted
  BudgetsBound
PROPERTIES
  StageEnds
