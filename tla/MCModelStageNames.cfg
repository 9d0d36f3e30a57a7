SPECIFICATION StageFairSpec
CONSTANTS
  MaxRetries = 1
  MaxRounds = 1
  MaxCalls = 1
  MaxDeltas = 0
  MaxRequired = 0
INVARIANTS
  CompletedNamesAttempt
