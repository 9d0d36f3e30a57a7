SPECIFICATION SumSpec
CONSTANTS
  MaxPasses = 2
  MaxEntries = 4
  MaxWarnings = 1
  Outputs <- MCOutputs
  Results <- MCResults
  Messages <- MCMessages
  ToolUses <- MCToolUses
  StageTexts = {"plain", "secret"}
  MaxEvents = 4
  MaxNotes = 1
  Files <- MCFiles
  Where <- MCWhere
  MaxWritten = 4
INVARIANTS
  LedgerIsClean
  FixturesKeepTheRest
  HookAccounted
  BlockedHasCause
  RefsIdentify
CHECK_DEADLOCK FALSE
