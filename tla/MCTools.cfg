SPECIFICATION SumSpec
CONSTANTS
  Answers <- MCAnswers
  Setups <- MCSetups
  Exprs <- MCExprs
  Depth <- MCDepth
  Conditions <- MCConditions
  Sides <- MCSides
  Inputs <- MCInputs
  Fields <- MCFields
  Bound <- MCBound
  PathBound <- MCBound
  Domain <- MCDomain
  Tools <- MCTools
  Stages <- MCStages
  Catalog <- MCCatalog
  MaxTools = 3
  r1 = r1
  r2 = r2
  Runs <- MCRuns
  MaxCalls = 2
  MaxLines = 3
INVARIANTS
  AnswerArrivesWhole
  RetriesHaveCause
  CallsAnsweredById
  VerdictsAreSound
  BindingIsSound
  ResultsStand
PROPERTY
  EndsOrHeld
CHECK_DEADLOCK FALSE
