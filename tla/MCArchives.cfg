SPECIFICATION SumSpec
CONSTANTS
  Traces = {t1, t2}
  Passphrases = {p, q}
  Ledgers <- MCLedgers
  Captures <- MCCaptures
  MaxWrites = 3
  Contents <- MCContents
  OptionSets <- MCOptions
  Flagged <- MCFlagged
  MaxChanges = 2
  Archives <- MCArchives
  Names = {m, n}
  Anything = Anything
  MaxRevisions = 2
  MaxRewrites = 1
SYMMETRY MCSymmetry
INVARIANTS
  FilesInOrder
  AcceptsSealed
  PassMeansIntact
  UnlockIsSound
  PublishedWasReviewed
  NothingUnfitIsWritten
  CitedIsVerified
CHECK_DEADLOCK FALSE
