CONSTANTS
  Source = "stripe"
  Records = {1, 2}
  Stamp <- MCSameSecond
  Object <- MCSameObject
  Lag <- MCLag
  Overlap = 1
  First = 3
  CatchUp = 3
  Backfill = 4
  Lookbacks = {1}
  MaxLookbacks = 1
  Second = 0
  MaxItems = 2
  MaxAttempts = 2
  MaxMisses = 2
  MaxClock = 4
  Operations = {1, 2}
SPECIFICATION Spec
INVARIANT NewestSnapshotWins
