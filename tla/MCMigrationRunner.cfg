SPECIFICATION FairSpec
CONSTANTS
  core = core
  extra = extra
  edited = edited
  Runner = {r1, r2}
  Release <- Releases
  Missing = Missing
  MaxRuns = 4
  MaxFaults = 2
INVARIANTS MigrationTypeOK LedgerIsTruth AppliedIsCurrent
PROPERTIES HistorySpec EveryRunEnds
CHECK_DEADLOCK FALSE
