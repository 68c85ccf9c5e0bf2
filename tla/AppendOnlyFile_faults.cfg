\* Partial writes, failures, crashes and power failures.
CONSTANTS
    Units = 3
    MaxCommands = 4
    MaxCrashes = 2
SPECIFICATION FairSpec
INVARIANTS TypeOK NothingLostOrRepeated UnhealthyHasPending FileIsWellFormed
PROPERTIES SyncedCommandsSurvive HealthReturns
