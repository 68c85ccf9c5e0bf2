\* A failed fsync, without any crash.
CONSTANTS
    Units = 1
    MaxCommands = 2
    MaxCrashes = 0
SPECIFICATION FairSpec
PROPERTIES FileReachesDisk
