\* A write that is acknowledged although the file refused it.
CONSTANTS
    c1 = c1
    c2 = c2
    Connection <- TwoConnections
    Scenarios <- LoopScenarios
    SendBuffer = 1
    ReadChunkSize = 2
    MaxReadsPerEvent = 2
    MaxQueryBuffer = 4
    OutputHighWatermark = 2
    MaxCommands = 3
SPECIFICATION Spec
INVARIANT RepliesAfterWrites
