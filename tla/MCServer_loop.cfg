\* Two peers, pipelined requests, failing writes, one descriptor or two.
CONSTANTS
    c1 = c1
    c2 = c2
    Connection <- TwoConnections
    Scenarios <- LoopScenarios
    SendBuffer = 1
    ReadChunkSize = 2
    MaxReadsPerEvent = 2
    MaxQueryBuffer = 4
    OutputHighWatermark = 2
    MaxCommands = 3
SPECIFICATION FairSpec
INVARIANTS TypeOK RepliesInOrder AcknowledgedIsKept SleepsWithAllWritten OutputBounded
PROPERTIES HangsUpOnlyWhenDone PeersAreServed ShutdownObeyed
