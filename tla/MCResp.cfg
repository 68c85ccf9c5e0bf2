\* Peers may stop sending: the end of a stream is no deadlock.
CHECK_DEADLOCK FALSE
SPECIFICATION Spec
CONSTANTS
    MaxArguments = 3
    MaxBulkSize = 4
    MaxInlineSize = 12
    Streams <- MCStreams
INVARIANTS
    SplitIndependent
    Intention
    RepairedFileGrows
    RepliesReadBack
