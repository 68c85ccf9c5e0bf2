\* Containers under interleaved commands, expiry and eviction; the loops return
\* and dead keys are reclaimed.  Three keys.
CONSTANTS
    k1 = k1
    k2 = k2
    k3 = k3
    w1 = w1
    w2 = w2
    Key <- ThreeKeys
    Word = {}
    Size <- EqualSize
    LLongMax = 3
    SecondMs = 2
    Texts <- OneText
    Deltas = {}
    Deadlines = {1, 2}
    Seconds = {}
    Indexes = {}
    Limits = {0, 150}
    SamplesPerLoop = 2
    MaxArgs = 1
    MaxLen = 1
    MaxTime = 2
SPECIFICATION FairSpec
INVARIANTS TypeOK IndexesConsistent MemoryExact
PROPERTIES RecencyOrder EvictionMakesRoom ImplementsKeyspace ExpiryRemovesOnlyDead LoopsReturn DeadKeysReclaimed
