\* Every type of value, dead or alive, two keys, words of different length.
CONSTANTS
    k1 = k1
    k2 = k2
    k3 = k3
    w1 = w1
    w2 = w2
    Key <- TwoKeys
    Word = {w1, w2}
    Size <- WordSize
    LLongMax = 3
    SecondMs = 2
    Texts <- FewTexts
    Deltas <- NegativeDelta
    Deadlines = {1}
    Seconds = {0}
    Indexes = {0}
    Limits = {}
    SamplesPerLoop = 1
    MaxArgs = 2
    MaxLen = 2
    MaxTime = 1
SPECIFICATION Spec
SYMMETRY KeySymmetry
INVARIANTS MemoryExact NoEmptyAggregate ExpiredInvisible
PROPERTIES ImplementsKeyspace RecencyOrder
