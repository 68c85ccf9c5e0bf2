\* What ttlMs answers when the deadline passes between its two clock readings.
CONSTANTS
    k1 = k1
    k2 = k2
    k3 = k3
    w1 = w1
    w2 = w2
    Key <- OneKey
    Word = {}
    Size <- EqualSize
    LLongMax = 3
    SecondMs = 2
    Texts <- OneText
    Deltas = {}
    Deadlines = {1, 2}
    Seconds = {}
    Indexes = {}
    Limits = {}
    SamplesPerLoop = 1
    MaxArgs = 1
    MaxLen = 1
    MaxTime = 2
SPECIFICATION Spec
INVARIANT TtlMinusOneMeansNoExpiry
