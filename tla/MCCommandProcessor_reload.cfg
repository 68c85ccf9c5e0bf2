\* A log that the server wrote and cannot load.
CONSTANTS
    k1 = k1
    k2 = k2
    w1 = w1
    Key <- TwoKeys
    Word = {w1}
    Size <- MCSize
    LLongMax = 9
    SecondMs = 2
    MaxReadings = 4
    Sessions <- TtlSessions
SPECIFICATION Spec
INVARIANT LogLoads
