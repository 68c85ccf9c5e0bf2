\* A key amended before its first deadline, restarted after it.
CONSTANTS
    k1 = k1
    k2 = k2
    w1 = w1
    Key <- TwoKeys
    Word = {w1}
    Size <- MCSize
    LLongMax = 9
    SecondMs = 2
    MaxReadings = 4
    Sessions <- TtlSessions
SPECIFICATION Spec
INVARIANT RestartKeepsTtl
