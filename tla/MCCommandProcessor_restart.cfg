\* Three sessions with restarts in between: deadlines, evictions, types of values.
CONSTANTS
    k1 = k1
    k2 = k2
    w1 = w1
    Key <- TwoKeys
    Word = {w1}
    Size <- MCSize
    LLongMax = 9
    SecondMs = 2
    MaxReadings = 4
    Sessions <- MCSessions
SPECIFICATION Spec
INVARIANTS TypeOK NumbersFit RestartFaithful
