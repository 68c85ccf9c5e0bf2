\* A call returns: its end is no deadlock.
CHECK_DEADLOCK FALSE
SPECIFICATION Spec
CONSTANTS Questions <- MCQuestions
INVARIANTS
    NoMatchLost
    TurnsBounded
    ClassesMeanWhatTheyList
