SPECIFICATION Spec
CONSTANTS
    Anchors = {1, 2}
    Losses = 1
    Crashes = 1
    Bad = 2
    Tuned = {1}
    Values = {1, 2}
    Calls = 3
    Blinks = 1
    Halvings = 2
INVARIANTS
    AnswerIsCurrent NothingLeft BlinksAccepted
PROPERTIES
    MainReturns ReceiverLives
CHECK_DEADLOCK FALSE
