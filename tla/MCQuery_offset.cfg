SPECIFICATION Spec
CONSTANTS
    N = 2
    Key = {"", "a", "b", "c"}
    NodeRows <- TwoNodes
    Queries <- SortOffsetQueries
    Budget = 2
    MaxFaults = 0
    From = 0
    To = 11
    TimeOffset = 0
    Second = 1
INVARIANT
    AnswerIsTrue
CHECK_DEADLOCK FALSE
