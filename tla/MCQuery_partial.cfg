SPECIFICATION Spec
CONSTANTS
    N = 2
    Key = {"", "a", "b", "c"}
    NodeRows <- TwoNodes
    Queries <- AllQueries
    Budget = 2
    MaxFaults = 1
    From = 0
    To = 11
    TimeOffset = 0
    Second = 1
INVARIANT
    PartialAnswerIsTrue
CHECK_DEADLOCK FALSE
