SPECIFICATION FairSpec
CONSTANTS
    N = 2
    Key = {"", "a", "b", "c"}
    NodeRows <- TwoNodes
    Queries <- AllQueries
    Budget = 2
    MaxFaults = 2
    From = 0
    To = 11
    TimeOffset = 0
    Second = 1
INVARIANTS
    QueryInv
    AnswerIsTrue
    OutputIsPartOfAnswer
PROPERTIES
    QueryEnds
CHECK_DEADLOCK FALSE
