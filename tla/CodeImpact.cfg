CONSTANTS
    Id = {1, 2, 3, 4, 5}
    Graphs <- MCGraphs
    RRF_K = 60
    TopN = 2
    MaxRank = 2
    MaxDown = 2
    MaxUp = 1
    MaxNodes = 2
    MaxChanges = 1
SPECIFICATION Spec
INVARIANTS
    AnswerIsClosed
    AnswerIsNeighbourhood
PROPERTIES
    FoundByBothComesFirst
CHECK_DEADLOCK FALSE
