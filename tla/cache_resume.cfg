\* Two processes, two files, and two versions of different length.
CONSTANTS
    Process = {"p1", "p2"}
    Files = 2
    Size <- MCSize
    Published <- MCPublished
    Hole = Hole
    MaxFaults = 2
    MaxMoves = 1
SPECIFICATION FairSpec
INVARIANTS TypeOK ResumeIsExact ChunksStayInPlace
PROPERTY Completes
CHECK_DEADLOCK FALSE
