SPECIFICATION FairSpec
CONSTANTS
    c1 = c1
    c2 = c2
    Child <- MCChild
    Main = main
    MaxTurns = 2
    Budget = 2
INVARIANTS
    TypeOK
    ChildrenWithinRun
    NotesTrue
    VerdictAtEnd
PROPERTIES
    VerdictFinal
    RunEnds
    ChildrenTell
CHECK_DEADLOCK FALSE
