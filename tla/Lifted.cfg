SPECIFICATION LiftedSpec
CONSTANTS
    Threads = {"t1", "t2"}
    MaxAtoms = 2
    MaxPanics = 1
    Nodes = {0, 1, 2, 3, 4}
    Root = 0
    Keys = {0, 1, 2, 3, 4}
    Graphs <- LiftedGraphs
    KeyFns <- LiftedKeys
CHECK_DEADLOCK FALSE
INVARIANTS
    TypeOK
    MemoHonest
    LiftLaws
    RoutesAgree
    PreludeFoldsAgree
PROPERTY RunsFinish
