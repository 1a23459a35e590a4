SPECIFICATION MCSpec
CONSTANTS
    st = st
    a = a
    b = b
    c = c
    en = en
    NoNode = NoNode
    Node <- MCNode
    Flows <- AllFlows
    Verdicts = {"hit", "miss", "null"}
    Tries = {0, 1, 9}
    MaxTurns = 4
    LastTypes = {"end", "answer"}
    Graphs <- MCGraphs
INVARIANTS
    SequenceExact
    GateIsCut
    GatesFollowPath
    TypeOK
    CommandsApproved
    TurnsCompensate
    WholeRunsTakePath
PROPERTIES
    WaitingResolves
    ImplementsRunLifecycle
CHECK_DEADLOCK FALSE
