SPECIFICATION Spec
CONSTANTS
    st = st
    a = a
    b = b
    c = c
    en = en
    NoNode = NoNode
    Node <- MCNode
    Flows <- ErrorEdgeFlows
    Verdicts = {"hit"}
    Tries = {1}
    MaxTurns = 5
INVARIANT
    CompletedTookPath
CHECK_DEADLOCK FALSE
