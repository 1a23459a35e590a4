SPECIFICATION Spec
CONSTANTS
    st = st
    a = a
    b = b
    c = c
    en = en
    NoNode = NoNode
    Node <- MCNode
    Flows <- OneSaga
    Verdicts = {"hit"}
    Tries = {1}
    MaxTurns = 2
INVARIANT
    FailureCompensates
CHECK_DEADLOCK FALSE
