SPECIFICATION Spec
CONSTANTS
    Run = {r1}
    Cases = 3
    Worker = {w1, w2}
    NoWorker = NoWorker
    Retries = 2
INVARIANTS
    StopsPromptly
    CompletedIsComplete
    RepeatsNeedRetries
PROPERTY
    RestartsRecover
CHECK_DEADLOCK FALSE
