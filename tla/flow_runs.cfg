SPECIFICATION Spec
CONSTANTS
    Request = {m1, m2, m3}
    NoRun = NoRun
    Outcome = {"waiting_human", "completed", "failed", "rejected", "rolled_back"}
    Overlap = {"requests", "scheduler"}
    Crashes = TRUE
INVARIANTS
    SerialConversation
    RepliesPay
PROPERTIES
    FinishedIsFinal
    WaitingEnds
CHECK_DEADLOCK FALSE
