SPECIFICATION Spec
CONSTANTS
    Request = {m1, m2, m3}
    NoRun = NoRun
    Outcome = {"waiting_human", "completed", "failed", "rejected"}
    Overlap = {"requests"}
    Crashes = FALSE
INVARIANT
    OncePerSuspension
CHECK_DEADLOCK FALSE
