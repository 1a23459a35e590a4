SPECIFICATION MCSpec
CONSTANTS
    t1 = t1
    t2 = t2
    t3 = t3
    b1 = b1
    b2 = b2
    h1 = h1
    Document = {t1, t2, t3}
    Base = {b1, b2}
    BaseOf <- MCBaseOf
    Text <- MCText
    Domain = {n1, n2}
    Indexer = {j1, j2}
    Searcher = {s1}
    Batch = {1, 2, 3}
    NoDomain = NoDomain
    NoBase = NoBase
    NoDocument = NoDocument
    Turn = {1, 2, 3, 4}
    Pairs = 1
    NoTurn = 0
    App = {a1}
    Graph = {g1}
    Category = {c1, c2}
    Default = {c1}
    Key = {k1}
    Editor = {e1, e2}
    Caller = {s1}
    NoGraph = NoGraph
    NoCategory = NoCategory
    NoApp = NoApp
    p1 = p1
    cp1 = cp1
    cp2 = cp2
    Capability = {cp1, cp2}
    Permission = {p1, p2}
    Adapter = {"none", "tool.fetch"}
    Guess <- MCGuess
    Rule = cp1
    StepRun = {x1}
    Admin = {r1}
    Planner = {l1, l2}
    Event = {o1, o2, o3}
    MaxStream = 2
    Count = 2
    MaxAttempts = 2
INVARIANTS
    TranscriptIsTrue
    AppsAsPublished
    CapabilitiesAreGoverned
    AuditedOnce
PROPERTY
    KnowledgeIsKept
CHECK_DEADLOCK FALSE
