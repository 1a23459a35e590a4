SPECIFICATION MCSpec
CONSTANTS
    RowCode = {b1, b2}
    SyncWorker = {w1, w2}
    Incremental = FALSE
    BatchSize = 2
    NoRow = NoRow
    MaxTime = 2
    MaxJobs = 2
    x1 = x1
    x2 = x2
    Entry = {x1, x2}
    Statement = {f1}
    Ends <- MCEnds
    Editor = {e1, e2}
    ProfileReader = {p1}
    NoProfile = NoProfile
    MaxClock = 4
    Package = {k1, k2, k3}
    ValidPackage = {k1, k2}
    Uploader = {u1, u2}
    PublishRequest = {g1, g2}
    Acquirer = {o1}
    NoPackage = NoPackage
    m1 = m1
    s1 = s1
    r1 = r1
    a2 = a2
    Entity = {m1, s1}
    NoEntity = NoEntity
    TypeOf <- MCTypeOf
    RelationType = {r1}
    Sources <- MCSources
    Question <- MCQuestion
    Answer <- MCAnswer
    NoAnswer = NoAnswer
    Asker = {a1, a2}
    Threshold = 700
    MaxCached = 1
    Leads <- MCLeads
    Alike <- MCAlike
    QueryTypes = {"shearer"}
    HitsPerLayer = 5
    mine = mine
    shearer = shearer
    kpi = kpi
    c1 = c1
    c2 = c2
    ObjectType = {mine, shearer}
    OtherType = {kpi}
    Code = {c1, c2}
    File <- MCFile
    RelationEdit = {q1}
    Reviewer = {v1}
    Importer = {i1}
    NoType = NoType
    NoFacts = NoFacts
    NoRequest = NoRequest
INVARIANTS
    SyncIsFaithful
    FreshIsTrue
    PinnedIsServedWhole
    FactsAreGoverned
    AnswersAreGrounded
    EvidenceIsRanked
CHECK_DEADLOCK FALSE
