SPECIFICATION MCSpec
CONSTANTS
    c1 = c1
    c2 = c2
    mid = mid
    eff = eff
    v1 = v1
    v2 = v2
    Ref = {r1, r2}
    Pack = {p1}
    Change = {q1}
    User = {ann, bob}
    Overseers = {ann, bob}
    NoUser = NoUser
    MaxTries = 2
    Publisher = {w1, w2}
    NoManifest = NoManifest
    MaxManifests = 2
    MaxSigned = 2
    Object = {o1}
    Hash = {h1, h2}
    Handler = {s1, s2}
    NoRef = NoRef
    MaxChanges = 2
    Fixture <- MCFixture
    Importer = {m1, m2}
    Changed = Changed
    Snapshot = {x1, x2}
    Config = {g1}
    Compiler = {t1, t2}
    NoInput = NoInput
    Factor = {c1, c2, mid, eff}
    Goal = eff
    Cause = {c1, c2}
    Needed = {eff}
    Graphs <- AllGraphs
    MaxDepth = 2
    Related = {c1}
    Observed <- MCObserved
    Entity = {y1, y2}
    i1 = i1
    i2 = i2
    y1 = y1
    Site = site
    Order <- MCOrder
    Providers <- MCProviders
    Rows <- MCRows
    Prepared = {i1, i2}
    Worker = {v1, v2}
    NoContext = NoContext
SYMMETRY Alike
INVARIANTS
    ReleasedAsApproved
    FollowsSource
    CompiledAsRecorded
    TraceExplainsItself
    DiagnosedAsDeclared
PROPERTY
    NeverRewritten
CHECK_DEADLOCK FALSE
