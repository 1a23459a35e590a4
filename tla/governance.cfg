SPECIFICATION MCSpec
CONSTANTS
    ann = ann
    root = root
    Actor <- MCActor
    Admins <- MCAdmins
    Writers <- MCActor
    Checkers <- MCActor
    Builders <- MCActor
    Content = {"empty", "good"}
    ValidContent = {"good"}
    EmptyContent = "empty"
    CatalogState = {"h1", "retired"}
    Retired = "retired"
    NoActor = NoActor
    NoContent = NoContent
    MaxVersions = 2
    MaxRevision = 5
    MaxAttempts = 2
    MaxPins = 2
    n1 = n1
    n2 = n2
    n3 = n3
    e1 = e1
    e2 = e2
    Node = {n1, n2, n3}
    Edge = {e1, e2}
    Rule = {"r1"}
    Target = n1
    NodeShape <- MCNodeShape
    NoNode = NoNode
    NoEdge = NoEdge
    Command <- MCCommand
    Kind <- MCKind
    KeyOf <- MCKeyOf
    Request = {t1, t2}
    NoCommand = NoCommand
    MaxSends = 4
    Domain = {d1, d2}
    TypeChange = {q1, q2}
    q2 = q2
    cid = cid
    Steward = {ann, bob, cid}
    Instance = {i1}
    Author = {a1}
    NoDomain = NoDomain
INVARIANTS
    ModelsAreGoverned
    DraftIsSound
    OneEffectPerKey
    TypesAreGoverned
PROPERTIES
    LastKnownGoodServes
    NoLostUpdate
CHECK_DEADLOCK FALSE
