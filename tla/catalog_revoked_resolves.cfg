SPECIFICATION ReleaseSpec
CONSTANTS
    Ref = {r1}
    Pack = {p1}
    Change = {q1}
    User = {ann, bob}
    Overseers = {ann, bob}
    NoUser = NoUser
    MaxTries = 1
    Publisher = {w1}
    NoManifest = NoManifest
    MaxManifests = 1
    MaxSigned = 1
INVARIANT RevokedRefIsRefused
CHECK_DEADLOCK FALSE
