SPECIFICATION Spec
CONSTANTS
    Handlers = {h1, h2}
    SessionIds = {s1, s2, s3}
    ResetIds = {r1}
    Passwords = {p1, p2, p3}
    None = None
SYMMETRY Symmetry
INVARIANTS
    TypeOK
    OneTokenPerLogin
PROPERTIES
    LoginsStayClosed
    OnlyRacesKeepOldSessions
    OnlyRacesKeepDeletedSessions
    ResetSingleUse
