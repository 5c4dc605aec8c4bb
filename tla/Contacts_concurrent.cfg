SPECIFICATION Spec
CONSTANTS
    Pair = {ann, bob}
    Handlers = {h1, h2}
    RequestIds = {r1, r2, r3}
    ThreadIds = {t1, t2}
    None = None
SYMMETRY Symmetry
INVARIANTS
    TypeOK
    MessagesDieWithThread
PROPERTIES
    FriendshipTakesRequest
    OnlyRacesConfuseRequests
    OnlyRacesOpenThreads
