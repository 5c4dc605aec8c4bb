SPECIFICATION ChannelsSpec
CONSTANTS
    Users = {u1, u2}
    Handlers = {h1, h2}
    Sockets = {s1}
    BanIds = {}
    NoUser = NoUser
    NoBan = NoBan
SYMMETRY Symmetry
INVARIANTS
    MembersHearRoom
