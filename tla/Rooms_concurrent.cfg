SPECIFICATION Spec
CONSTANTS
    Users = {u1, u2, u3}
    Handlers = {h1, h2}
    BanIds = {b1}
    NoUser = NoUser
    NoBan = NoBan
SYMMETRY Symmetry
INVARIANTS
    TypeOK
    OwnerIsCreator
    OwnerUnremovable
    NoRowsWithoutRoom
PROPERTIES
    OwnerLosesRoleOnlyByItself
    AdminOnlyByCreator
    OnlyRacesAdmitBanned
