SPECIFICATION Spec
CONSTANTS
    Users = {u1, u2}
    Owner = u1
    Handlers = {h1, h2, h3}
    Ids = {i1}
    MsgIds = {m1, m2}
    None = None
SYMMETRY Symmetry
INVARIANTS
    MessagesShowOwnFile
    StoredFilesExist
    OnlyLateUploadsOutliveRoom
CHECK_DEADLOCK FALSE
