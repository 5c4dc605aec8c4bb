SPECIFICATION Spec
CONSTANTS
    Chats = {c1, c2}
    Files = {f1, f2, f3}
    None = None
SYMMETRY Symmetry
INVARIANTS
    ClearedStaysCleared
    LockedOnlyByUpload
    OnlyMovesLoseMessages
