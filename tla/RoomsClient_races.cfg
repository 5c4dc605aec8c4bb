SPECIFICATION Spec
CONSTANTS
    MaxBans = 1
    MaxChanges = 2
    MaxTraffic = 2
    Uses <- MCUses
    Asked = Asked
    Refused = Refused
    None = None
INVARIANTS
    OnlyUntoldChangesStale
    OnlyStaleOffersRefused
