SPECIFICATION ClientSpec
CONSTANTS
    MaxRequests = 1
    MaxTraffic = 2
    Uses <- PanesApart
    Asked = Asked
    Failed = Failed
    Nothing = Nothing
INVARIANTS
    OnlyUntoldChangesStale
    OnlyStaleOffersRefused
