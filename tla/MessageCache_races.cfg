SPECIFICATION PagesSpec
CONSTANTS
    MaxMessages = 6
    MaxSends = 2
    PageSize = 2
    Nothing = Nothing
INVARIANTS
    OnlyRacesMuddleList
    OlderReachable
CHECK_DEADLOCK FALSE
