SPECIFICATION PresenceSpec
CONSTANTS
    Tabs = {t1}
    Jobs = {j1, j2}
    Sweepers = {w1}
INVARIANTS
    NobodyForgotten
PROPERTIES
    OnlyCollisionsStickStatus
