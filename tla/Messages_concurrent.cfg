SPECIFICATION Spec
CONSTANTS
    Users = {u1, u2}
    Owner = u1
    Handlers = {h1, h2}
    Ids = {m1}
    Texts = {t1, t2}
    Reacting = {u2}
    None = None
SYMMETRY Symmetry
INVARIANTS
    ReactionsCountToggles
    OnlyRacesMisleadClients
PROPERTIES
    OnlyRacesRevive
    DeletedIsFrozen
CHECK_DEADLOCK FALSE
