SPECIFICATION Spec
CONSTANTS
    MaxMessages = 2
    MaxMarks = 2
    None = None
INVARIANTS
    OnlyRacesHideUnread
    OnlyRacesOutdatePreview
CHECK_DEADLOCK FALSE
