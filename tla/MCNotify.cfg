CONSTANTS
    Invocation = {i1, i2}
    Raw <- MCRaw
    NoID = "none"
    MessageID <- MCMessageID
    Chats = 2
    TelegramOn = TRUE
    TTL = 2
    MaxTime = 4
    MaxTrouble = 2
SYMMETRY Symmetry
SPECIFICATION Spec
INVARIANTS
    TypeOK
    MarkerMeansTold
    AnnouncedPreviewExists
PROPERTY NoRepeatWhilePreviewLives
CHECK_DEADLOCK FALSE
