CONSTANTS
    Invocation = {i1, i2}
    Raw = {m1}
    Request = {r1}
    Configured = TRUE
    NoID = NoID
    MessageID <- MCMessageID
    Chats = 1
    TelegramOn = TRUE
    TTL = 1
    MaxTime = 1
    MaxTrouble = 1
SPECIFICATION Spec
PROPERTY IngestFailureBounces
CHECK_DEADLOCK FALSE
