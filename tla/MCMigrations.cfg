CONSTANTS
    Server = {s1, s2}
    Operator = {op}
    MaxKills = 1
    MaxRollbacks = 2
SPECIFICATION FairSpec
INVARIANTS
    TypeOK
    MailboxReady
    VersionsInOrder
    SchemaFollowsVersion
PROPERTY ConcurrentStartupCompletes
