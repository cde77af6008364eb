CONSTANTS
    Server = {s1, s2}
    Operator = {}
    MaxKills = 1
    MaxRollbacks = 0
SPECIFICATION FairSpec
PROPERTY StartupCompletes
