CONSTANTS
    Message = {m1, m2}
    Missing = {m2}
    Query <- MCQuery
    Empty = ""
    Pages <- MCPages
    MaxRequests = 3
    NoTimer = NoTimer
    NoMailbox = NoMailbox
SPECIFICATION FairSpec
INVARIANTS
    TypeOK
    SignOutForgets
    ListMatchesQuery
PROPERTIES
    LatestListWins
    LoadingEnds
    LogoutSettles
