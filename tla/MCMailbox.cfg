CONSTANTS
    Request = {r1}
    Token = {t1, t2}
    Spelling <- MCSpelling
    Canonical <- MCCanonical
    Weight <- MCWeight
    Message = {1, 2, 3}
    Header <- MCHeader
    Files <- MCFiles
    Malformed = {3}
    Query = {"", "x"}
    Usable = {"x"}
    Matching <- MCMatching
    Job <- MCJob
    PSK = {"admin", "normal"}
    Credential <- MCCredential
    TTL = 1
    DefaultPerPage = 2
    MaxPerPage = 4
    IntMax = 7
    MaxTime = 2
SYMMETRY Symmetry
SPECIFICATION Spec
INVARIANTS
    TypeOK
    RefusedExactlyWhenEnded
    
    AnswerIsWhole
    ShortPageIsLast
    NothingSkipped
