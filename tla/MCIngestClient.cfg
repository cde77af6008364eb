CONSTANTS
    Invocation = {i1, i2}
    Request = {r1, r2}
    Raw = {ma, mb}
    Configured = TRUE
SPECIFICATION Spec
INVARIANTS
    TypeOK
    NoSilentLoss
    
PROPERTY IngestSettles
CHECK_DEADLOCK FALSE
