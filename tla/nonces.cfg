SPECIFICATION FairSpec
CONSTANTS
    Calls = {c1, c2, c3}
    FirstNonce = 5
    None = None
INVARIANTS
    NonceInv
    NoncesContiguous
PROPERTIES
    CallsSettle
CHECK_DEADLOCK FALSE
