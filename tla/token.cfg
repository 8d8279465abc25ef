SPECIFICATION Spec
CONSTANTS
    alice = alice
    bob = bob
    Holders <- MCHolders
    InitialEther <- TwoEach
    Amounts = {1, 2}
    MaxUint = 3
    MaxGrants = 2
    MaxFaucet = 2
SYMMETRY Symmetric
INVARIANTS
    TokenInv
    HonouredWhileUntapped
PROPERTIES
    EtherLeavesForTokens
CHECK_DEADLOCK FALSE
