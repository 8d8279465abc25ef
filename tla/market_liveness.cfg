SPECIFICATION FairSpec
CONSTANTS
    alice = alice
    bob = bob
    Users <- MCUsers
    Market = market
    Mailbox = mailbox
    Oracle = alice
    Creator = bob
    InitialCash <- ThreeForAlice
    Amounts = {1}
    Gifts = {}
    Approvals = {3}
    MaxUint = 3
    numOutcomes = 2
    numTicks = 3
    feeDivisor = 2
    endTime = 1
    controlledTime = FALSE
    MaxTime = 3
INVARIANTS
    ClaimSucceedsLikeLoop
PROPERTIES
    BurntSharesArePaid
    ClaimEndsLikeLoop
    HoldersAreSettled
CHECK_DEADLOCK FALSE
