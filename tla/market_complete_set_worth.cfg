SPECIFICATION Spec
CONSTANTS
    alice = alice
    bob = bob
    Users <- JustAlice
    Market = market
    Mailbox = mailbox
    Oracle = alice
    Creator = alice
    InitialCash <- SixForAlice
    Amounts = {1, 2}
    Gifts = {}
    Approvals = {6}
    MaxUint = 6
    numOutcomes = 2
    numTicks = 3
    feeDivisor = 2
    endTime = 1
    controlledTime = FALSE
    MaxTime = 3
INVARIANTS
    CompleteSetWorthOne
CHECK_DEADLOCK FALSE
