SPECIFICATION Spec
CONSTANTS
    Users = {alice, bob}
    Deployer = alice
    UniverseNames = {"UniverseFactory"}
    MarketNames = {"CompleteSets"}
    TradingNames = {"CompleteSets"}
    Codes = {c1, c2}
    Universes = {u1, u2}
    Markets = {m1, m2}
    Tokens = {t1, t2}
    Claims = {{}, {m1, m2}}
    None = None
SYMMETRY ProtocolSymmetry
INVARIANTS
    ProtocolInv
    OwnerCanStop
PROPERTIES
    LegitMarketsStay
    StopEndsCreation
CHECK_DEADLOCK FALSE
