SPECIFICATION TokenSpec
CHECK_DEADLOCK FALSE
CONSTANTS
    Requests = {r1, r2}
    Users = {"ann"}
    Families = {f1}
    Tokens = {t1, t2, t3}
    Apps = {"web", "kiosk"}
    Flags <- SavedFlags
    MaxTime = 2
    TTL = 1
    NoApp = NoApp
    NoToken = NoToken
    NoFamily = NoFamily
    NoUser = NoUser
SYMMETRY Symmetric
INVARIANTS
    OneLiveTokenPerFamily
    RevocationReachesFamily
    ReplacedTokenHasHolder
    ReuseIsRevoked
    AccessTokenKeepsApp
