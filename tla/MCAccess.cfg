SPECIFICATION MCAccessSpec
CHECK_DEADLOCK FALSE
CONSTANTS
    Users = {"ann"}
    Roles = {"keepers"}
    Perms <- TwoCodes
    Resources = {"system_role", "facility_room"}
    ResourceOf <- ResourceOfCode
    VerbOf <- VerbOfCode
    UsableVerbs <- VerbSets
    Tasks = {t1, t2}
    Flags <- SavedFlags
    FirstGrants <- OneGrant
    Moved = {"system_role"}
    MaxEdits = 2
    NoUser = NoUser
    NoRole = NoRole
    NoResource = NoResource
INVARIANTS
    AdmittedOnHeldCode
    EditIsExact
    RebindingTakesEffect
PROPERTIES
    WithdrawnLeavesCache
