SPECIFICATION Spec
CONSTANTS
    Parsers = {p1}
    Requests = {r1, r2}
    admin = admin
    dev = dev
    Users = {admin, dev}
    Superusers = {admin}
    HeldRoles <- MCHeldRoles
    SeedAdmin = admin
    Versions = {v1, v2}
    NoUser = NoUser
    NoVersion = NoVersion
    Serial = FALSE
    MaxStamp = 4
INVARIANTS
    TypeOK
    ApprovalRecorded
    HistoryEndsAtStatus
    RegisteredOnce
PROPERTIES
    StatusChangesAudited
    UpdateKeepsLifecycle
    RequestsEnd
