SPECIFICATION Spec
\* The system rests when all the accounts and replays of the small sets exist.
CHECK_DEADLOCK FALSE
CONSTANTS
    Scripts = {s1, s2}
    Workers = {w1, w2}
    AdminUsername = admin
    AdminEmail = admin_email
    n1 = n1
    n2 = n2
    e1 = e1
    e2 = e2
    Forms <- MCForms
    Nobody = Nobody
    ReplayIds = {id1}
    NoReplay = NoReplay
    MaxActive = 2
INVARIANTS
    TypeOK
    MigrationClosed
    SeedWhole
    SeededOnce
    AccountsWhole
    RolesGranted
    ActorsLoggedIn
    ReplayAudited
    StatusTellsHandover
PROPERTIES
    RefinesDirectory
    QueuedIsSent
    OperationsEnd
