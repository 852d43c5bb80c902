SPECIFICATION Spec
CONSTANTS
    pg = pg
    m1 = m1
    os = os
    Requests = {r1, r2}
    Others = {o1}
    Services = {pg, m1}
    KindOf <- MCKindOf
    Off = {}
    Answers <- MCAnswers
    PoolSize = 2
    AsyncClient = TRUE
INVARIANTS
    TypeOK
    PoolAccounted
PROPERTIES
    NeverFabricated
    Answered
    GaugeSettles
