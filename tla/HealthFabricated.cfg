SPECIFICATION Spec
CONSTANTS
    pg = pg
    m1 = m1
    os = os
    Requests = {r1}
    Others = {}
    Services = {os, pg}
    KindOf <- MCKindOf
    Off = {}
    Answers <- MCAnswers
    PoolSize = 2
    AsyncClient = TRUE
PROPERTIES
    NeverFabricated
