SPECIFICATION Spec
CONSTANTS
    Sessions = {s1, s2}
    Names = {ues, n1, n2}
    Versions = {v1}
    NoVersion = NoVersion
    Ues = ues
    UesVersion = v1
    Serial = FALSE
    MaxId = 10
SYMMETRY Symmetry
INVARIANTS
    TypeOK
    DuplicatesBounded
    CreationsAudited
