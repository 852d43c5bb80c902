SPECIFICATION Spec
CONSTANTS
    src = src
    pol = pol
    Assets = {src, pol}
    KindOf <- MCKindOf
    Sessions = {s1, s2}
    Values = {v1, v2}
    NoValue = NoValue
    MaxRequests = 3
SYMMETRY Symmetry
INVARIANTS
    TypeOK
    ContentRecorded
    ExistenceAudited
PROPERTIES
    RefinesStore
