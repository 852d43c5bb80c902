SPECIFICATION Spec
CONSTANTS
    Sessions = {s1, s2}
    Names = {ues, n1}
    Versions = {v1}
    NoVersion = NoVersion
    Ues = ues
    UesVersion = v1
    Serial = FALSE
    MaxId = 6
INVARIANTS NameServed
