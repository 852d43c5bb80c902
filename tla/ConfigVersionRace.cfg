SPECIFICATION Spec
CONSTANTS
    Sessions = {s1, s2}
    Readers = {}
    Keys = {"parsers"}
    KeyOrder <- MCOneKey
    Serial = FALSE
    KafkaEnabled = TRUE
    LateWrites = FALSE
    MaxContent <- MCMaxContent
    MaxTime = 3
PROPERTIES VersionMonotonic
