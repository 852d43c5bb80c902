SPECIFICATION Spec
CONSTANTS
    Sessions = {s1, s2}
    Readers = {}
    Keys = {"parsers"}
    KeyOrder <- MCOneKey
    Serial = FALSE
    KafkaEnabled = TRUE
    LateWrites = TRUE
    MaxContent <- MCMaxContent
    MaxTime = 2
SYMMETRY Symmetry
INVARIANTS
    TypeOK
    HistoryWasWritten
    EventsWereWritten
