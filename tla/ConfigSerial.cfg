SPECIFICATION Spec
CONSTANTS
    Sessions = {s1}
    Readers = {c1}
    Keys = {"sources", "parsers"}
    KeyOrder <- MCKeyOrder
    Serial = TRUE
    KafkaEnabled = FALSE
    LateWrites = FALSE
    MaxContent <- MCMaxContent
    MaxTime = 2
INVARIANTS
    RedisNotBehind
    SnapshotCovered
PROPERTIES
    RefinesPublication
    DistributionEnds
