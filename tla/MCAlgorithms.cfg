CONSTANTS
    PatternCharacter = {"a", "b", "*", "?"}
    NameCharacter = {"A", "b"}
    RuleId = {1, 2}
    Priority = {1, 2}
    NoRule = None
    MaxPattern = 4
    MaxName = 4
    MaxRules = 3
    MaxInput = 6
    MaxPathLength = 5
    MaxComponentLength = 3
    MaxComponents = 2
    Base = 4
    Value <- SampleValues
    Noise = {0, 1, 2}
    MaxNoise = 2
    FirmwareText <- Texts
    Utf8 <- Utf8Texts
    MaxStructures = 2
    MaxStrings = 2
SPECIFICATION Spec
INVARIANTS MatchesIsMeant DecisionIsOrderFree KeyIsCanonical DecodedIsEncoded SerialIsReferred
CHECK_DEADLOCK FALSE
