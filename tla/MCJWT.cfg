\* A clock that passes the largest int, tokens of this library and of another producer.
SPECIFICATION Spec
CONSTANTS
    None = None
    NonString = NonString
    Garbled = Garbled
    NotObject = NotObject
    Materials <- MCMaterials
    Kids <- MCMaterials
    Thumbprint <- MCThumbprint
    Payloads <- MCPayloads
    Keys <- MCKeys
    Algorithms = {"RS256"}
    Strings = {"x", "y"}
    TextSettings <- MCTextSettings
    AudienceLists <- MCAudienceLists
    Times = {3, 9}
    ForeignClaims <- MCForeignClaims
    Expectations <- MCExpectations
    IntWidth = 3
    TicksPerSecond = 2
    MaxNow = 8
    MaxSetters = 2
    MaxTokens = 2
INVARIANTS TypeOK WithinWindow RejectedOnlyOutside SignedTokensVerify
PROPERTY ExpiredStaysExpired
CHECK_DEADLOCK FALSE
