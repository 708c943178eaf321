\* Keys of every curve, tokens signed by default.
SPECIFICATION Spec
CONSTANTS
    None = None
    NonString = NonString
    Garbled = Garbled
    NotObject = NotObject
    Materials <- DocsMaterials
    Kids <- DocsMaterials
    Thumbprint <- DocsThumbprint
    Payloads <- MCPayloads
    Keys <- ECKeys
    Algorithms = {"RS256"}
    Strings = {"x", "y"}
    TextSettings <- MCTextSettings
    AudienceLists <- MCAudienceLists
    Times = {3}
    ForeignClaims <- MCForeignClaims
    Expectations <- MCExpectations
    IntWidth = 3
    TicksPerSecond = 2
    MaxNow = 8
    MaxSetters = 2
    MaxTokens = 2
INVARIANT DefaultAlgorithmSigns
CHECK_DEADLOCK FALSE
