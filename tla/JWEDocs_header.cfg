\* An EC key and tokens of other producers whose epk is in the recipient's header.
SPECIFICATION Spec
CONSTANTS
    None = None
    Corrupt = Corrupt
    Absent = Absent
    Garbled = Garbled
    Tampered = Tampered
    Slots = {"a", "b"}
    Materials <- MCMaterials
    Kids <- MCMaterials
    Thumbprint <- MCThumbprint
    OctSize <- MCOctSize
    Payloads = {"p"}
    KeyRings <- ECRings
    KeyAlgorithms = {"ECDH-ES"}
    ContentAlgorithms = {"A128CBC-HS256"}
    ForeignHeaders <- MCForeignHeaders
    MadeUpHeaders = {}
    OddLengths <- WholeLengths
    Minimal = {FALSE}
    MaxTokens = 1
    MaxRecipients = 1
INVARIANT FlattenedHeaderKept
CHECK_DEADLOCK FALSE
