\* Two parties, a token for both of them, recipients recombined, and an IV or a
\* tag that has not its length.
SPECIFICATION Spec
CONSTANTS
    None = None
    Corrupt = Corrupt
    Absent = Absent
    Garbled = Garbled
    Tampered = Tampered
    Slots = {"a", "b"}
    Materials <- MCMaterials
    Kids <- MCMaterials
    Thumbprint <- MCThumbprint
    OctSize <- MCOctSize
    Payloads = {"p"}
    KeyRings <- PairedRings
    KeyAlgorithms = {"RSA1_5", "A128GCMKW", "dir", "ECDH-ES"}
    ContentAlgorithms = {"A128GCM", "A128CBC-HS256"}
    ForeignHeaders <- CutHeaders
    MadeUpHeaders = {}
    OddLengths <- OneLength
    Minimal = {FALSE}
    MaxTokens = 1
    MaxRecipients = 2
INVARIANTS OnlyRecipientsRead BoundToHeader GoodRecipientSuffices RoundTripExact
PROPERTY ImplementsChannel
CHECK_DEADLOCK FALSE
