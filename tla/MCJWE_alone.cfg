\* One key of each type, with and without its private half; two tokens, whose
\* parts are recombined, and a protected header that is made up.
SPECIFICATION Spec
CONSTANTS
    None = None
    Corrupt = Corrupt
    Absent = Absent
    Garbled = Garbled
    Tampered = Tampered
    Slots = {"a", "b"}
    Materials <- MCMaterials
    Kids <- MCMaterials
    Thumbprint <- MCThumbprint
    OctSize <- MCOctSize
    Payloads = {"p"}
    KeyRings <- AloneRings
    KeyAlgorithms = {"RSA-OAEP", "A128KW", "A128GCMKW", "dir", "ECDH-ES"}
    ContentAlgorithms = {"A128CBC-HS256", "A128GCM"}
    ForeignHeaders <- MCForeignHeaders
    MadeUpHeaders <- MCMadeUpHeaders
    OddLengths <- WholeLengths
    Minimal = {TRUE, FALSE}
    MaxTokens = 2
    MaxRecipients = 1
INVARIANTS TypeOK OnlyRecipientsRead BoundToHeader GoodRecipientSuffices
CHECK_DEADLOCK FALSE
