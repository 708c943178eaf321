\* One key of each type, its published copy, and every change a setter makes.
SPECIFICATION Spec
CONSTANTS
    None = None
    NonString = NonString
    Garbled = Garbled
    Slots = {"a", "b"}
    Materials <- MCMaterials
    Kids <- MCKids
    Thumbprint <- MCThumbprint
    Enrolments <- AloneEnrolments
    NewKids = {"k", None}
    NewAlgs = {"ES384", "RS256"}
    NewUses = {"sig", "enc"}
    Payloads = {"p", "q"}
    ParamSets = {{}, {"kid"}}
    SignatureAlgs = {"HS256", "RS256", "ES256", "ES384", "EdDSA", "none"}
    ForeignHeaders <- BadHeaders
    MaxSigs = 1
    MaxIssued = 2
    MaxEdits = 1
INVARIANTS TypeOK Authentic OwnTokensNotRejected RoundTripExact
PROPERTIES OnlySigningKeysSign NoPrivateMaterialPublished ImplementsService
CHECK_DEADLOCK FALSE
