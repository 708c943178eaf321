\* Two signers, objects with two signatures put together from their tokens.
SPECIFICATION Spec
CONSTANTS
    None = None
    NonString = NonString
    Garbled = Garbled
    Slots = {"a", "b"}
    Materials <- MCMaterials
    Kids <- MCKids
    Thumbprint <- MCThumbprint
    Enrolments <- PairedEnrolments
    NewKids = {"t1"}
    NewAlgs = {}
    NewUses = {}
    Payloads = {"p", "q"}
    ParamSets = {{}}
    SignatureAlgs = {"HS256", "RS256", "ES256", "ES384", "EdDSA"}
    ForeignHeaders <- OtherHeaders
    MaxSigs = 2
    MaxIssued = 2
    MaxEdits = 1
INVARIANTS NoForgedCosignature OwnTokensNotRejected RoundTripExact
CHECK_DEADLOCK FALSE
