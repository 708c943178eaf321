\* jws.hpp: the noexcept parsers return.
SPECIFICATION Spec
CONSTANTS
    None = None
    NonString = NonString
    Garbled = Garbled
    Slots = {"a", "b"}
    Materials <- MCMaterials
    Kids <- MCKids
    Thumbprint <- MCThumbprint
    Enrolments <- AloneEnrolments
    NewKids = {}
    NewAlgs = {}
    NewUses = {}
    Payloads = {"p"}
    ParamSets = {{}, {"cty"}, {"crit"}}
    SignatureAlgs = {"HS256", "ES384"}
    ForeignHeaders <- BadHeaders
    MaxSigs = 1
    MaxIssued = 1
    MaxEdits = 0
INVARIANT NothrowParsersReturn
CHECK_DEADLOCK FALSE
