\* Two keys and their copies in a set, under the IDs and algorithms the setters give.
SPECIFICATION Spec
CONSTANTS
    None = None
    Junk = Junk
    Slots = {"a", "b"}
    Materials <- MCMaterials
    Kids <- MCKids
    Thumbprint <- MCThumbprint
    KeyRings <- MCKeyRings
    JWEs = {jwe}
    NewKids = {"k", None}
    NewAlgs = {"HS256", None}
    AskedAlgs = {"RS256", "ES256", "HS256", None}
    ForeignEntries <- MCForeignEntries
    MaxKeys = 2
    MaxEdits = 1
INVARIANTS TypeOK SameResolution NoSecretsPublished
PROPERTY ImplementsDirectory
CHECK_DEADLOCK FALSE
