CONSTANTS
    Octets = {0, 65, 255}
    MaxLength = 4
    MaxEdits = 2
    Secrets <- MCSecrets
    Name <- MCName
    Parties <- MCParties
    HashLen = 32
SPECIFICATION Spec
INVARIANTS OwnTextRead SpellingsOfContent SameKeyIffSameContext
CHECK_DEADLOCK FALSE
