CONSTANTS
    Pairs = {a, b}
    CRT = {"p", "qi"}
    MaxAttempts = 3
    None = None
SPECIFICATION Spec
INVARIANTS TypeOK OneKeyPair PrivateHalfServes OwnExportsAccepted
PROPERTY EveryCallEnds
