\* Three threads, two units with a shared back end and jwk.cpp.
SPECIFICATION Spec
CONSTANTS
    Threads = {t1, t2, t3}
    Units = {jws, base64url}
    Own = jwk
    None = None
INVARIANTS TypeOK OneBackEnd
PROPERTIES EveryCallEnds ImplementsShared
