SPECIFICATION Spec
CONSTANTS
    DmarcFolder = FALSE
    TlsFolder = FALSE
    WebHook = TRUE
    ChunkSizes = {2}
    MaxUid = 3
    Big <- MCBig
    Unsized <- MCUnsized
    Undecodable <- MCUndecodable
    Malformed = {}
INVARIANT
    StopIsHeard
