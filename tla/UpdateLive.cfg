\* Progress, with two mails over both folders; one of them may be malformed.
SPECIFICATION LiveSpec
CONSTANTS
    DmarcFolder = TRUE
    TlsFolder = TRUE
    WebHook = TRUE
    ChunkSizes = {0, 1}
    MaxUid = 2
    Big <- MCBig
    Unsized <- MCUnsized
    Undecodable = {}
    Malformed <- MCMalformed
INVARIANT
    StopIsHeard
PROPERTIES
    EventuallyShown
    EventuallyGone
    EventuallyAnnounced
    ShutdownCompletes
    UpdatesGoOn
