\* Two mails over both folders; some cannot be listed.
SPECIFICATION MCSessionSpec
CONSTANTS
    DmarcFolder = TRUE
    TlsFolder = TRUE
    WebHook = FALSE
    ChunkSizes = {0, 1}
    MaxUid = 2
    Big <- MCBig
    Unsized <- MCBig
    Undecodable <- MCUndecodable
    Malformed <- MCMalformed
INVARIANT
    LoginIsEncrypted
PROPERTY
    ImplementsUpdateCycle
