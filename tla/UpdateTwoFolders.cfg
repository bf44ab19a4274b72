\* Two folders, three mails, bodies requested one by one; one mail may end the task.
SPECIFICATION Spec
CONSTANTS
    DmarcFolder = TRUE
    TlsFolder = TRUE
    WebHook = TRUE
    ChunkSizes = {1}
    MaxUid = 2
    Big <- MCBig
    Unsized <- MCUnsized
    Undecodable <- MCUndecodable
    Malformed = {}
CONSTRAINT UpToThreeMails
INVARIANTS
    TypeOK
    HookAtMostOnce
    HookFindsMail
PROPERTIES
    UpdateIsComplete
    UpdateIsCurrent
    ImplementsMailWatch
