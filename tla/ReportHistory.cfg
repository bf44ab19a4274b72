SPECIFICATION HistorySpec
CONSTANTS
    NoFolder = NoFolder
    Inbox = inbox
    inbox = inbox
    dmarc = dmarc
    tls = tls
    Large = Large
    Oversized = Large
    Mail <- MCMail
    Contents <- MCContents
    Data <- MCData
    Valid <- MCValid
    Org <- MCOrg
    ReportId <- MCReportId
    Digests <- MCDigests
    Setups <- MCSetups
    MaxMissing = 1
    MaxUpdates = 2
    MaxChanges = 1
    Sender <- MCSender
    Date <- MCDate
    Lower <- MCLower
    Encode <- MCEncode
    Decode <- MCDecode
INVARIANTS
    HistoryTypeOK
    NoFileIsReplaced
    EveryKeyIsShownOnce
    FilesAreAccountedFor
    LinksWork
    MailPagesAgree
PROPERTIES
    LinksSurvive
\* The updates are bounded.
CHECK_DEADLOCK FALSE
