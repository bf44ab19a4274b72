SPECIFICATION Spec
CONSTANTS
    NoFolder = NoFolder
    Inbox = inbox
    inbox = inbox
    dmarc = dmarc
    tls = tls
    Large = Large
    Oversized = Large
    Mail <- MCMail
    Contents <- MCContents
    Data <- MCData
    Valid <- MCValid
    Org <- MCOrg
    ReportId <- MCReportId
    Digests <- MCDigests
    Setups <- MCOneFolder
    MaxMissing = 0
INVARIANTS
    HookCountsReportsInMail
\* The pipeline ends.
CHECK_DEADLOCK FALSE
