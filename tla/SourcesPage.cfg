\* Two calls, chunks of two IPs, three sources.
SPECIFICATION FairSpec
CONSTANTS
    Dmarc <- MCDmarc
    Tls <- MCTls
    Lower <- MCLower
    Second = 2
    Hour = 4
    Clock = {}
    MaxHours = 0
    Wrap = 16
    Times = {}
    None = None
    Filters <- MCFilters
    ChunkSize = 2
    MaxIpCount = 2
    MaxVisits = 2
    NoHost = NoHost
INVARIANTS
    PageObeysFilter
    UndisturbedNamesAreRight
PROPERTIES
    NamesArrive
