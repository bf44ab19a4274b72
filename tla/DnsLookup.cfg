\* Three lookups on two ports with room for one entry in the cache; the message ID wraps.
SPECIFICATION FairSpec
CONSTANTS
    ip1 = ip1
    ip2 = ip2
    Key = {ip1, ip2}
    Value <- MCHosts
    MaxInserts = 3
    Port = {p1, p2}
    Batches <- MCBatches
    MaxBatch = 2
    Singles <- MCSingles
    MaxSize = 1
    IdCount = 3
    NoHost = NoHost
    Failed = Failed
INVARIANTS
    TypeOK
    NamesMatchIps
PROPERTY
    LookupsAreAnswered
\* The model ends when all requests are answered.
CHECK_DEADLOCK FALSE
