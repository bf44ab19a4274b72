\* Three requests for two locations, with room for two, and a chain of up to two referrals.
SPECIFICATION Spec
CONSTANTS
    ip1 = ip1
    ip2 = ip2
    arin = arin
    ripe = ripe
    Key = {ip1, ip2}
    Value <- MCLocations
    MaxInserts = 3
    Symbol = {"u", "p", "q", ":"}
    Requests <- MCRequests
    Logins <- MCLogins
    Host = {arin, ripe}
    FirstHost = arin
    MaxFollows = 2
    MaxSize = 2
    Nothing = Nothing
INVARIANTS
    TypeOK
    LoginIsExact
    LocationsMatchIps
    WhoisIsFinal
PROPERTIES
    ImplementsFifo
    RequestsAreAnswered
\* The run ends when all requests are answered.
CHECK_DEADLOCK FALSE
