----------------------------- MODULE IpRequests -----------------------------
(***************************************************************************)
(* Requests of the web interface for what others know about an IP: its     *)
(* location, asked of a web service through a cache, and its whois entry,  *)
(* asked of a chain of whois servers (src/src/http/ips.rs, geolocate.rs,   *)
(* http_client.rs, whois.rs), behind the login of all routes but one       *)
(* (src/src/http.rs).                                                      *)
(*                                                                         *)
(* The requests run concurrently.  The lock of AppState is only held while *)
(* the cache is read or written, not while a server is asked.  A text is a *)
(* sequence of symbols, and a location names the IP it is the location of. *)
(***************************************************************************)
EXTENDS CacheMap, Sequences

\* Of CacheMap: the keys are IPs, the values locations, each [ip, place].

CONSTANTS
    Requests,     \* the requests, each [route, ip]
    Symbol,       \* what texts are made of
    Logins,       \* pairs <<account, header>>: the configured [user, password] and an
                  \* Authorization header [kind, text], "missing", "malformed" or "text"
    Host,         \* whois servers
    FirstHost,    \* whois.arin.net
    MaxFollows,   \* max_follows
    Nothing       \* no body, no referral

Route == {"location", "whois", "health"}
Ip == Key

ASSUME RequestsAssumption ==
    /\ Requests \in Seq([route : Route, ip : Ip])
    /\ ":" \in Symbol
    /\ Logins \subseteq [user : Seq(Symbol), password : Seq(Symbol)]
                        \X [kind : {"missing", "malformed", "text"}, text : Seq(Symbol)]
    /\ FirstHost \in Host
    /\ MaxFollows \in Nat
    /\ \A location \in Value : location.ip \in Ip
    /\ Nothing \notin Value \cup Ip

Request == 1 .. Len(Requests)

VARIABLES
    account,      \* the configured user and password
    header,       \* the header that all requests of the run carry
    pc,           \* request -> where it is
    located,      \* request -> the location it was told, while it has to store it
    server,       \* request -> [host, port] of the whois server it asks
    follows,      \* request -> referrals it may still follow
    queries,      \* request -> whois queries it has sent (read by properties only)
    text,         \* request -> what the last whois server answered
    answer        \* request -> [status, body]

login == <<account, header>>
whois == <<server, follows, queries, text>>
vars == <<login, pc, cacheVars, located, whois, answer>>

FirstServer == [host |-> FirstHost, port |-> "43"]

(* A whois text either refers to another server, with a port, without one, *)
(* or with one that is no number, or it does not.                          *)
Referral == [host : Host, port : {"43", "none", "bad"}]
Text == Referral \cup {Nothing}

Init ==
    /\ \E l \in Logins : account = l[1] /\ header = l[2]
    /\ pc = [r \in Request |-> "arrived"]
    /\ CacheInit
    /\ located = [r \in Request |-> Nothing]
    /\ server = [r \in Request |-> FirstServer]
    /\ follows = [r \in Request |-> MaxFollows]
    /\ queries = [r \in Request |-> 0]
    /\ text = [r \in Request |-> Nothing]
    /\ answer = [r \in Request |-> [status |-> 0, body |-> Nothing]]

Goto(r, place) == pc' = [pc EXCEPT ![r] = place]

Respond(r, status, body) ==
    /\ answer' = [answer EXCEPT ![r] = [status |-> status, body |-> body]]
    /\ Goto(r, "done")

-----------------------------------------------------------------------------
(***************************************************************************)
(* basic_auth_middleware (http.rs:189-233).                                *)
(***************************************************************************)
Colons(t) == {i \in 1 .. Len(t) : t[i] = ":"}

(* Mutant: the text is split at its last colon. *)
SplitAtLast(t) ==
    LET i == CHOOSE i \in Colons(t) : \A j \in Colons(t) : j <= i
    IN  [user |-> SubSeq(t, 1, i - 1), password |-> SubSeq(t, i + 1, Len(t))]

(* split_once(':') *)
Split(t) ==
    LET i == CHOOSE i \in Colons(t) : \A j \in Colons(t) : i <= j
    IN  [user |-> SubSeq(t, 1, i - 1), password |-> SubSeq(t, i + 1, Len(t))]

(* The status of a refusal, or 200: the request reaches its handler.  A    *)
(* header is malformed when it is no text, not Basic, no base64 or not     *)
(* UTF-8.                                                                  *)
Admission ==
    IF account.password = <<>> THEN 200
    ELSE CASE header.kind = "missing"   -> 401
           [] header.kind = "malformed" -> 400
           [] header.kind = "text" ->
                IF Colons(header.text) = {} THEN 400
                ELSE IF Split(header.text) = account THEN 200 ELSE 401

FirstStep == [location |-> "check", whois |-> "query"]

(* The routes of http.rs:39-66; /health comes after the middleware. *)
Arrive(r) ==
    /\ pc[r] = "arrived"
    /\ IF Requests[r].route = "health" THEN Respond(r, 200, Nothing)
       ELSE IF Admission # 200 THEN Respond(r, Admission, Nothing)
       ELSE Goto(r, FirstStep[Requests[r].route]) /\ UNCHANGED answer
    /\ UNCHANGED <<login, cacheVars, located, whois>>

-----------------------------------------------------------------------------
(***************************************************************************)
(* to_location_handler (ips.rs:109-155).                                   *)
(***************************************************************************)
(* Look into the cache, under the lock. *)
CheckCache(r) ==
    /\ pc[r] = "check"
    /\ IF Cached(Requests[r].ip)
       THEN Respond(r, 200, map[Requests[r].ip].value)
       ELSE Goto(r, "connect") /\ UNCHANGED answer
    /\ UNCHANGED <<login, cacheVars, located, whois>>

(* http_request: open a connection and send the request (http_client.rs:24-81). *)
SendRequest(r) ==
    /\ pc[r] = "connect"
    /\ Goto(r, "reply")
    /\ UNCHANGED <<login, cacheVars, located, whois, answer>>

(* The answer comes piece by piece (http_client.rs:83-99) and is parsed    *)
(* (geolocate.rs:38-44).  The code has no timeout for it.                  *)
ReceiveLocation(r) ==
    /\ pc[r] = "reply"
    /\ \E location \in Value :
        /\ location.ip = Requests[r].ip
        /\ located' = [located EXCEPT ![r] = location]
    /\ Goto(r, "store")
    /\ UNCHANGED <<login, cacheVars, whois, answer>>

(* The connection fails, or the answer has another status than 200, more   *)
(* than a megabyte, or no location in it.                                  *)
LocationFails(r) ==
    /\ pc[r] \in {"connect", "reply"}
    /\ Respond(r, 500, Nothing)
    /\ UNCHANGED <<login, cacheVars, located, whois>>

(* Mutant: the location is stored under the IP of the next request. *)
StoreElsewhere(r) ==
    /\ pc[r] = "store"
    /\ Insert(Requests[IF r = Len(Requests) THEN 1 ELSE r + 1].ip, located[r])
    /\ located' = [located EXCEPT ![r] = Nothing]
    /\ Respond(r, 200, located[r])
    /\ UNCHANGED <<login, whois>>

(* Store it, under the lock; another request may have done so meanwhile. *)
Store(r) ==
    /\ pc[r] = "store"
    /\ Insert(Requests[r].ip, located[r])
    /\ located' = [located EXCEPT ![r] = Nothing]
    /\ Respond(r, 200, located[r])
    /\ UNCHANGED <<login, whois>>

-----------------------------------------------------------------------------
(***************************************************************************)
(* to_whois_handler (ips.rs:157-172) and lookup_iterative (whois.rs:66-95). *)
(***************************************************************************)
(* The query goes out; in lookup_once each step until the answer is there  *)
(* has a timeout.                                                          *)
SendQuery(r) ==
    /\ pc[r] = "query"
    /\ queries' = [queries EXCEPT ![r] = @ + 1]
    /\ Goto(r, "whois")
    /\ UNCHANGED <<login, cacheVars, located, server, follows, text, answer>>

(* The referral as text is compared with "host:port" of the server that    *)
(* was asked: one without a port is never equal to it.                     *)
Leads(t, asked) == t # Nothing /\ t # asked

(* Server::from_str(): 43 is the port of a referral that names none. *)
Parsed(ref) == [host |-> ref.host, port |-> IF ref.port = "none" THEN "43" ELSE ref.port]

(* Mutant: the text that is returned is the first server's. *)
ReceiveTextKeepsFirst(r) ==
    /\ pc[r] = "whois"
    /\ \E t \in Text :
        /\ text' = [text EXCEPT ![r] = IF queries[r] = 1 THEN t ELSE @]
        /\ CASE follows[r] = 0 \/ ~Leads(t, server[r]) ->
                  Respond(r, 200, text'[r]) /\ UNCHANGED <<server, follows>>
             [] follows[r] > 0 /\ Leads(t, server[r]) /\ t.port = "bad" ->
                  Respond(r, 404, Nothing) /\ UNCHANGED <<server, follows>>
             [] OTHER ->
                  /\ server' = [server EXCEPT ![r] = Parsed(t)]
                  /\ follows' = [follows EXCEPT ![r] = @ - 1]
                  /\ Goto(r, "query")
                  /\ UNCHANGED answer
    /\ UNCHANGED <<login, cacheVars, located, queries>>

(* The answer is there: follow its referral, or return it. *)
ReceiveText(r) ==
    /\ pc[r] = "whois"
    /\ \E t \in Text :
        /\ text' = [text EXCEPT ![r] = t]
        /\ CASE follows[r] = 0 \/ ~Leads(t, server[r]) ->
                  Respond(r, 200, t) /\ UNCHANGED <<server, follows>>
             [] follows[r] > 0 /\ Leads(t, server[r]) /\ t.port = "bad" ->
                  Respond(r, 404, Nothing) /\ UNCHANGED <<server, follows>>
             [] OTHER ->
                  /\ server' = [server EXCEPT ![r] = Parsed(t)]
                  /\ follows' = [follows EXCEPT ![r] = @ - 1]
                  /\ Goto(r, "query")
                  /\ UNCHANGED answer
    /\ UNCHANGED <<login, cacheVars, located, queries>>

(* Mutant: reading the answer has no timeout. *)
WhoisTimeoutNever(r) == FALSE /\ UNCHANGED <<vars, r>>

(* A timeout or an error; what earlier servers answered is dropped. *)
WhoisFails(r) ==
    /\ pc[r] = "whois"
    /\ Respond(r, 404, Nothing)
    /\ UNCHANGED <<login, cacheVars, located, whois>>

-----------------------------------------------------------------------------
Handle(r) ==
    \/ Arrive(r)
    \/ CheckCache(r) \/ SendRequest(r) \/ ReceiveLocation(r) \/ LocationFails(r) \/ Store(r)
    \/ SendQuery(r) \/ ReceiveText(r) \/ WhoisFails(r)

Next == \E r \in Request : Handle(r)

(***************************************************************************)
(* tokio polls each request that can go on, and the timers of a whois      *)
(* request fire.  Nothing says that the location service answers.          *)
(***************************************************************************)
Fairness ==
    \A r \in Request :
        /\ WF_vars(Arrive(r) \/ CheckCache(r) \/ Store(r) \/ SendQuery(r))
        /\ WF_vars(WhoisFails(r))

Spec == Init /\ [][Next]_vars /\ Fairness

-----------------------------------------------------------------------------
(***************************************************************************)
(* Properties.                                                             *)
(***************************************************************************)
Done(r) == pc[r] = "done"

(* The cache has the shape it should, also when requests race to insert the *)
(* same IP, and what a request remembers fits the place it is at.           *)
TypeOK ==
    /\ CacheTypeOK /\ SizeBound /\ StampsUnique
    /\ pc \in [Request -> {"arrived", "check", "connect", "reply", "store", "query", "whois", "done"}]
    /\ located \in [Request -> Value \cup {Nothing}]
    /\ \A r \in Request : located[r] # Nothing <=> pc[r] = "store"
    /\ server \in [Request -> [host : Host, port : {"43"}]]
    /\ follows \in [Request -> 0 .. MaxFollows]
    /\ text \in [Request -> Text]
    /\ \A r \in Request : answer[r].status \in {200, 400, 401, 404, 500} <=> Done(r)

(* A password opens the handlers exactly when user and password are the    *)
(* configured ones, also when the password has a colon in it; a user with  *)
(* a colon could never log in.                                             *)
LoginIsExact ==
    LET credentials == account.user \o <<":">> \o account.password
        admitted == account.password = <<>> \/ header = [kind |-> "text", text |-> credentials]
    IN  Colons(account.user) = {} =>
          \A r \in Request :
              pc[r] # "arrived" /\ Requests[r].route # "health"
                => (answer[r].status \in {400, 401} <=> ~admitted)

(* A location is only ever given for the IP it belongs to, from the cache  *)
(* or from the service, whatever requests run meanwhile.                   *)
LocationsMatchIps ==
    /\ \A ip \in DOMAIN map : map[ip].value.ip = ip
    /\ \A r \in Request :
         Requests[r].route = "location" /\ answer[r].status = 200
           => answer[r].body.ip = Requests[r].ip

(* A whois answer is the end of its chain: it refers to no other server,   *)
(* unless that would have been one referral too many; and referrals in a   *)
(* circle end as well.                                                     *)
WhoisIsFinal ==
    \A r \in Request : Requests[r].route = "whois" =>
        /\ queries[r] <= MaxFollows + 1
        /\ answer[r].status = 200 /\ queries[r] <= MaxFollows =>
             answer[r].body = text[r] /\ ~Leads(answer[r].body, server[r])

(* A silent server holds up nobody but the request that waits for it, and  *)
(* the whois servers not even that.                                        *)
RequestsAreAnswered ==
    \A r \in Request :
        <>Done(r) \/ (Requests[r].route = "location" /\ <>[](pc[r] \in {"connect", "reply"}))
=============================================================================
