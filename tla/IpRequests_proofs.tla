-------------------------- MODULE IpRequests_proofs --------------------------
(***************************************************************************)
(* Proofs about the requests for IPs, for any number of requests, any      *)
(* cache, any whois servers, and any user and password.                    *)
(***************************************************************************)
EXTENDS IpRequests, CacheMap_proofs, SequenceTheorems

-----------------------------------------------------------------------------
(***************************************************************************)
(* The login.                                                              *)
(***************************************************************************)
(* Splitting a text with a colon gives what is before and after the first. *)
LEMMA SplitAtFirst ==
    ASSUME NEW t \in Seq(Symbol), NEW n \in Colons(t), \A i \in Colons(t) : n <= i
    PROVE  Split(t) = [user |-> SubSeq(t, 1, n - 1), password |-> SubSeq(t, n + 1, Len(t))]
<1>1. Colons(t) \subseteq Nat
  BY DEF Colons
<1>2. (CHOOSE i \in Colons(t) : \A j \in Colons(t) : i <= j) = n
  BY <1>1
<1> QED
  BY <1>2 DEF Split

(* A text with a colon has a first one. *)
LEMMA FirstColon ==
    ASSUME NEW t \in Seq(Symbol), Colons(t) # {}
    PROVE  \E n \in Colons(t) : \A i \in Colons(t) : n <= i
<1>1. Colons(t) \subseteq Nat
  BY DEF Colons
<1>2. \A i, j \in Nat : i < j => <<i, j>> \in OpToRel(<, Nat)
  BY Zenon DEF OpToRel
<1>3. PICK less : IsWellFoundedOn(less, Nat) /\ \A i, j \in Nat : i < j => <<i, j>> \in less
  BY <1>2, NatLessThanWellFounded, Zenon
<1>4. PICK n \in Colons(t) : \A i \in Colons(t) : ~ (<<i, n>> \in less)
  BY <1>1, <1>3, WFMin
<1>5. ASSUME NEW i \in Colons(t) PROVE ~(i < n)
  BY <1>1, <1>3, <1>4, Zenon
<1> QED
  BY <1>1, <1>5

(* What split_once() returns, put together again with a colon, is the text. *)
LEMMA SplitThenJoin ==
    ASSUME NEW t \in Seq(Symbol), Colons(t) # {}
    PROVE  t = Split(t).user \o <<":">> \o Split(t).password
<1>1. Colons(t) \subseteq 1 .. Len(t) /\ Len(t) \in Nat
  BY LenProperties DEF Colons
<1>2. PICK n \in Colons(t) : \A i \in Colons(t) : n <= i
  BY FirstColon
<1> DEFINE a == SubSeq(t, 1, n - 1)
           b == SubSeq(t, n + 1, Len(t))
<1>3. Split(t).user = a /\ Split(t).password = b
  BY <1>2, SplitAtFirst
<1>4. n \in 1 .. Len(t) /\ t[n] = ":"
  BY <1>1, <1>2 DEF Colons
<1>5. \A i \in 1 .. Len(t) : t[i] \in Symbol
  BY ElementOfSeq
<1>6. /\ a \in Seq(Symbol) /\ Len(a) = n - 1
      /\ \A i \in 1 .. n - 1 : a[i] = t[i]
  BY <1>1, <1>4, <1>5, SubSeqProperties
<1>7. /\ b \in Seq(Symbol) /\ Len(b) = Len(t) - n
      /\ \A i \in 1 .. Len(t) - n : b[i] = t[n + i]
  <2>1. \A i \in n + 1 .. Len(t) : t[i] \in Symbol
    BY <1>4, <1>5
  <2>2. /\ b \in Seq(Symbol)
        /\ Len(b) = IF n + 1 <= Len(t) THEN Len(t) - (n + 1) + 1 ELSE 0
        /\ \A i \in 1 .. Len(t) - (n + 1) + 1 : b[i] = t[(n + 1) + i - 1]
    BY <1>1, <1>4, <2>1, SubSeqProperties
  <2> QED
    BY <1>1, <1>4, <2>2
<1>8. <<":">> \in Seq(Symbol) /\ Len(<<":">>) = 1 /\ <<":">>[1] = ":"
  BY RequestsAssumption
<1> HIDE DEF a, b
<1> DEFINE ac == a \o <<":">>
<1>9. /\ ac \in Seq(Symbol) /\ Len(ac) = n
      /\ \A i \in 1 .. n : ac[i] = t[i]
  <2>1. /\ ac \in Seq(Symbol) /\ Len(ac) = Len(a) + Len(<<":">>)
        /\ \A i \in 1 .. Len(a) + Len(<<":">>) :
              ac[i] = IF i <= Len(a) THEN a[i] ELSE <<":">>[i - Len(a)]
    BY <1>6, <1>8, ConcatProperties
  <2> QED
    BY <1>4, <1>6, <1>8, <2>1
<1> HIDE DEF ac
<1>10. /\ ac \o b \in Seq(Symbol) /\ Len(ac \o b) = Len(t)
       /\ \A i \in 1 .. Len(t) : (ac \o b)[i] = t[i]
  <2>1. /\ ac \o b \in Seq(Symbol) /\ Len(ac \o b) = Len(ac) + Len(b)
        /\ \A i \in 1 .. Len(ac) + Len(b) :
              (ac \o b)[i] = IF i <= Len(ac) THEN ac[i] ELSE b[i - Len(ac)]
    BY <1>7, <1>9, ConcatProperties
  <2>2. Len(ac) + Len(b) = Len(t)
    BY <1>1, <1>4, <1>7, <1>9
  <2>3. ASSUME NEW i \in 1 .. Len(t) PROVE (ac \o b)[i] = t[i]
    <3>1. CASE i <= n
      BY <1>1, <1>4, <1>9, <2>1, <2>2, <3>1
    <3>2. CASE ~(i <= n)
      <4>1. i - n \in 1 .. Len(t) - n
        BY <1>1, <1>4, <3>2
      <4>2. (ac \o b)[i] = b[i - n]
        BY <1>9, <2>1, <2>2, <3>2
      <4>3. b[i - n] = t[n + (i - n)] /\ n + (i - n) = i
        BY <1>1, <1>4, <1>7, <4>1
      <4> QED
        BY <4>2, <4>3
    <3> QED
      BY <3>1, <3>2
  <2> QED
    BY <2>1, <2>2, <2>3
<1>11. t = ac \o b
  BY <1>10, SeqEqual
<1> QED
  BY <1>3, <1>11 DEF ac

(* A user without a colon, a colon, and any password split into the two. *)
LEMMA JoinThenSplit ==
    ASSUME NEW u \in Seq(Symbol), NEW p \in Seq(Symbol), Colons(u) = {},
           NEW t, t = u \o <<":">> \o p
    PROVE  t \in Seq(Symbol) /\ Colons(t) # {} /\ Split(t) = [user |-> u, password |-> p]
<1> DEFINE uc == u \o <<":">>
           n == Len(u) + 1
<1>1. <<":">> \in Seq(Symbol) /\ Len(<<":">>) = 1 /\ <<":">>[1] = ":"
  BY RequestsAssumption
<1>2. Len(u) \in Nat /\ Len(p) \in Nat
  BY LenProperties
<1>3. /\ uc \in Seq(Symbol) /\ Len(uc) = n /\ uc[n] = ":"
      /\ \A i \in 1 .. Len(u) : uc[i] = u[i]
  <2>1. /\ uc \in Seq(Symbol) /\ Len(uc) = Len(u) + Len(<<":">>)
        /\ \A i \in 1 .. Len(u) + Len(<<":">>) :
              uc[i] = IF i <= Len(u) THEN u[i] ELSE <<":">>[i - Len(u)]
    BY <1>1, ConcatProperties
  <2> QED
    BY <1>1, <1>2, <2>1
<1>0. t = uc \o p
  OBVIOUS
<1> HIDE DEF uc
<1>4. /\ t \in Seq(Symbol) /\ Len(t) = n + Len(p)
      /\ \A i \in 1 .. n + Len(p) : t[i] = IF i <= n THEN uc[i] ELSE p[i - n]
  BY <1>0, <1>3, ConcatProperties
<1>5. n \in Colons(t) /\ \A i \in Colons(t) : n <= i
  <2>1. \A i \in 1 .. Len(u) : u[i] # ":"
    BY DEF Colons
  <2>2. \A i \in 1 .. Len(u) : t[i] # ":"
    BY <1>2, <1>3, <1>4, <2>1
  <2> QED
    BY <1>2, <1>3, <1>4, <2>2 DEF Colons
<1>6. Split(t) = [user |-> SubSeq(t, 1, n - 1), password |-> SubSeq(t, n + 1, Len(t))]
  BY <1>4, <1>5, SplitAtFirst
<1>7. \A i \in 1 .. Len(t) : t[i] \in Symbol
  BY <1>4, ElementOfSeq
<1>8. SubSeq(t, 1, n - 1) = u
  <2>1. /\ SubSeq(t, 1, Len(u)) \in Seq(Symbol)
        /\ Len(SubSeq(t, 1, Len(u))) = IF 1 <= Len(u) THEN Len(u) - 1 + 1 ELSE 0
        /\ \A i \in 1 .. Len(u) - 1 + 1 : SubSeq(t, 1, Len(u))[i] = t[1 + i - 1]
    BY <1>2, <1>4, <1>7, SubSeqProperties
  <2>2. Len(SubSeq(t, 1, Len(u))) = Len(u)
    BY <1>2, <2>1
  <2>3. \A i \in 1 .. Len(u) : SubSeq(t, 1, Len(u))[i] = u[i]
    BY <1>2, <1>3, <1>4, <2>1
  <2>4. SubSeq(t, 1, Len(u)) = u
    BY <2>1, <2>2, <2>3, SeqEqual
  <2> QED
    BY <1>2, <2>4
<1>9. SubSeq(t, n + 1, Len(t)) = p
  <2> DEFINE b == SubSeq(t, n + 1, Len(t))
  <2>1. /\ b \in Seq(Symbol)
        /\ Len(b) = IF n + 1 <= Len(t) THEN Len(t) - (n + 1) + 1 ELSE 0
        /\ \A i \in 1 .. Len(t) - (n + 1) + 1 : b[i] = t[(n + 1) + i - 1]
    BY <1>2, <1>4, <1>7, SubSeqProperties
  <2> HIDE DEF b
  <2>2. Len(b) = Len(p)
    BY <1>2, <1>4, <2>1
  <2>3. ASSUME NEW i \in 1 .. Len(p) PROVE b[i] = p[i]
    <3>1. b[i] = t[n + i]
      <4>1. i \in 1 .. Len(t) - (n + 1) + 1 /\ (n + 1) + i - 1 = n + i
        BY <1>2, <1>4
      <4> QED
        BY <2>1, <4>1
    <3>2. t[n + i] = p[i]
      <4>1. n + i \in 1 .. n + Len(p) /\ ~(n + i <= n) /\ (n + i) - n = i
        BY <1>2
      <4> QED
        BY <1>4, <4>1
    <3> QED
      BY <3>1, <3>2
  <2>4. b = p
    BY <2>1, <2>2, <2>3, SeqEqual
  <2> QED
    BY <2>4 DEF b
<1> QED
  BY <1>4, <1>5, <1>6, <1>8, <1>9

(* Which headers open the handlers. *)
Admitted ==
    LET credentials == account.user \o <<":">> \o account.password
    IN  account.password = <<>> \/ header = [kind |-> "text", text |-> credentials]

(* The user and password of the run, and its header, have their shape. *)
LoginTypeOK ==
    /\ account \in [user : Seq(Symbol), password : Seq(Symbol)]
    /\ header \in [kind : {"missing", "malformed", "text"}, text : Seq(Symbol)]

(* The middleware passes exactly the requests it should, for all users     *)
(* without a colon and all passwords; it refuses the others with 400 or 401. *)
LEMMA AdmissionIsExact ==
    ASSUME LoginTypeOK
    PROVE  /\ Admission \in {200, 400, 401}
           /\ Colons(account.user) = {} => (Admission = 200 <=> Admitted)
<1>1. Admission \in {200, 400, 401}
  BY DEF Admission, LoginTypeOK
<1>2. ASSUME Colons(account.user) = {}, Admitted PROVE Admission = 200
  <2>1. CASE account.password = <<>>
    BY <2>1 DEF Admission
  <2>2. CASE header = [kind |-> "text", text |-> account.user \o <<":">> \o account.password]
    <3>1. /\ Colons(header.text) # {}
          /\ Split(header.text) = [user |-> account.user, password |-> account.password]
      BY <1>2, <2>2, JoinThenSplit DEF LoginTypeOK
    <3>2. account = [user |-> account.user, password |-> account.password]
      BY DEF LoginTypeOK
    <3> QED
      BY <2>2, <3>1, <3>2 DEF Admission
  <2> QED
    BY <1>2, <2>1, <2>2 DEF Admitted
<1>3. ASSUME Admission = 200 PROVE Admitted
  <2>1. CASE account.password # <<>>
    <3>1. header.kind = "text" /\ Colons(header.text) # {} /\ Split(header.text) = account
      BY <1>3, <2>1 DEF Admission, LoginTypeOK
    <3>2. header.text = account.user \o <<":">> \o account.password
      BY <3>1, SplitThenJoin DEF LoginTypeOK
    <3> QED
      BY <3>1, <3>2 DEF Admitted, LoginTypeOK
  <2> QED
    BY <2>1 DEF Admitted
<1> QED
  BY <1>1, <1>2, <1>3

-----------------------------------------------------------------------------
(***************************************************************************)
(* The invariant of the requests.                                          *)
(***************************************************************************)
LocationPlaces == {"check", "connect", "reply", "store"}
WhoisPlaces == {"query", "whois"}

(* Everything has its type, and an answer is given at the end. *)
Shape ==
    /\ pc \in [Request -> {"arrived", "done"} \cup LocationPlaces \cup WhoisPlaces]
    /\ located \in [Request -> Value \cup {Nothing}]
    /\ server \in [Request -> [host : Host, port : {"43"}]]
    /\ follows \in [Request -> 0 .. MaxFollows]
    /\ queries \in [Request -> Nat]
    /\ text \in [Request -> Text]
    /\ answer \in [Request -> [status : {0, 200, 400, 401, 404, 500}, body : Value \cup Text]]
    /\ \A r \in Request : answer[r].status = 0 <=> pc[r] # "done"

(* A request only gets to the places of its own handler. *)
Routes ==
    \A r \in Request :
        /\ pc[r] \in LocationPlaces => Requests[r].route = "location"
        /\ pc[r] \in WhoisPlaces => Requests[r].route = "whois"

(* Locations fit their IPs: in the cache, in what a request remembers, and *)
(* in its answer.                                                          *)
Located ==
    /\ \A ip \in DOMAIN map : map[ip].value.ip = ip
    /\ \A r \in Request :
          /\ located[r] # Nothing <=> pc[r] = "store"
          /\ pc[r] = "store" => located[r].ip = Requests[r].ip
          /\ Requests[r].route = "location" /\ answer[r].status = 200
               => answer[r].body.ip = Requests[r].ip

(* Each query after the first used up a referral, and a chain ends when    *)
(* there is none left or the text leads nowhere.                           *)
Chain ==
    \A r \in Request :
        /\ pc[r] \in {"arrived", "query"} => queries[r] + follows[r] = MaxFollows
        /\ pc[r] = "whois" => queries[r] + follows[r] = MaxFollows + 1
        /\ Requests[r].route = "whois" => queries[r] + follows[r] \in {MaxFollows, MaxFollows + 1}
        /\ Requests[r].route = "whois" /\ answer[r].status = 200 =>
             /\ queries[r] + follows[r] = MaxFollows + 1
             /\ answer[r].body = text[r]
             /\ follows[r] = 0 \/ ~Leads(text[r], server[r])

(* Who was refused, and who was not. *)
Refusals ==
    \A r \in Request :
        pc[r] # "arrived" /\ Requests[r].route # "health"
            => (answer[r].status \in {400, 401} <=> Admission # 200)

Inv ==
    /\ LoginTypeOK /\ CacheInv
    /\ Shape /\ Routes /\ Located /\ Chain /\ Refusals

(* The requests are requests. *)
LEMMA RequestTypes ==
    ASSUME NEW r \in Request
    PROVE  Requests[r].route \in Route /\ Requests[r].ip \in Key
<1>1. Requests[r] \in [route : Route, ip : Ip]
  BY RequestsAssumption, ElementOfSeq DEF Request
<1> QED
  BY <1>1 DEF Ip

(* At the beginning nothing is asked, answered or cached. *)
LEMMA InitInv == Init => Inv
<1> SUFFICES ASSUME Init PROVE Inv
  OBVIOUS
<1>1. LoginTypeOK
  <2>1. PICK l \in Logins : account = l[1] /\ header = l[2]
    BY DEF Init
  <2> QED
    BY <2>1, RequestsAssumption DEF LoginTypeOK
<1>2. CacheInv
  BY InitEstablishesInv DEF Init
<1>3. Shape
  BY RequestsAssumption DEF Init, Shape, FirstServer, Text, LocationPlaces, WhoisPlaces
<1>4. Routes /\ Located /\ Chain /\ Refusals
  BY RequestsAssumption DEF Init, CacheInit, Routes, Located, Chain, Refusals, LocationPlaces, WhoisPlaces
<1> QED
  BY <1>1, <1>2, <1>3, <1>4 DEF Inv

(* An answer is typed, and the request that gives it is done. *)
LEMMA RespondTyped ==
    ASSUME Shape, NEW r \in Request, pc' = [pc EXCEPT ![r] = "done"],
           NEW status \in {200, 400, 401, 404, 500}, NEW body \in Value \cup Text,
           answer' = [answer EXCEPT ![r] = [status |-> status, body |-> body]]
    PROVE  /\ pc' \in [Request -> {"arrived", "done"} \cup LocationPlaces \cup WhoisPlaces]
           /\ answer' \in [Request -> [status : {0, 200, 400, 401, 404, 500}, body : Value \cup Text]]
           /\ \A q \in Request : answer'[q].status = 0 <=> pc'[q] # "done"
<1>1. [status |-> status, body |-> body]
        \in [status : {0, 200, 400, 401, 404, 500}, body : Value \cup Text]
  OBVIOUS
<1>2. answer' \in [Request -> [status : {0, 200, 400, 401, 404, 500}, body : Value \cup Text]]
  BY <1>1 DEF Shape
<1>3. pc' \in [Request -> {"arrived", "done"} \cup LocationPlaces \cup WhoisPlaces]
  BY DEF Shape
<1>4. answer'[r].status # 0 /\ pc'[r] = "done"
  BY DEF Shape
<1>5. \A q \in Request \ {r} : answer'[q] = answer[q] /\ pc'[q] = pc[q]
  BY DEF Shape
<1> QED
  BY <1>2, <1>3, <1>4, <1>5 DEF Shape

(* A request that goes on stays typed. *)
LEMMA GotoTyped ==
    ASSUME Shape, NEW r \in Request, pc[r] # "done", UNCHANGED answer,
           NEW place \in LocationPlaces \cup WhoisPlaces, pc' = [pc EXCEPT ![r] = place]
    PROVE  /\ pc' \in [Request -> {"arrived", "done"} \cup LocationPlaces \cup WhoisPlaces]
           /\ answer' \in [Request -> [status : {0, 200, 400, 401, 404, 500}, body : Value \cup Text]]
           /\ \A q \in Request : answer'[q].status = 0 <=> pc'[q] # "done"
BY DEF Shape, LocationPlaces, WhoisPlaces

(* The middleware, or the health check. *)
LEMMA ArriveInv ==
    ASSUME Inv, NEW r \in Request, Arrive(r)
    PROVE  Inv'
<1>1. /\ UNCHANGED <<account, header, map, counter, located, server, follows, queries, text>>
      /\ pc[r] = "arrived"
  BY DEF Arrive, login, cacheVars, whois
<1>2. LoginTypeOK' /\ CacheInv' /\ Admission' = Admission
  BY <1>1 DEF Inv, LoginTypeOK, CacheInv, CacheTypeOK, StampsUnique, SizeBound, Admission
<1>3. Admission \in {200, 400, 401}
  BY AdmissionIsExact DEF Inv
<1>4. Requests[r].route \in {"location", "whois", "health"}
  BY RequestTypes DEF Route
<1>5. \/ /\ pc' = [pc EXCEPT ![r] = "done"]
         /\ \E status \in {200, 400, 401} :
              /\ answer' = [answer EXCEPT ![r] = [status |-> status, body |-> Nothing]]
              /\ Requests[r].route # "health" => status = Admission /\ status # 200
      \/ /\ Admission = 200 /\ UNCHANGED answer
         /\ Requests[r].route = "location" /\ pc' = [pc EXCEPT ![r] = "check"]
      \/ /\ Admission = 200 /\ UNCHANGED answer
         /\ Requests[r].route = "whois" /\ pc' = [pc EXCEPT ![r] = "query"]
  <2>1. FirstStep["location"] = "check" /\ FirstStep["whois"] = "query"
    BY DEF FirstStep
  <2> QED
    BY <1>3, <1>4, <2>1 DEF Arrive, Respond, Goto
<1>6. Shape'
  <2> DEFINE Typed ==
        /\ pc' \in [Request -> {"arrived", "done"} \cup LocationPlaces \cup WhoisPlaces]
        /\ answer' \in [Request -> [status : {0, 200, 400, 401, 404, 500}, body : Value \cup Text]]
        /\ \A q \in Request : answer'[q].status = 0 <=> pc'[q] # "done"
  <2>1. Shape /\ Nothing \in Value \cup Text /\ pc[r] # "done"
    BY <1>1 DEF Inv, Text
  <2>2. Typed
    BY <1>5, <2>1, RespondTyped, GotoTyped DEF LocationPlaces, WhoisPlaces
  <2> QED
    BY <1>1, <2>1, <2>2 DEF Shape
<1>7. Routes'
  BY <1>5 DEF Inv, Shape, Routes, LocationPlaces, WhoisPlaces
<1>8. Located'
  <2>1. \A ip \in DOMAIN map' : map'[ip].value.ip = ip
    BY <1>1 DEF Inv, Located
  <2>2. ASSUME NEW q \in Request
        PROVE  /\ located'[q] # Nothing <=> pc'[q] = "store"
               /\ pc'[q] = "store" => located'[q].ip = Requests[q].ip
    BY <1>1, <1>5 DEF Inv, Shape, Located
  <2>3. ASSUME NEW q \in Request, Requests[q].route = "location", answer'[q].status = 200
        PROVE  answer'[q].body.ip = Requests[q].ip
    <3>1. q # r \/ UNCHANGED answer
      BY <1>5, <2>3 DEF Inv, Shape
    <3>2. answer'[q] = answer[q]
      BY <1>5, <3>1 DEF Inv, Shape
    <3> QED
      BY <2>3, <3>2 DEF Inv, Located
  <2> QED
    BY <2>1, <2>2, <2>3 DEF Located
<1>9. Chain'
  BY <1>1, <1>5, RequestsAssumption DEF Inv, Shape, Chain, WhoisPlaces
<1>10. Refusals'
  BY <1>1, <1>2, <1>3, <1>5 DEF Inv, Shape, Refusals
<1> QED
  BY <1>2, <1>6, <1>7, <1>8, <1>9, <1>10 DEF Inv

(* A step that leaves login and cache alone keeps what is known of them. *)
LEMMA LoginAndCacheKept ==
    ASSUME Inv, UNCHANGED <<account, header>>
    PROVE  /\ LoginTypeOK' /\ Admission' = Admission
           /\ UNCHANGED <<map, counter>> => CacheInv'
BY DEF Inv, LoginTypeOK, CacheInv, CacheTypeOK, StampsUnique, SizeBound, Admission

(* The place of a request tells which route it has and that it was admitted. *)
LEMMA AtItsPlace ==
    ASSUME Inv, NEW r \in Request
    PROVE  /\ pc[r] \in LocationPlaces => Requests[r].route = "location" /\ Admission = 200
           /\ pc[r] \in WhoisPlaces => Requests[r].route = "whois" /\ Admission = 200
BY DEF Inv, Shape, Routes, Refusals, LocationPlaces, WhoisPlaces

(* The steps of a location request before it stores what it was told. *)
LEMMA LocationStepInv ==
    ASSUME Inv, NEW r \in Request,
           CheckCache(r) \/ SendRequest(r) \/ ReceiveLocation(r) \/ LocationFails(r)
    PROVE  Inv'
<1>1. UNCHANGED <<account, header, map, counter, server, follows, queries, text>>
  BY DEF CheckCache, SendRequest, ReceiveLocation, LocationFails, login, cacheVars, whois
<1>2. LoginTypeOK' /\ CacheInv' /\ Admission' = Admission
  BY <1>1, LoginAndCacheKept
<1>3. pc[r] \in {"check", "connect", "reply"} /\ Requests[r].route = "location" /\ Admission = 200
  BY AtItsPlace DEF CheckCache, SendRequest, ReceiveLocation, LocationFails, LocationPlaces
<1>4. \/ /\ UNCHANGED <<answer, located>>
         /\ \E place \in {"connect", "reply"} : pc' = [pc EXCEPT ![r] = place]
      \/ /\ UNCHANGED answer /\ pc' = [pc EXCEPT ![r] = "store"]
         /\ \E location \in Value : /\ location.ip = Requests[r].ip
                                    /\ located' = [located EXCEPT ![r] = location]
      \/ /\ UNCHANGED located /\ pc' = [pc EXCEPT ![r] = "done"]
         /\ \/ answer' = [answer EXCEPT ![r] = [status |-> 500, body |-> Nothing]]
            \/ \E location \in Value :
                  /\ location.ip = Requests[r].ip
                  /\ answer' = [answer EXCEPT ![r] = [status |-> 200, body |-> location]]
  <2>1. CASE CheckCache(r)
    <3>1. CASE Cached(Requests[r].ip)
      <4>1. map[Requests[r].ip].value \in Value /\ map[Requests[r].ip].value.ip = Requests[r].ip
        BY <3>1 DEF Cached, Inv, CacheInv, CacheTypeOK, Entry, Located
      <4> QED
        BY <2>1, <3>1, <4>1 DEF CheckCache, Respond, Goto
    <3> QED
      BY <2>1, <3>1 DEF CheckCache, Goto
  <2>2. CASE SendRequest(r)
    BY <2>2 DEF SendRequest, Goto
  <2>3. CASE ReceiveLocation(r)
    BY <2>3 DEF ReceiveLocation, Goto
  <2>4. CASE LocationFails(r)
    BY <2>4 DEF LocationFails, Respond, Goto
  <2> QED
    BY <2>1, <2>2, <2>3, <2>4
<1>5. Shape'
  BY <1>1, <1>3, <1>4 DEF Inv, Shape, Text, LocationPlaces, WhoisPlaces
<1>6. Routes'
  BY <1>3, <1>4 DEF Inv, Shape, Routes, LocationPlaces, WhoisPlaces
<1>7. Located'
  <2>1. \A ip \in DOMAIN map' : map'[ip].value.ip = ip
    BY <1>1 DEF Inv, Located
  <2>2. ASSUME NEW q \in Request
        PROVE  /\ located'[q] # Nothing <=> pc'[q] = "store"
               /\ pc'[q] = "store" => located'[q].ip = Requests[q].ip
    BY <1>3, <1>4, RequestsAssumption DEF Inv, Shape, Located
  <2>3. ASSUME NEW q \in Request, Requests[q].route = "location", answer'[q].status = 200
        PROVE  answer'[q].body.ip = Requests[q].ip
    <3>1. CASE answer'[q] = answer[q]
      BY <2>3, <3>1 DEF Inv, Located
    <3>2. CASE answer'[q] # answer[q]
      <4>1. q = r
        BY <1>4, <3>2 DEF Inv, Shape
      <4> QED
        BY <1>4, <2>3, <3>2, <4>1 DEF Inv, Shape
    <3> QED
      BY <3>1, <3>2
  <2> QED
    BY <2>1, <2>2, <2>3 DEF Located
<1>8. Chain'
  BY <1>1, <1>3, <1>4, RequestsAssumption DEF Inv, Shape, Chain
<1>9. Refusals'
  BY <1>2, <1>3, <1>4 DEF Inv, Shape, Refusals
<1> QED
  BY <1>2, <1>5, <1>6, <1>7, <1>8, <1>9 DEF Inv

(* The cache is only ever given a location of the IP it is stored for. *)
LEMMA StoreInv ==
    ASSUME Inv, NEW r \in Request, Store(r)
    PROVE  Inv'
<1> DEFINE ip == Requests[r].ip
<1>1. UNCHANGED <<account, header, server, follows, queries, text>> /\ pc[r] = "store"
  BY DEF Store, login, whois
<1>2. LoginTypeOK' /\ Admission' = Admission
  BY <1>1, LoginAndCacheKept
<1>3. Requests[r].route = "location" /\ Admission = 200
  BY <1>1, AtItsPlace DEF LocationPlaces
<1>4. located[r] \in Value /\ located[r].ip = ip /\ ip \in Key
  BY <1>1, RequestTypes DEF Inv, Shape, Located
<1>5. CacheInv'
  BY <1>4, InsertKeepsInv DEF Store, Inv
<1>6. /\ pc' = [pc EXCEPT ![r] = "done"]
      /\ located' = [located EXCEPT ![r] = Nothing]
      /\ answer' = [answer EXCEPT ![r] = [status |-> 200, body |-> located[r]]]
  BY DEF Store, Respond, Goto
<1>7. \A k \in DOMAIN map' : map'[k].value.ip = k
  <2>1. PICK kept \in SUBSET DOMAIN map : map' = With(kept, ip, located[r])
    BY OldestIsKey DEF Store, Insert
  <2>2. DOMAIN map' = kept \cup {ip}
    BY <2>1, WithDomain
  <2>3. map'[ip].value = located[r] /\ \A k \in kept \ {ip} : map'[k] = map[k]
    BY <2>1 DEF With
  <2> QED
    BY <1>4, <2>2, <2>3 DEF Inv, Located
<1>8. Shape'
  BY <1>1, <1>4, <1>6 DEF Inv, Shape, LocationPlaces, WhoisPlaces
<1>9. Routes'
  BY <1>6 DEF Inv, Shape, Routes, LocationPlaces, WhoisPlaces
<1>10. Located'
  BY <1>4, <1>6, <1>7 DEF Inv, Shape, Located
<1>11. Chain'
  BY <1>1, <1>3, <1>6, RequestsAssumption DEF Inv, Shape, Chain
<1>12. Refusals'
  BY <1>2, <1>3, <1>6 DEF Inv, Shape, Refusals
<1> QED
  BY <1>2, <1>5, <1>8, <1>9, <1>10, <1>11, <1>12 DEF Inv

(* A whois query goes out. *)
LEMMA SendQueryInv ==
    ASSUME Inv, NEW r \in Request, SendQuery(r)
    PROVE  Inv'
<1>1. /\ UNCHANGED <<account, header, map, counter, located, server, follows, text, answer>>
      /\ pc[r] = "query" /\ pc' = [pc EXCEPT ![r] = "whois"]
      /\ queries' = [queries EXCEPT ![r] = queries[r] + 1]
  BY DEF SendQuery, Goto, login, cacheVars
<1>2. LoginTypeOK' /\ CacheInv' /\ Admission' = Admission
  BY <1>1, LoginAndCacheKept
<1>3. Requests[r].route = "whois" /\ Admission = 200
  BY <1>1, AtItsPlace DEF WhoisPlaces
<1>4. Shape'
  BY <1>1 DEF Inv, Shape, LocationPlaces, WhoisPlaces
<1>5. Routes' /\ Located'
  BY <1>1, <1>3 DEF Inv, Shape, Routes, Located, LocationPlaces, WhoisPlaces
<1>6. Chain'
  <2>1. queries[r] + follows[r] = MaxFollows /\ queries[r] \in Nat /\ follows[r] \in Nat
    BY <1>1 DEF Inv, Shape, Chain
  <2>2. answer'[r].status = 0
    BY <1>1 DEF Inv, Shape
  <2>3. queries'[r] + follows'[r] = MaxFollows + 1
    BY <1>1, <2>1, RequestsAssumption DEF Inv, Shape
  <2>4. \A q \in Request \ {r} : queries'[q] = queries[q] /\ pc'[q] = pc[q]
    BY <1>1 DEF Inv, Shape
  <2> QED
    BY <1>1, <2>2, <2>3, <2>4 DEF Inv, Shape, Chain
<1>7. Refusals'
  BY <1>1, <1>2, <1>3 DEF Inv, Shape, Refusals
<1> QED
  BY <1>2, <1>4, <1>5, <1>6, <1>7 DEF Inv

(* A whois server answers or fails: the request ends or follows a referral. *)
LEMMA WhoisAnswerInv ==
    ASSUME Inv, NEW r \in Request, ReceiveText(r) \/ WhoisFails(r)
    PROVE  Inv'
<1>1. UNCHANGED <<account, header, map, counter, located, queries>> /\ pc[r] = "whois"
  BY DEF ReceiveText, WhoisFails, login, cacheVars, whois
<1>2. LoginTypeOK' /\ CacheInv' /\ Admission' = Admission
  BY <1>1, LoginAndCacheKept
<1>3. Requests[r].route = "whois" /\ Admission = 200
  BY <1>1, AtItsPlace DEF WhoisPlaces
<1> DEFINE Outcome(t) ==
        /\ text' = [text EXCEPT ![r] = t]
        /\ \/ /\ pc' = [pc EXCEPT ![r] = "done"] /\ UNCHANGED <<server, follows>>
              /\ \/ answer' = [answer EXCEPT ![r] = [status |-> 404, body |-> Nothing]]
                 \/ /\ answer' = [answer EXCEPT ![r] = [status |-> 200, body |-> t]]
                    /\ follows[r] = 0 \/ ~Leads(t, server[r])
           \/ /\ pc' = [pc EXCEPT ![r] = "query"] /\ UNCHANGED answer
              /\ follows[r] # 0
              /\ follows' = [follows EXCEPT ![r] = follows[r] - 1]
              /\ \E s \in [host : Host, port : {"43"}] : server' = [server EXCEPT ![r] = s]
<1>4. \E t \in Text : Outcome(t)
  <2>1. CASE WhoisFails(r)
    <3>1. text[r] \in Text /\ text = [text EXCEPT ![r] = text[r]]
      BY DEF Inv, Shape
    <3>2. Outcome(text[r])
      BY <2>1, <3>1 DEF WhoisFails, Respond, Goto, whois
    <3> QED
      BY <3>1, <3>2
  <2>2. CASE ReceiveText(r)
    <3>1. PICK t \in Text :
            /\ text' = [text EXCEPT ![r] = t]
            /\ CASE follows[r] = 0 \/ ~Leads(t, server[r]) ->
                      Respond(r, 200, t) /\ UNCHANGED <<server, follows>>
                 [] follows[r] > 0 /\ Leads(t, server[r]) /\ t.port = "bad" ->
                      Respond(r, 404, Nothing) /\ UNCHANGED <<server, follows>>
                 [] OTHER ->
                      /\ server' = [server EXCEPT ![r] = Parsed(t)]
                      /\ follows' = [follows EXCEPT ![r] = @ - 1]
                      /\ Goto(r, "query")
                      /\ UNCHANGED answer
      BY <2>2 DEF ReceiveText
    <3>2. follows[r] \in Nat
      BY DEF Inv, Shape
    <3>3. ASSUME follows[r] = 0 \/ ~Leads(t, server[r]) PROVE Outcome(t)
      <4>1. Respond(r, 200, t) /\ UNCHANGED <<server, follows>>
        BY <3>1, <3>2, <3>3
      <4> QED
        BY <3>1, <3>3, <4>1 DEF Respond, Goto
    <3>4. ASSUME follows[r] > 0, Leads(t, server[r]), t.port = "bad" PROVE Outcome(t)
      <4>1. Respond(r, 404, Nothing) /\ UNCHANGED <<server, follows>>
        BY <3>1, <3>2, <3>4
      <4> QED
        BY <3>1, <4>1 DEF Respond, Goto
    <3>5. ASSUME follows[r] > 0, Leads(t, server[r]), t.port # "bad" PROVE Outcome(t)
      <4>1. t \in Referral
        BY <3>5 DEF Leads, Text
      <4>2. Parsed(t) \in [host : Host, port : {"43"}]
        BY <3>5, <4>1 DEF Parsed, Referral
      <4>3. /\ server' = [server EXCEPT ![r] = Parsed(t)]
            /\ follows' = [follows EXCEPT ![r] = follows[r] - 1]
            /\ Goto(r, "query") /\ UNCHANGED answer
        BY <3>1, <3>2, <3>5
      <4>4. \E s \in [host : Host, port : {"43"}] : server' = [server EXCEPT ![r] = s]
        BY <4>2, <4>3
      <4>5. pc' = [pc EXCEPT ![r] = "query"] /\ follows[r] # 0
        BY <3>2, <3>5, <4>3 DEF Goto
      <4>6. text' = [text EXCEPT ![r] = t]
        BY <3>1
      <4> QED
        BY <4>3, <4>4, <4>5, <4>6, Zenon
    <3> QED
      BY <3>2, <3>3, <3>4, <3>5
  <2> QED
    BY <2>1, <2>2
<1>5. Shape'
  <2> DEFINE Typed ==
        /\ pc' \in [Request -> {"arrived", "done"} \cup LocationPlaces \cup WhoisPlaces]
        /\ answer' \in [Request -> [status : {0, 200, 400, 401, 404, 500}, body : Value \cup Text]]
        /\ \A q \in Request : answer'[q].status = 0 <=> pc'[q] # "done"
  <2>1. Shape /\ Nothing \in Value \cup Text /\ pc[r] # "done"
    BY <1>1 DEF Inv, Text
  <2>2. Typed
    BY <1>4, <2>1, RespondTyped, GotoTyped DEF LocationPlaces, WhoisPlaces
  <2>3. text' \in [Request -> Text] /\ server' \in [Request -> [host : Host, port : {"43"}]]
    BY <1>4, <2>1 DEF Shape
  <2>4. follows' \in [Request -> 0 .. MaxFollows]
    <3>1. follows[r] \in 0 .. MaxFollows /\ (follows[r] # 0 => follows[r] - 1 \in 0 .. MaxFollows)
      BY <2>1, RequestsAssumption DEF Shape
    <3>2. \E n \in 0 .. MaxFollows : follows' = [follows EXCEPT ![r] = n] \/ follows' = follows
      BY <1>4, <3>1
    <3> QED
      BY <2>1, <3>2 DEF Shape
  <2> QED
    BY <1>1, <2>1, <2>2, <2>3, <2>4 DEF Shape
<1>6. Routes' /\ Located'
  BY <1>1, <1>3, <1>4 DEF Inv, Shape, Routes, Located, LocationPlaces, WhoisPlaces
<1>7. Chain'
  <2>1. queries[r] + follows[r] = MaxFollows + 1 /\ queries[r] \in Nat /\ follows[r] \in Nat
    BY <1>1 DEF Inv, Shape, Chain
  <2>2. \A q \in Request \ {r} :
          /\ pc'[q] = pc[q] /\ queries'[q] = queries[q] /\ follows'[q] = follows[q]
          /\ text'[q] = text[q] /\ server'[q] = server[q] /\ answer'[q] = answer[q]
    BY <1>1, <1>4 DEF Inv, Shape
  <2>3. /\ pc'[r] \in {"arrived", "query"} => queries'[r] + follows'[r] = MaxFollows
        /\ pc'[r] # "whois"
        /\ queries'[r] + follows'[r] \in {MaxFollows, MaxFollows + 1}
    <3>1. \/ pc'[r] = "done" /\ follows'[r] = follows[r]
          \/ pc'[r] = "query" /\ follows'[r] = follows[r] - 1
      BY <1>4 DEF Inv, Shape
    <3> QED
      BY <1>1, <2>1, <3>1, RequestsAssumption
  <2>4. ASSUME answer'[r].status = 200
        PROVE  /\ queries'[r] + follows'[r] = MaxFollows + 1
               /\ answer'[r].body = text'[r]
               /\ follows'[r] = 0 \/ ~Leads(text'[r], server'[r])
    <3>1. answer[r].status = 0
      BY <1>1 DEF Inv, Shape
    <3> QED
      BY <1>1, <1>4, <2>1, <2>4, <3>1 DEF Inv, Shape
  <2> QED
    BY <2>2, <2>3, <2>4 DEF Inv, Chain
<1>8. Refusals'
  BY <1>2, <1>3, <1>4 DEF Inv, Shape, Refusals
<1> QED
  BY <1>2, <1>5, <1>6, <1>7, <1>8 DEF Inv

(* Every step keeps the invariant. *)
LEMMA StepInv == Inv /\ [Next]_vars => Inv'
<1> SUFFICES ASSUME Inv, [Next]_vars PROVE Inv'
  OBVIOUS
<1>1. CASE Next
  <2>1. PICK r \in Request : Handle(r)
    BY <1>1 DEF Next
  <2> QED
    BY <2>1, ArriveInv, LocationStepInv, StoreInv, SendQueryInv, WhoisAnswerInv DEF Handle
<1>2. CASE UNCHANGED vars
  <2>1. UNCHANGED <<account, header, map, counter>> /\ UNCHANGED pc /\ UNCHANGED located
        /\ UNCHANGED <<server, follows, queries, text>> /\ UNCHANGED answer
    BY <1>2 DEF vars, login, cacheVars, whois
  <2> QED
    BY <2>1, LoginAndCacheKept DEF Inv, Shape, Routes, Located, Chain, Refusals
<1> QED
  BY <1>1, <1>2

(* The invariant holds in every state that can be reached. *)
LEMMA InvHolds == Spec => []Inv
  BY InitInv, StepInv, PTL DEF Spec

-----------------------------------------------------------------------------
(* The requests and the cache keep their types, for any number of requests  *)
(* that race for it.                                                        *)
THEOREM RequestTypesHold == Spec => []TypeOK
<1>1. Inv => TypeOK
  BY DEF Inv, CacheInv, Shape, Located, TypeOK, Done, LocationPlaces, WhoisPlaces
<1> QED
  BY <1>1, InvHolds, PTL

(* The handlers are open to exactly those who know user and password,      *)
(* whatever colons the password has.                                       *)
THEOREM LoginWorks == Spec => []LoginIsExact
<1>1. Inv => LoginIsExact
  <2> SUFFICES ASSUME Inv, Colons(account.user) = {}, NEW r \in Request,
                      pc[r] # "arrived", Requests[r].route # "health"
               PROVE  answer[r].status \in {400, 401} <=> ~Admitted
    BY DEF LoginIsExact, Admitted
  <2>1. Admission = 200 <=> Admitted
    BY AdmissionIsExact DEF Inv
  <2> QED
    BY <2>1 DEF Inv, Refusals
<1> QED
  BY <1>1, InvHolds, PTL

(* No request is told the location of another IP. *)
THEOREM LocationsAreRight == Spec => []LocationsMatchIps
<1>1. Inv => LocationsMatchIps
  BY DEF Inv, Located, LocationsMatchIps
<1> QED
  BY <1>1, InvHolds, PTL

(* Whois chains end, at the answer that leads no further or at the limit. *)
THEOREM WhoisChainsEnd == Spec => []WhoisIsFinal
<1>1. Inv => WhoisIsFinal
  <2> SUFFICES ASSUME Inv, NEW r \in Request, Requests[r].route = "whois"
               PROVE  /\ queries[r] <= MaxFollows + 1
                      /\ answer[r].status = 200 /\ queries[r] <= MaxFollows =>
                           answer[r].body = text[r] /\ ~Leads(answer[r].body, server[r])
    BY DEF WhoisIsFinal
  <2>1. queries[r] \in Nat /\ follows[r] \in Nat
    BY DEF Inv, Shape
  <2> QED
    BY <2>1, RequestsAssumption DEF Inv, Chain
<1> QED
  BY <1>1, InvHolds, PTL

(* However requests race for the cache of locations, it behaves like a     *)
(* queue: what was written longest ago goes first.                         *)
THEOREM CacheOfLocationsIsFifo == Spec => ImplementsFifo
<1>1. Init => Fifo!FifoInit
  BY QueueIsEmpty DEF Init
<1>2. Inv /\ [Next]_vars => [Fifo!FifoInsert]_Queue
  <2> SUFFICES ASSUME Inv, [Next]_vars PROVE [Fifo!FifoInsert]_Queue
    OBVIOUS
  <2>1. ASSUME NEW r \in Request, Store(r) PROVE Fifo!FifoInsert
    <3>1. pc[r] = "store" /\ Insert(Requests[r].ip, located[r])
      BY <2>1 DEF Store
    <3>2. Requests[r].ip \in Key /\ located[r] \in Value
      BY <3>1, RequestTypes DEF Inv, Shape, Located
    <3> QED
      BY <3>1, <3>2, InsertIsFifo DEF Inv
  <2>2. ASSUME NEW r \in Request, Handle(r), ~Store(r) PROVE UNCHANGED cacheVars
    BY <2>2 DEF Handle, Arrive, CheckCache, SendRequest, ReceiveLocation, LocationFails,
                SendQuery, ReceiveText, WhoisFails
  <2>3. CASE Next
    BY <2>1, <2>2, <2>3, QueueUnchanged DEF Next
  <2>4. CASE UNCHANGED vars
    BY <2>4, QueueUnchanged DEF vars
  <2> QED
    BY <2>3, <2>4
<1> QED
  BY <1>1, <1>2, InvHolds, PTL DEF Spec, ImplementsFifo, Fifo!FifoSpec
=============================================================================
