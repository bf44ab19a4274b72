-------------------------- MODULE DnsLookup_proofs --------------------------
(***************************************************************************)
(* Proofs about reverse lookups, for any batch, any number of single       *)
(* requests, any ports, and a cache of any size.                           *)
(***************************************************************************)
EXTENDS DnsLookup, CacheMap_proofs, SequenceTheorems

-----------------------------------------------------------------------------
(***************************************************************************)
(* Message IDs.                                                            *)
(***************************************************************************)
(* The ID of the query that is sent after k others. *)
NthId(k) == IF k + 1 = IdCount THEN 0 ELSE k + 1

(* The counter starts with the first ID, and goes to the next. *)
LEMMA IdsCount ==
    /\ 1 % IdCount = NthId(0)
    /\ \A k \in Nat : k + 1 < IdCount => (NthId(k) + 1) % IdCount = NthId(k + 1)
    /\ \A id \in Nat : (id + 1) % IdCount \in 0 .. IdCount - 1
BY LookupAssumption DEF NthId

(* No two of the first IdCount queries have the same ID. *)
LEMMA IdsDiffer ==
    \A j, k \in 0 .. IdCount - 1 : NthId(j) = NthId(k) => j = k
BY LookupAssumption DEF NthId

-----------------------------------------------------------------------------
(***************************************************************************)
(* The invariant.                                                          *)
(***************************************************************************)
Places == {"check", "send", "wait", "store", "done"}
Id == 0 .. IdCount - 1

(* Everything has its type. *)
Shape ==
    /\ batch \in Batches
    /\ nextId \in Id
    /\ pc \in [Task -> Places]
    /\ query \in [Task -> [port : Port, id : Id] \cup {NoQuery}]
    /\ \A t \in Task : pc[t] = "wait" => query[t] \in [port : Port, id : Id]
    /\ asked \subseteq [port : Port, id : Id, ip : Ip]

(* What a task found out is about its own IP, and so is what is cached. *)
Found ==
    /\ result \in [Task -> Host \cup {Failed}]
    /\ \A t \in Task : /\ result[t] \in {Ips[t], NoHost, Failed}
                       /\ pc[t] = "store" => result[t] # Failed
    /\ \A ip \in DOMAIN map : map[ip].value \in {ip, NoHost}

(* What the batch handler joined are results for its IPs, in their order. *)
Joined ==
    /\ results \in Seq(Host)
    /\ Len(results) <= Len(batch)
    /\ \A i \in 1 .. Len(results) : results[i] \in {batch[i], NoHost}
    /\ status \in {0, 200, 400}
    /\ status = 200 => Len(results) = Len(batch)

(* The tasks that have not sent their query yet. *)
Unsent == {t \in Task : pc[t] \in {"check", "send"}}

(* After n queries, with as many IDs left as there are tasks to use them,  *)
(* the queries carry the first n IDs.                                      *)
IdsUsed(n) ==
    /\ n + Cardinality(Unsent) <= IdCount
    /\ n < IdCount => nextId = NthId(n)
    /\ \A q \in asked : \E k \in 0 .. n - 1 : q.id = NthId(k)
    /\ \A t \in Waiting : \E k \in 0 .. n - 1 : query[t].id = NthId(k)

(* A query that carries the ID of a waiting task is the query of the task. *)
IdsMatch == \A t \in Waiting : \A q \in asked : q.id = query[t].id => q.ip = Ips[t]

Inv ==
    /\ CacheInv /\ Shape /\ Found /\ Joined
    /\ \E n \in Nat : IdsUsed(n)
    /\ IdsMatch

(* The tasks: first those of the batch, then the others. *)
LEMMA TaskIps ==
    ASSUME batch \in Batches
    PROVE  /\ Ips \in Seq(Ip) /\ Len(Ips) \in Nat
           /\ Len(Ips) <= MaxBatch + Len(Singles)
           /\ \A t \in Task : Ips[t] \in Ip
           /\ Accepted => \A i \in 1 .. Len(batch) : i \in Task /\ Ips[i] = batch[i]
<1> DEFINE b == IF Accepted THEN batch ELSE <<>>
<1>1. batch \in Seq(Ip) /\ Singles \in Seq(Ip) /\ Len(Singles) \in Nat /\ Len(batch) \in Nat
  BY LookupAssumption, LenProperties
<1>2. b \in Seq(Ip) /\ Len(b) \in Nat /\ Len(b) <= MaxBatch
  BY <1>1, LookupAssumption, EmptySeq DEF Accepted
<1>3. Accepted => b = batch
  OBVIOUS
<1>4. Ips = b \o Singles
  BY DEF Ips
<1> HIDE DEF b
<1>5. /\ Ips \in Seq(Ip) /\ Len(Ips) = Len(b) + Len(Singles)
      /\ \A i \in 1 .. Len(b) + Len(Singles) : Ips[i] = IF i <= Len(b) THEN b[i] ELSE Singles[i - Len(b)]
  BY <1>1, <1>2, <1>4, ConcatProperties
<1>6. \A t \in Task : Ips[t] \in Ip
  BY <1>5, ElementOfSeq DEF Task
<1>7. ASSUME Accepted, NEW i \in 1 .. Len(batch) PROVE i \in Task /\ Ips[i] = batch[i]
  BY <1>1, <1>3, <1>5, <1>7 DEF Task
<1> QED
  BY <1>1, <1>2, <1>5, <1>6, <1>7, LookupAssumption

(* The batch, and with it the tasks, never change. *)
LEMMA TasksStay ==
    ASSUME UNCHANGED batch
    PROVE  Ips' = Ips /\ Task' = Task /\ Accepted' = Accepted
BY DEF Ips, Task, Accepted

(* There are finitely many tasks. *)
LEMMA TasksFinite ==
    ASSUME batch \in Batches
    PROVE  /\ IsFiniteSet(Task) /\ IsFiniteSet(Unsent) /\ Cardinality(Unsent) \in Nat
           /\ Cardinality(Task) = Len(Ips)
<1>1. IsFiniteSet(Task) /\ Cardinality(Task) = Len(Ips)
  <2>1. Len(Ips) \in Nat
    BY TaskIps
  <2>2. Cardinality(1 .. Len(Ips)) = IF 1 > Len(Ips) THEN 0 ELSE Len(Ips) - 1 + 1
    BY <2>1, FS_Interval
  <2>3. IsFiniteSet(1 .. Len(Ips))
    BY <2>1, FS_Interval
  <2> QED
    BY <2>1, <2>2, <2>3 DEF Task
<1>2. Unsent \subseteq Task
  BY DEF Unsent
<1> QED
  BY <1>1, <1>2, FS_Subset, FS_CardinalityType

(* At the beginning nothing is asked, cached or joined. *)
LEMMA InitInv == Init => Inv
<1> SUFFICES ASSUME Init PROVE Inv
  OBVIOUS
<1>1. batch \in Batches
  BY DEF Init
<1>2. CacheInv
  BY InitEstablishesInv DEF Init
<1>3. Shape
  <2>1. 0 \in Nat /\ 1 % IdCount \in Id
    BY IdsCount DEF Id
  <2> QED
    BY <1>1, <2>1 DEF Init, Shape, Places
<1>4. Found
  BY <1>1, TaskIps DEF Init, CacheInit, Found
<1>5. Joined
  <2>1. batch \in Seq(Ip)
    BY <1>1, LookupAssumption
  <2> QED
    BY <2>1, LenProperties, EmptySeq DEF Init, Joined
<1>6. IdsUsed(0)
  <2>1. Unsent = Task /\ Waiting = {}
    BY DEF Init, Unsent, Waiting
  <2>2. Cardinality(Unsent) <= IdCount
    BY <1>1, <2>1, TaskIps, TasksFinite, LenProperties, LookupAssumption
  <2>3. Cardinality(Unsent) \in Nat
    BY <1>1, TasksFinite
  <2> QED
    BY <2>1, <2>2, <2>3, IdsCount, LookupAssumption DEF Init, IdsUsed
<1>7. IdsMatch
  BY DEF Init, IdsMatch
<1> QED
  BY <1>2, <1>3, <1>4, <1>5, <1>6, <1>7 DEF Inv

(* A cached name is one of the IP that was looked up. *)
LEMMA CheckCacheInv ==
    ASSUME Inv, NEW t \in Task, CheckCache(t)
    PROVE  Inv'
<1>1. /\ UNCHANGED <<batch, map, counter, nextId, query, asked, results, status>>
      /\ pc[t] = "check"
  BY DEF CheckCache, cacheVars, joined
<1>2. Ips' = Ips /\ Task' = Task
  BY <1>1, TasksStay
<1>3. \/ /\ pc' = [pc EXCEPT ![t] = "done"]
         /\ \E host \in Host : /\ result' = [result EXCEPT ![t] = host]
                               /\ host \in {Ips[t], NoHost}
      \/ pc' = [pc EXCEPT ![t] = "send"] /\ UNCHANGED result
  <2>1. CASE Cached(Ips[t])
    <3>1. map[Ips[t]].value \in Host /\ map[Ips[t]].value \in {Ips[t], NoHost}
      BY <2>1 DEF Cached, Inv, CacheInv, CacheTypeOK, Entry, Found, Host
    <3> QED
      BY <2>1, <3>1 DEF CheckCache
  <2> QED
    BY <2>1 DEF CheckCache
<1>4. CacheInv'
  BY <1>1 DEF Inv, CacheInv, CacheTypeOK, StampsUnique, SizeBound
<1>5. Shape'
  BY <1>1, <1>2, <1>3 DEF Inv, Shape, Places
<1>6. Found'
  BY <1>1, <1>2, <1>3 DEF Inv, Shape, Found
<1>7. Joined'
  BY <1>1 DEF Inv, Joined
<1>8. Waiting' = Waiting
  BY <1>1, <1>2, <1>3 DEF Inv, Shape, Waiting
<1>9. \E n \in Nat : IdsUsed(n)'
  <2>1. PICK n \in Nat : IdsUsed(n)
    BY DEF Inv
  <2>2. Unsent' \subseteq Unsent
    BY <1>1, <1>2, <1>3 DEF Inv, Shape, Unsent
  <2>3. Cardinality(Unsent') <= Cardinality(Unsent) /\ Cardinality(Unsent') \in Nat
    BY <2>2, TasksFinite, FS_Subset, FS_CardinalityType DEF Inv, Shape
  <2>4. n + Cardinality(Unsent') <= IdCount
    BY <2>1, <2>3, TasksFinite, LookupAssumption DEF IdsUsed, Inv, Shape
  <2> QED
    BY <1>1, <1>8, <2>1, <2>4 DEF IdsUsed
<1>10. IdsMatch'
  BY <1>1, <1>2, <1>8 DEF Inv, IdsMatch
<1> QED
  BY <1>4, <1>5, <1>6, <1>7, <1>9, <1>10 DEF Inv

(* Each task takes one ID; there is one left, and nobody else had it. *)
LEMMA TakeIdStep ==
    ASSUME Inv, NEW t \in Task, pc[t] = "send", TakeId, UNCHANGED batch,
           NEW place \in {"wait", "done"}, pc' = [pc EXCEPT ![t] = place],
           NEW n \in Nat, IdsUsed(n)
    PROVE  /\ n < IdCount /\ nextId = NthId(n) /\ nextId' \in Id
           /\ n + 1 + Cardinality(Unsent') <= IdCount
           /\ n + 1 < IdCount => nextId' = NthId(n + 1)
<1>1. batch \in Batches /\ nextId \in Nat
  BY LookupAssumption DEF Inv, Shape, Id
<1>2. Task' = Task
  BY TasksStay
<1>3. t \in Unsent /\ Unsent' = Unsent \ {t}
  BY <1>2 DEF Inv, Shape, Unsent
<1>4. IsFiniteSet(Unsent) /\ Cardinality(Unsent) \in Nat
  BY <1>1, TasksFinite
<1>5. Cardinality(Unsent') = Cardinality(Unsent) - 1 /\ Cardinality(Unsent') \in Nat
  BY <1>3, <1>4, FS_RemoveElement, FS_CardinalityType
<1>6. n < IdCount /\ n + 1 + Cardinality(Unsent') <= IdCount
  BY <1>4, <1>5, LookupAssumption DEF IdsUsed
<1>7. nextId = NthId(n)
  BY <1>6 DEF IdsUsed
<1>8. nextId' \in Id
  BY <1>1, IdsCount DEF TakeId, Id
<1>9. n + 1 < IdCount => nextId' = NthId(n + 1)
  BY <1>7, IdsCount DEF TakeId
<1> QED
  BY <1>6, <1>7, <1>8, <1>9

(* A new query has an ID that no other query has. *)
LEMMA SendInv ==
    ASSUME Inv, NEW t \in Task, Send(t)
    PROVE  Inv'
<1>1. /\ UNCHANGED <<batch, map, counter, result, results, status>>
      /\ pc[t] = "send" /\ pc' = [pc EXCEPT ![t] = "wait"] /\ TakeId
  BY DEF Send, cacheVars, joined
<1>2. Ips' = Ips /\ Task' = Task
  BY <1>1, TasksStay
<1>3. PICK n \in Nat : IdsUsed(n)
  BY DEF Inv
<1>4. /\ n < IdCount /\ nextId = NthId(n) /\ nextId' \in Id
      /\ n + 1 + Cardinality(Unsent') <= IdCount
      /\ n + 1 < IdCount => nextId' = NthId(n + 1)
  BY <1>1, <1>3, TakeIdStep
<1>5. PICK p \in Port :
        /\ query' = [query EXCEPT ![t] = [port |-> p, id |-> nextId]]
        /\ asked' \in {asked, asked \cup {[port |-> p, id |-> nextId, ip |-> Ips[t]]}}
  BY DEF Send, FreePort
<1>6. CacheInv'
  BY <1>1 DEF Inv, CacheInv, CacheTypeOK, StampsUnique, SizeBound
<1>7. Shape'
  <2>1. Ips[t] \in Ip
    BY TaskIps DEF Inv, Shape
  <2> QED
    BY <1>1, <1>2, <1>4, <1>5, <2>1 DEF Inv, Shape, Places
<1>8. Found' /\ Joined'
  BY <1>1, <1>2 DEF Inv, Shape, Found, Joined
<1>9. Waiting' = Waiting \cup {t} /\ t \notin Waiting
  BY <1>1, <1>2 DEF Inv, Shape, Waiting
<1>10. query'[t].id = NthId(n) /\ \A s \in Task \ {t} : query'[s] = query[s]
  BY <1>4, <1>5 DEF Inv, Shape
<1>11. \A q \in asked' : q \in asked \/ (q.id = NthId(n) /\ q.ip = Ips[t])
  BY <1>4, <1>5
<1>12. IdsUsed(n + 1)'
  <2>1. ASSUME NEW q \in asked' PROVE \E k \in 0 .. n : q.id = NthId(k)
    BY <1>3, <1>11 DEF IdsUsed
  <2>2. ASSUME NEW s \in Waiting' PROVE \E k \in 0 .. n : query'[s].id = NthId(k)
    BY <1>3, <1>9, <1>10 DEF IdsUsed, Waiting
  <2> QED
    BY <1>4, <2>1, <2>2 DEF IdsUsed
<1>13. IdsMatch'
  <2> SUFFICES ASSUME NEW s \in Waiting', NEW q \in asked', q.id = query'[s].id
               PROVE  q.ip = Ips[s]
    BY <1>2 DEF IdsMatch
  <2>1. \A k \in 0 .. n - 1 : NthId(k) # NthId(n)
    BY <1>4, IdsDiffer, LookupAssumption
  <2>2. q \in asked => q.id # NthId(n)
    BY <1>3, <2>1 DEF IdsUsed
  <2>3. s # t => s \in Waiting /\ query'[s] = query[s] /\ query[s].id # NthId(n)
    BY <1>3, <1>9, <1>10, <2>1 DEF IdsUsed, Waiting
  <2> QED
    BY <1>10, <1>11, <2>2, <2>3 DEF Inv, IdsMatch
<1> QED
  BY <1>3, <1>6, <1>7, <1>8, <1>12, <1>13 DEF Inv

(* A task that cannot send has used up an ID. *)
LEMMA SendFailsInv ==
    ASSUME Inv, NEW t \in Task, SendFails(t)
    PROVE  Inv'
<1>1. /\ UNCHANGED <<batch, map, counter, query, result, asked, results, status>>
      /\ pc[t] = "send" /\ pc' = [pc EXCEPT ![t] = "done"] /\ TakeId
  BY DEF SendFails, cacheVars, joined
<1>2. Ips' = Ips /\ Task' = Task
  BY <1>1, TasksStay
<1>3. PICK n \in Nat : IdsUsed(n)
  BY DEF Inv
<1>4. /\ nextId' \in Id
      /\ n + 1 + Cardinality(Unsent') <= IdCount
      /\ n + 1 < IdCount => nextId' = NthId(n + 1)
  BY <1>1, <1>3, TakeIdStep
<1>5. CacheInv'
  BY <1>1 DEF Inv, CacheInv, CacheTypeOK, StampsUnique, SizeBound
<1>6. Shape'
  BY <1>1, <1>2, <1>4 DEF Inv, Shape, Places
<1>7. Found' /\ Joined'
  BY <1>1, <1>2 DEF Inv, Shape, Found, Joined
<1>8. Waiting' = Waiting
  BY <1>1, <1>2 DEF Inv, Shape, Waiting
<1>9. IdsUsed(n + 1)'
  <2>1. 0 .. n - 1 \subseteq 0 .. n
    OBVIOUS
  <2> QED
    BY <1>1, <1>3, <1>4, <1>8, <2>1 DEF IdsUsed
<1>10. IdsMatch'
  BY <1>1, <1>2, <1>8 DEF Inv, IdsMatch
<1> QED
  BY <1>3, <1>5, <1>6, <1>7, <1>9, <1>10 DEF Inv

(* An answer is only accepted when it answers the query of the task. *)
LEMMA ReceiveInv ==
    ASSUME Inv, NEW t \in Task, Receive(t) \/ Timeout(t)
    PROVE  Inv'
<1>1. /\ UNCHANGED <<batch, map, counter, nextId, asked, results, status>>
      /\ pc[t] = "wait" /\ query' = [query EXCEPT ![t] = NoQuery]
  BY DEF Receive, Timeout, cacheVars, joined
<1>2. Ips' = Ips /\ Task' = Task
  BY <1>1, TasksStay
<1>3. \/ UNCHANGED result /\ pc' = [pc EXCEPT ![t] = "done"]
      \/ \E r \in {Ips[t], NoHost, Failed} :
            /\ result' = [result EXCEPT ![t] = r]
            /\ pc' = [pc EXCEPT ![t] = IF r = Failed THEN "done" ELSE "store"]
  <2>1. CASE Timeout(t)
    BY <2>1 DEF Timeout
  <2>2. CASE Receive(t)
    <3>1. PICK q \in asked, kind \in Kind :
            LET r == IF q.id = query[t].id THEN Outcome(kind, q.ip) ELSE Failed
            IN  /\ result' = [result EXCEPT ![t] = r]
                /\ pc' = [pc EXCEPT ![t] = IF r = Failed THEN "done" ELSE "store"]
      BY <2>2 DEF Receive
    <3> DEFINE r == IF q.id = query[t].id THEN Outcome(kind, q.ip) ELSE Failed
    <3>2. t \in Waiting
      BY <1>1 DEF Waiting
    <3>3. q.id = query[t].id => q.ip = Ips[t]
      BY <3>2 DEF Inv, IdsMatch
    <3>4. r \in {Ips[t], NoHost, Failed}
      BY <3>3 DEF Outcome, Kind
    <3> HIDE DEF r
    <3>5. /\ result' = [result EXCEPT ![t] = r]
          /\ pc' = [pc EXCEPT ![t] = IF r = Failed THEN "done" ELSE "store"]
      BY <3>1 DEF r
    <3> QED
      BY <3>4, <3>5
  <2> QED
    BY <2>1, <2>2
<1>4. CacheInv'
  BY <1>1 DEF Inv, CacheInv, CacheTypeOK, StampsUnique, SizeBound
<1>5. pc' = [pc EXCEPT ![t] = pc'[t]] /\ pc'[t] \in {"done", "store"}
  BY <1>3 DEF Inv, Shape
<1>6. Shape'
  BY <1>1, <1>2, <1>5 DEF Inv, Shape, Places
<1>7. Found'
  <2>1. {Ips[t], NoHost, Failed} \subseteq Host \cup {Failed}
    BY TaskIps, LookupAssumption DEF Inv, Shape
  <2> QED
    BY <1>1, <1>2, <1>3, <2>1 DEF Inv, Shape, Found
<1>8. Joined'
  BY <1>1 DEF Inv, Joined
<1>9. Waiting' = Waiting \ {t} /\ Unsent' = Unsent
  BY <1>1, <1>2, <1>5 DEF Inv, Shape, Waiting, Unsent
<1>10. \A s \in Waiting' : s \in Waiting /\ query'[s] = query[s]
  BY <1>1, <1>9 DEF Inv, Shape, Waiting
<1>11. \E n \in Nat : IdsUsed(n)'
  BY <1>1, <1>9, <1>10 DEF Inv, IdsUsed
<1>12. IdsMatch'
  BY <1>1, <1>2, <1>10 DEF Inv, IdsMatch
<1> QED
  BY <1>4, <1>6, <1>7, <1>8, <1>11, <1>12 DEF Inv

(* The cache takes a name for the IP that was looked up. *)
LEMMA StoreInv ==
    ASSUME Inv, NEW t \in Task, Store(t)
    PROVE  Inv'
<1>1. /\ UNCHANGED <<batch, nextId, query, result, asked, results, status>>
      /\ pc[t] = "store" /\ pc' = [pc EXCEPT ![t] = "done"]
      /\ Insert(Ips[t], result[t])
  BY DEF Store, joined
<1>2. Ips' = Ips /\ Task' = Task
  BY <1>1, TasksStay
<1>3. Ips[t] \in Key /\ result[t] \in Value /\ result[t] \in {Ips[t], NoHost}
  BY <1>1, TaskIps DEF Inv, Shape, Found, Ip, Host
<1>4. CacheInv'
  BY <1>1, <1>3, InsertKeepsInv DEF Inv
<1>5. Shape'
  BY <1>1, <1>2 DEF Inv, Shape, Places
<1>6. \A ip \in DOMAIN map' : map'[ip].value \in {ip, NoHost}
  <2>1. PICK kept \in SUBSET DOMAIN map : map' = With(kept, Ips[t], result[t])
    BY <1>1, OldestIsKey DEF Insert
  <2>2. DOMAIN map' = kept \cup {Ips[t]}
    BY <2>1, WithDomain
  <2>3. map'[Ips[t]].value = result[t] /\ \A ip \in kept \ {Ips[t]} : map'[ip] = map[ip]
    BY <2>1 DEF With
  <2> QED
    BY <1>3, <2>2, <2>3 DEF Inv, Found
<1>7. Found'
  BY <1>1, <1>2, <1>6 DEF Inv, Shape, Found
<1>8. Joined'
  BY <1>1 DEF Inv, Joined
<1>9. Waiting' = Waiting /\ Unsent' = Unsent
  BY <1>1, <1>2 DEF Inv, Shape, Waiting, Unsent
<1>10. \E n \in Nat : IdsUsed(n)'
  BY <1>1, <1>9 DEF Inv, IdsUsed
<1>11. IdsMatch'
  BY <1>1, <1>2, <1>9 DEF Inv, IdsMatch
<1> QED
  BY <1>4, <1>5, <1>7, <1>8, <1>10, <1>11 DEF Inv

(* The batch handler only changes what it joined and its answer. *)
LEMMA HandlerInv ==
    ASSUME Inv, Join \/ RefuseBatch
    PROVE  Inv'
<1>1. UNCHANGED <<batch, map, counter, nextId, pc, query, result, asked>>
  BY DEF Join, RefuseBatch, cacheVars
<1>2. Ips' = Ips /\ Task' = Task
  BY <1>1, TasksStay
<1>3. CacheInv' /\ Shape' /\ Found' /\ IdsMatch'
  BY <1>1, <1>2 DEF Inv, CacheInv, CacheTypeOK, StampsUnique, SizeBound, Shape, Found, IdsMatch, Waiting
<1>4. \E n \in Nat : IdsUsed(n)'
  BY <1>1, <1>2 DEF Inv, IdsUsed, Unsent, Waiting
<1>5. Joined'
  <2>1. batch \in Seq(Ip) /\ Len(batch) \in Nat
    BY LookupAssumption, LenProperties DEF Inv, Shape
  <2>2. Len(results) \in Nat
    BY LenProperties DEF Inv, Joined
  <2>3. CASE Join /\ Len(results) < Len(batch)
    <3> DEFINE t == Len(results) + 1
               host == IF result[t] = Failed THEN NoHost ELSE result[t]
    <3>1. results' = Append(results, host) /\ UNCHANGED status /\ status = 0 /\ Accepted
      BY <2>3 DEF Join
    <3>2. t \in 1 .. Len(batch)
      BY <2>1, <2>2, <2>3
    <3>3. t \in Task /\ Ips[t] = batch[t]
      BY <3>1, <3>2, TaskIps DEF Inv, Shape
    <3>4. host \in Host /\ host \in {batch[t], NoHost}
      BY <3>3, LookupAssumption DEF Inv, Found
    <3>5. /\ results' \in Seq(Host) /\ Len(results') = t
          /\ \A i \in 1 .. Len(results) : results'[i] = results[i]
          /\ results'[t] = host
      BY <3>1, <3>4, AppendProperties DEF Inv, Joined
    <3> HIDE DEF host
    <3> QED
      BY <1>1, <2>1, <2>2, <3>1, <3>2, <3>4, <3>5 DEF Inv, Joined
  <2>4. CASE Join /\ ~(Len(results) < Len(batch))
    BY <1>1, <2>1, <2>2, <2>4 DEF Join, Inv, Joined
  <2>5. CASE RefuseBatch
    BY <1>1, <2>5 DEF RefuseBatch, Inv, Joined
  <2> QED
    BY <2>3, <2>4, <2>5
<1> QED
  BY <1>3, <1>4, <1>5 DEF Inv

(* Every step keeps the invariant. *)
LEMMA StepInv == Inv /\ [Next]_vars => Inv'
<1> SUFFICES ASSUME Inv, [Next]_vars PROVE Inv'
  OBVIOUS
<1>1. CASE Join \/ RefuseBatch
  BY <1>1, HandlerInv
<1>2. ASSUME NEW t \in Task, Lookup(t) PROVE Inv'
  BY <1>2, CheckCacheInv, SendInv, SendFailsInv, ReceiveInv, StoreInv DEF Lookup
<1>3. CASE UNCHANGED vars
  <2>1. UNCHANGED <<batch, map, counter, nextId, pc, query, result, asked, results, status>>
    BY <1>3 DEF vars, cacheVars, joined
  <2>2. Ips' = Ips /\ Task' = Task
    BY <2>1, TasksStay
  <2>3. CacheInv' /\ Shape' /\ Found' /\ Joined' /\ IdsMatch'
    BY <2>1, <2>2 DEF Inv, CacheInv, CacheTypeOK, StampsUnique, SizeBound, Shape, Found, Joined,
                      IdsMatch, Waiting
  <2>4. \E n \in Nat : IdsUsed(n)'
    BY <2>1, <2>2 DEF Inv, IdsUsed, Unsent, Waiting
  <2> QED
    BY <2>3, <2>4 DEF Inv
<1> QED
  BY <1>1, <1>2, <1>3 DEF Next

(* The invariant holds in every state that can be reached. *)
LEMMA InvHolds == Spec => []Inv
  BY InitInv, StepInv, PTL DEF Spec

-----------------------------------------------------------------------------
(* The lookups keep their types; the message ID wraps around, whatever the  *)
(* number of IDs.                                                           *)
THEOREM LookupTypesHold == Spec => []TypeOK
<1>1. Inv => TypeOK
  BY DEF Inv, CacheInv, Shape, Found, Joined, TypeOK, Waiting, Places, Id
<1> QED
  BY <1>1, InvHolds, PTL

(* No answer, however late, and no entry of the cache gives an IP the name  *)
(* of another one, for any batch and any number of ports.                   *)
THEOREM NamesAreRight == Spec => []NamesMatchIps
<1>1. Inv => NamesMatchIps
  BY DEF Inv, Found, Joined, NamesMatchIps, SingleStatus
<1> QED
  BY <1>1, InvHolds, PTL

(* The cache of names is a queue, however many lookups fill it at once. *)
THEOREM CacheOfNamesIsFifo == Spec => ImplementsFifo
<1>1. Init => Fifo!FifoInit
  BY QueueIsEmpty DEF Init
<1>2. Inv /\ [Next]_vars => [Fifo!FifoInsert]_Queue
  <2> SUFFICES ASSUME Inv, [Next]_vars PROVE [Fifo!FifoInsert]_Queue
    OBVIOUS
  <2>1. ASSUME NEW t \in Task, Store(t) PROVE Fifo!FifoInsert
    <3>1. pc[t] = "store" /\ Insert(Ips[t], result[t])
      BY <2>1 DEF Store
    <3>2. Ips[t] \in Key /\ result[t] \in Value
      BY <3>1, TaskIps DEF Inv, Shape, Found, Ip, Host
    <3> QED
      BY <3>1, <3>2, InsertIsFifo DEF Inv
  <2>2. ASSUME NEW t \in Task, Lookup(t), ~Store(t) PROVE UNCHANGED cacheVars
    BY <2>2 DEF Lookup, CheckCache, Send, SendFails, Receive, Timeout
  <2>3. CASE Join \/ RefuseBatch
    BY <2>3, QueueUnchanged DEF Join, RefuseBatch
  <2>4. CASE \E t \in Task : Lookup(t)
    BY <2>1, <2>2, <2>4, QueueUnchanged
  <2>5. CASE UNCHANGED vars
    BY <2>5, QueueUnchanged DEF vars
  <2> QED
    BY <2>3, <2>4, <2>5 DEF Next
<1> QED
  BY <1>1, <1>2, InvHolds, PTL DEF Spec, ImplementsFifo, Fifo!FifoSpec
=============================================================================
