----------------------------- MODULE DnsLookup -----------------------------
(***************************************************************************)
(* Reverse lookups of IPs: the batch request of the web interface          *)
(* (src/src/http/ips.rs), which runs one task per IP, requests for single  *)
(* IPs beside it, the cache in front of the DNS client                     *)
(* (src/src/dns_client_cached.rs), and the client itself                   *)
(* (src/src/dns_client.rs), which sends each query from a socket of its    *)
(* own and waits for one datagram.                                         *)
(*                                                                         *)
(* The network may lose, delay, duplicate and reorder datagrams, and the   *)
(* operating system gives a port that was closed to a later socket, so an  *)
(* answer may arrive at a socket that never asked for it.  A host name is  *)
(* represented by the IP it belongs to.                                    *)
(***************************************************************************)
EXTENDS CacheMap, Sequences

\* Of CacheMap: the keys are IPs, the values host names, or NoHost.

CONSTANTS
    Port,         \* local UDP ports
    Batches,      \* what the batch request may ask for: sequences of IPs
    MaxBatch,     \* MAX_IP_COUNT
    Singles,      \* the IPs of the single requests
    IdCount,      \* number of message IDs (2^16 in the code)
    NoHost,       \* Ok(None): there is no name for the IP
    Failed        \* Err(_)

Ip == Key
Host == Value

ASSUME LookupAssumption ==
    /\ Host = Ip \cup {NoHost}
    /\ Batches \subseteq Seq(Ip)
    /\ Singles \in Seq(Ip)
    /\ MaxBatch \in Nat
    /\ IdCount \in Nat \ {0}
    \* no message ID comes back while an answer to its last use may be on its way
    /\ MaxBatch + Len(Singles) <= IdCount
    /\ {NoHost, Failed} \cap Ip = {}
    /\ NoHost # Failed

(* What a datagram of the server says: a PTR record, no record (whatever   *)
(* the response code is), or a first record that is no PTR record or does  *)
(* not parse.                                                              *)
Kind == {"ptr", "norecord", "garbage"}

VARIABLES
    batch,        \* the IPs of the batch request, in order
    nextId,       \* next_id
    pc,           \* task -> where it is
    query,        \* task -> [port, id] of its query, while it waits
    result,       \* task -> what host_from_ip returns
    asked,        \* every query that reached the server: [port, id, ip]
    results,      \* the batch handler: results joined so far
    status        \* the batch handler: status of its response, 0 until then

joined == <<results, status>>
vars == <<batch, cacheVars, nextId, pc, query, result, asked, joined>>

(* A task for each IP of the batch, unless there are too many of them, and *)
(* one for each single request.                                            *)
Accepted == Len(batch) <= MaxBatch
Ips == (IF Accepted THEN batch ELSE <<>>) \o Singles
Task == 1 .. Len(Ips)

NoQuery == [port |-> "none", id |-> 0]

Init ==
    /\ batch \in Batches
    /\ CacheInit
    /\ nextId = 1 % IdCount
    /\ pc = [t \in Task |-> "check"]
    /\ query = [t \in Task |-> NoQuery]
    /\ result = [t \in Task |-> Failed]
    /\ asked = {}
    /\ results = <<>>
    /\ status = 0

Waiting == {t \in Task : pc[t] = "wait"}
FreePort == Port \ {query[t].port : t \in Waiting}

(* Look into the cache, under its lock. *)
CheckCache(t) ==
    /\ pc[t] = "check"
    /\ IF Cached(Ips[t])
       THEN /\ result' = [result EXCEPT ![t] = map[Ips[t]].value]
            /\ pc' = [pc EXCEPT ![t] = "done"]
       ELSE /\ pc' = [pc EXCEPT ![t] = "send"]
            /\ UNCHANGED result
    /\ UNCHANGED <<cacheVars, nextId, query, asked, joined, batch>>

(* Mutant: the ID does not wrap. *)
TakeIdUnwrapped == nextId' = nextId + 1

(* fetch_add() on an AtomicU16 wraps around. *)
TakeId == nextId' = (nextId + 1) % IdCount

(* Take a message ID, bind a socket to a free port, send the query.  The   *)
(* query may get lost on the way.                                          *)
Send(t) ==
    /\ pc[t] = "send"
    /\ TakeId
    /\ \E p \in FreePort :
        /\ query' = [query EXCEPT ![t] = [port |-> p, id |-> nextId]]
        /\ asked' \in {asked, asked \cup {[port |-> p, id |-> nextId, ip |-> Ips[t]]}}
    /\ pc' = [pc EXCEPT ![t] = "wait"]
    /\ UNCHANGED <<cacheVars, result, joined, batch>>

(* No port is left to bind. *)
SendFails(t) ==
    /\ pc[t] = "send"
    /\ TakeId
    /\ FreePort = {}
    /\ pc' = [pc EXCEPT ![t] = "done"]
    /\ UNCHANGED <<cacheVars, query, result, asked, joined, batch>>

Outcome(kind, ip) ==
    CASE kind = "ptr" -> ip
      [] kind = "norecord" -> NoHost
      [] kind = "garbage" -> Failed

(* Mutant: the message ID of an answer is not looked at. *)
ReceiveUnchecked(t) ==
    /\ pc[t] = "wait"
    /\ \E q \in asked, kind \in Kind :
        /\ q.port = query[t].port
        /\ LET r == Outcome(kind, q.ip)
           IN  /\ result' = [result EXCEPT ![t] = r]
               /\ pc' = [pc EXCEPT ![t] = IF r = Failed THEN "done" ELSE "store"]
    /\ query' = [query EXCEPT ![t] = NoQuery]
    /\ UNCHANGED <<cacheVars, nextId, asked, joined, batch>>

(* An answer to a query that was sent from the port this task has now.     *)
(* The ID of the message is compared with the one that was sent; a         *)
(* mismatch is an error, there is no second recv().                        *)
Receive(t) ==
    /\ pc[t] = "wait"
    /\ \E q \in asked, kind \in Kind :
        /\ q.port = query[t].port
        /\ LET r == IF q.id = query[t].id THEN Outcome(kind, q.ip) ELSE Failed
           IN  /\ result' = [result EXCEPT ![t] = r]
               /\ pc' = [pc EXCEPT ![t] = IF r = Failed THEN "done" ELSE "store"]
    /\ query' = [query EXCEPT ![t] = NoQuery]
    /\ UNCHANGED <<cacheVars, nextId, asked, joined, batch>>

(* Mutant: recv() without a timeout, so that a lost answer is waited for forever. *)
TimeoutNever(t) == FALSE /\ UNCHANGED vars

(* No answer within the timeout, or the socket reports an error. *)
Timeout(t) ==
    /\ pc[t] = "wait"
    /\ pc' = [pc EXCEPT ![t] = "done"]
    /\ query' = [query EXCEPT ![t] = NoQuery]
    /\ UNCHANGED <<cacheVars, nextId, result, asked, joined, batch>>

(* Cache the result, under the lock.  Another task may have stored an      *)
(* entry for the same IP since this one looked.                            *)
Store(t) ==
    /\ pc[t] = "store"
    /\ Insert(Ips[t], result[t])
    /\ pc' = [pc EXCEPT ![t] = "done"]
    /\ UNCHANGED <<nextId, query, result, asked, joined, batch>>

Lookup(t) ==
    CheckCache(t) \/ Send(t) \/ SendFails(t) \/ Receive(t) \/ Timeout(t) \/ Store(t)

(* The batch handler joins the tasks in the order of the request, and      *)
(* answers; an error becomes None, like a missing name.                    *)
Join ==
    /\ status = 0 /\ Accepted
    /\ IF Len(results) < Len(batch)
       THEN LET t == Len(results) + 1
            IN  /\ pc[t] = "done"
                /\ results' = Append(results, IF result[t] = Failed THEN NoHost ELSE result[t])
                /\ UNCHANGED status
       ELSE status' = 200 /\ UNCHANGED results
    /\ UNCHANGED <<batch, cacheVars, nextId, pc, query, result, asked>>

RefuseBatch ==
    /\ status = 0 /\ ~Accepted
    /\ status' = 400
    /\ UNCHANGED <<batch, cacheVars, nextId, pc, query, result, asked, results>>

(* dns_single_handler (ips.rs:14-47) returns the name, 404 without one, 500 *)
(* after an error.                                                         *)
SingleStatus(t) ==
    CASE result[t] = Failed -> 500 [] result[t] = NoHost -> 404 [] OTHER -> 200

Next == Join \/ RefuseBatch \/ \E t \in Task : Lookup(t)

Spec == Init /\ [][Next]_vars

(* tokio polls every task that can go on, and the timer of a waiting task  *)
(* fires.                                                                  *)
FairSpec ==
    /\ Spec
    /\ WF_vars(Join \/ RefuseBatch)
    /\ \A t \in 1 .. MaxBatch + Len(Singles) : WF_vars(t \in Task /\ Lookup(t))

-----------------------------------------------------------------------------
(* Every variable has its type; in particular next_id wraps around. *)
TypeOK ==
    /\ CacheTypeOK
    /\ nextId \in 0 .. IdCount - 1
    /\ pc \in [Task -> {"check", "send", "wait", "store", "done"}]
    /\ \A t \in Waiting : query[t] \in [port : Port, id : 0 .. IdCount - 1]
    /\ result \in [Task -> Host \cup {Failed}]
    /\ asked \subseteq [port : Port, id : 0 .. IdCount - 1, ip : Ip]
    /\ results \in Seq(Host)
    /\ status \in {0, 200, 400}

(* A host name is only ever given for the IP it belongs to, whatever old   *)
(* answers arrive at the port of a new query: neither a task nor the cache *)
(* nor a handler mixes up IPs, and the batch gets one result for each.     *)
NamesMatchIps ==
    /\ \A t \in Task : SingleStatus(t) = 200 => result[t] = Ips[t]
    /\ \A ip \in DOMAIN map : map[ip].value \in {ip, NoHost}
    /\ \A i \in 1 .. Len(results) : results[i] \in {batch[i], NoHost}
    /\ status = 200 => Len(results) = Len(batch)

(* Every request is answered in the end: a lost query costs a timeout and  *)
(* no more, also when there are too few ports for all lookups.             *)
LookupsAreAnswered == <>(status # 0 /\ \A t \in Task : pc[t] = "done")
=============================================================================
