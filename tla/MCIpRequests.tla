---------------------------- MODULE MCIpRequests ----------------------------
EXTENDS IpRequests, CacheMapFifo

CONSTANTS ip1, ip2, arin, ripe

(* Two requests for one location race, a third one has the other place in  *)
(* the cache, and a whois request runs along.                              *)
MCRequests ==
    << [route |-> "location", ip |-> ip1], [route |-> "location", ip |-> ip2],
       [route |-> "location", ip |-> ip2], [route |-> "whois", ip |-> ip1],
       [route |-> "health", ip |-> ip1] >>

MCLocations == [ip : {ip1, ip2}, place : {"here", "there"}]

Account(password) == [user |-> <<"u">>, password |-> password]
Header(k, t) == [kind |-> k, text |-> t]

(* A simple password, one with a colon in it, and none. *)
MCLogins ==
    ({Account(<<"p">>), Account(<<"p", ":", "q">>)} \X
        ({Header(k, <<>>) : k \in {"missing", "malformed"}} \cup
         {Header("text", t) :
            t \in {<<"u", ":", "p">>, <<"u", ":", "p", ":", "q">>, <<"u", "p">>}}))
    \cup {<<Account(<<>>), Header("malformed", <<>>)>>}
=============================================================================
