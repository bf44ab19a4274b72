----------------------------- MODULE MCDnsLookup -----------------------------
EXTENDS DnsLookup

CONSTANTS ip1, ip2

(* A batch of two IPs, one that is too long, and a request for an IP of the *)
(* batch beside it.                                                        *)
MCBatches == {<<ip1, ip2>>, <<ip1, ip2, ip2>>}
MCSingles == <<ip2>>
MCHosts == {ip1, ip2, NoHost}
=============================================================================
