--------------------------- MODULE MCUpdateCycle ---------------------------
EXTENDS UpdateCycle

(* In each folder one kind of oversized mail: listed without a size and    *)
(* found to be too big when its body comes, or listed as too big.          *)
MCUnsized == {[folder |-> "dmarc", uid |-> 2], [folder |-> "inbox", uid |-> 3]}
MCBig == MCUnsized \cup {[folder |-> "tls", uid |-> 1], [folder |-> "inbox", uid |-> 2]}

MCUndecodable == {[folder |-> "tls", uid |-> 2], [folder |-> "inbox", uid |-> 3]}

MCMalformed == {[folder |-> "tls", uid |-> 2]}

(* Bounds on how many mails the server handles, over all folders. *)
UpToTwoMails == Cardinality(Delivered) <= 2
UpToThreeMails == Cardinality(Delivered) <= 3

(* FairSpec, with a server that handles at most two mails. *)
LiveInit == Init /\ UpToTwoMails
LiveSpec ==
    /\ LiveInit
    /\ [][Next /\ UpToTwoMails']_vars
    /\ Fairness
=============================================================================
