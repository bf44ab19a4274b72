--------------------------- MODULE MCImapSession ---------------------------
EXTENDS ImapSession

(* Any two mails over both folders: two good ones that take two chunks, an *)
(* oversized one, one that cannot be listed, and one that panics.          *)
MCBig == {[folder |-> "dmarc", uid |-> 2]}
MCMalformed == {[folder |-> "tls", uid |-> 1]}
MCUndecodable == {[folder |-> "tls", uid |-> 2]}

UpToTwoMails == Cardinality(Delivered) <= 2

(* Nobody stops the viewer here: what main does is independent of sessions *)
(* and checked with UpdateCycle.                                           *)
MCSessionInit == SessionInit /\ UpToTwoMails
MCSessionSpec ==
    /\ MCSessionInit
    /\ [][SessionNext /\ UpToTwoMails' /\ main' = "serving"]_allVars
    /\ SessionFairness
=============================================================================
