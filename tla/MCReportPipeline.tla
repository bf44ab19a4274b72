-------------------------- MODULE MCReportPipeline --------------------------
EXTENDS ReportPipeline

(* Files: a report; the same report in other words; a report whose name    *)
(* and ID give the same string when put together, with the border between  *)
(* them elsewhere; and one that does not parse.                            *)
MCData == {"report", "reworded", "shifted", "bad"}
MCValid == MCData \ {"bad"}
MCOrg == [d \in MCData |-> IF d = "shifted" THEN <<"a", "b">> ELSE <<"a">>]
MCReportId == [d \in MCData |-> IF d = "shifted" THEN <<"c">> ELSE <<"b", "c">>]

File(k, d) == [kind |-> k, data |-> d]
Single(k, d) == [form |-> k, ok |-> TRUE, files |-> <<File(k, d)>>]
Archive(fs) == [form |-> "zip", ok |-> TRUE, files |-> fs]
Corrupt(form) == [form |-> form, ok |-> FALSE, files |-> <<>>]

CONSTANTS dmarc, tls, inbox, Large

(* One folder for everything, with and without the filter, and specific *)
(* folders, in which UIDs repeat.                                       *)
OneFolder == [dmarc |-> NoFolder, tls |-> NoFolder, filter |-> TRUE]
MCSetups ==
    {OneFolder, [OneFolder EXCEPT !.filter = FALSE], [dmarc |-> dmarc, tls |-> tls, filter |-> TRUE]}
MCOneFolder == {OneFolder}
MCMail ==
    {[folder |-> inbox, uid |-> u] : u \in 1 .. 3} \cup
    {[folder |-> dmarc, uid |-> 1], [folder |-> tls, uid |-> 1]}

(* The hashes in the order of the UIDs, and in one that mixes them. *)
Rank == [report |-> 0, reworded |-> 1, shifted |-> 2, bad |-> 3]
Hashes == MCData \X {1, 2, 3}
MCDigests ==
    { [h \in Hashes |-> 4 * h[2] + Rank[h[1]]],
      [h \in Hashes |-> 3 * (3 - Rank[h[1]]) + ((h[2] + Rank[h[1]]) % 3)] }

MCContents ==
    { Large,
      <<Single("json", "report")>>,
      <<Single("xml", "shifted"), Single("xml", "bad")>>,
      <<Archive(<<File("xml", "report"), File("json", "report"), File("json", "bad")>>)>>,
      <<Single("xml", "reworded"), Single("xml", "reworded")>>,
      <<Single("xml", "report"), Corrupt("zip")>> }
=============================================================================
