--------------------------- MODULE MCSourcesPage ---------------------------
EXTENDS SourcesPage

MCLower == [d \in {"big.org", "small.org"} |-> d]

Row(ip, count, dkim) ==
    [ip |-> ip, count |-> count, dkim |-> dkim, spf |-> "pass", dkimAuth |-> <<>>, spfAuth |-> <<>>]

(* Three sources: one with issues, one with the same count as another one, *)
(* one in reports of both kinds.                                           *)
MCDmarc == << [mail |-> 1, org |-> "x", domain |-> "big.org", begin |-> 0, end |-> 1,
               record |-> <<Row("a", 2, "fail"), Row("b", 1, "pass"), Row("c", 1, "pass")>>] >>
MCTls == << [mail |-> 2, org |-> "y", end |-> 1,
             policies |-> <<[domain |-> "small.org", type |-> "sts", success |-> 0, failure |-> 2,
                             details |-> <<[ip |-> "c", type |-> "DaneRequired", count |-> 2]>>]>>] >>

Everything == [domain |-> None, issues |-> None, type |-> None]
MCFilters == {Everything,
              [Everything EXCEPT !.domain = "small.org"],
              [Everything EXCEPT !.issues = "true"],
              [Everything EXCEPT !.type = "Tls"]}
=============================================================================
