-------------------------- MODULE MCReportQueries --------------------------
EXTENDS ReportQueries

MCLower == [d \in {"Big.org", "big.org", "small.org"} |->
              IF d = "Big.org" THEN "big.org" ELSE d]

Row(ip, count, dkim, spf, dkimAuth, spfAuth) ==
    [ip |-> ip, count |-> count, dkim |-> dkim, spf |-> spf,
     dkimAuth |-> dkimAuth, spfAuth |-> spfAuth]

(* A second is two instants, an hour two seconds.  A request reads the     *)
(* clock at the beginning or in the middle of a second, and again at once, *)
(* in the same second, or in the next one.                                 *)
MCClock == {[first |-> t[1], later |-> t[2]] : t \in {<<8, 8>>, <<8, 9>>, <<9, 9>>, <<9, 10>>}}

(* Passed and failed policies and checks, checks that are missing, a row   *)
(* that counts no mail, periods that meet at their ends, two spellings.    *)
MCDmarc == <<
    [mail |-> 1, org |-> "x", domain |-> "Big.org", begin |-> 0, end |-> 2,
     record |-> <<Row("a", 2, "pass", "pass", <<"pass">>, <<"pass">>)>>],
    [mail |-> 2, org |-> "y", domain |-> "big.org", begin |-> 2, end |-> 3,
     record |-> <<Row("a", 1, "fail", "pass", <<"pass", "fail">>, <<"pass">>),
                  Row("b", 0, "pass", "fail", <<>>, <<"softfail">>)>>],
    [mail |-> 2, org |-> "x", domain |-> "small.org", begin |-> 3, end |-> 4,
     record |-> <<Row("b", 3, "pass", None, <<"neutral">>, <<>>)>>],
    [mail |-> 3, org |-> "x", domain |-> "small.org", begin |-> 1, end |-> 4,
     record |-> <<Row("c", 1, None, None, <<>>, <<>>),
                  Row("a", 1, "pass", "pass", <<"pass">>, <<"none">>)>>] >>

Pol(domain, type, success, failure, details) ==
    [domain |-> domain, type |-> type, success |-> success, failure |-> failure,
     details |-> details]
Fails(ip, type, count) == [ip |-> ip, type |-> type, count |-> count]

(* Several policies of one and of two domains, failures without IP. *)
MCTls == <<
    [mail |-> 4, org |-> "x", end |-> 4,
     policies |-> <<Pol("Big.org", "sts", 5, 1, <<Fails("a", "CertificateExpired", 1)>>),
                    Pol("Big.org", "tlsa", 5, 0, <<>>)>>],
    [mail |-> 5, org |-> "y", end |-> 7,
     policies |-> <<Pol("small.org", "tlsa", 0, 2,
                        <<Fails("d", "TlsaInvalid", 1), Fails(None, "DaneRequired", 1)>>),
                    Pol("big.org", "sts", 3, 0, <<>>)>>],
    [mail |-> 6, org |-> "y", end |-> 6,
     policies |-> <<Pol("small.org", "no-policy-found", 4, 0, <<>>)>>] >>
=============================================================================
