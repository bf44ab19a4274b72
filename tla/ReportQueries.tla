--------------------------- MODULE ReportQueries ---------------------------
(***************************************************************************)
(* What the HTTP handlers answer about the published reports: the filtered *)
(* lists (src/src/http/dmarc_reports.rs, tls_reports.rs), the numbers of   *)
(* the dashboard (summary.rs), the sources (sources.rs) and the metrics    *)
(* (metrics.rs).  Each handler reads the state once, under its lock.       *)
(*                                                                         *)
(* A report is known by its place in Dmarc or Tls, which is the order of   *)
(* the hashes in the maps of the state.  Query parameters are already      *)
(* decoded and parsed: what links and pages encode is decoded as often (as *)
(* in ReportHistory).  Counters of the summary that are only passed on     *)
(* (mails, files, times) are left out.                                     *)
(*                                                                         *)
(* DMARC reports and ranges of lists have whole seconds since 1970.  SMTP  *)
(* TLS reports and the clock have instants, which are finer.               *)
(***************************************************************************)
EXTENDS Integers, Sequences, FiniteSets, FiniteSetsExt

CONSTANTS
    Dmarc,      \* the DMARC reports that an update may find:
                \*   [mail, org, domain, begin, end, record], a record being
                \*   [ip, count, dkim, spf, dkimAuth, spfAuth]
    Tls,        \* the SMTP TLS reports: [mail, org, end, policies], a policy being
                \*   [domain, type, success, failure, details], a detail [ip, type, count]
    Lower,      \* domain -> domain in lower case
    Second, Hour,   \* how long they are, in the unit of instants
    Clock,      \* the instants [first, later] at which a request may read the clock
    MaxHours,   \* the longest span that can be subtracted from an instant
    Wrap,       \* 2^64: how many values a u64 has
    Times,      \* bound: the seconds from or to which lists are asked for
    None        \* no value, for an optional part or filter

DmarcIssue == {"DkimPolicy", "SpfPolicy", "DkimAuth", "SpfAuth"}

(* A record of a DMARC report has an IP; that of a TLS failure is optional. *)
(* Organizations and domains are not optional.  To put a domain in lower    *)
(* case twice changes nothing more.  Maps and vectors are finite.           *)
(* TLS failures have other names than DMARC issues (sources.rs:19-40).      *)
(* Times of DMARC reports are unsigned.  The clock is not set back during a *)
(* request, and it is after 1970 and far from where u64 ends.               *)
ASSUME ReportsAssumption ==
    /\ None \notin Int \cup BOOLEAN /\ Times \subseteq Nat
    /\ Second \in Nat \ {0} /\ Hour \in Nat \ {0} /\ Wrap \in Nat
    /\ MaxHours \in Nat /\ MaxHours < Wrap \div 2
    /\ \A clock \in Clock :
         /\ clock.first \in Nat /\ clock.later \in Nat /\ clock.first <= clock.later
         /\ clock.first + MaxHours * Hour < Wrap * Second
    /\ \A d \in DOMAIN Lower : d # None /\ Lower[d] \in DOMAIN Lower /\ Lower[Lower[d]] = Lower[d]
    /\ IsFiniteSet(DOMAIN Dmarc) /\ IsFiniteSet(DOMAIN Tls)
    /\ \A h \in DOMAIN Dmarc :
         /\ Dmarc[h].org # None /\ Dmarc[h].domain \in DOMAIN Lower
         /\ Dmarc[h].begin \in Nat /\ Dmarc[h].end \in Nat
         /\ IsFiniteSet(DOMAIN Dmarc[h].record)
         /\ \A i \in DOMAIN Dmarc[h].record : Dmarc[h].record[i].ip # None
    /\ \A h \in DOMAIN Tls :
         /\ Tls[h].org # None /\ Tls[h].end \in Int
         /\ IsFiniteSet(DOMAIN Tls[h].policies)
         /\ \A i \in DOMAIN Tls[h].policies :
              /\ Tls[h].policies[i].domain \in DOMAIN Lower
              /\ IsFiniteSet(DOMAIN Tls[h].policies[i].details)
              /\ \A k \in DOMAIN Tls[h].policies[i].details :
                   Tls[h].policies[i].details[k].type \notin DmarcIssue

VARIABLES dmarc, tls    \* published: places in Dmarc and Tls

published == <<dmarc, tls>>

(* An update replaces all reports (background.rs:303-316). *)
Publish == dmarc' \in SUBSET DOMAIN Dmarc /\ tls' \in SUBSET DOMAIN Tls

QueriesInit == dmarc = {} /\ tls = {}
QueriesSpec == QueriesInit /\ [][Publish]_published

-----------------------------------------------------------------------------
(* Parts of reports. *)
DmarcEntry(S) == UNION {{<<h, i>> : i \in DOMAIN Dmarc[h].record} : h \in S}
Entry(e) == Dmarc[e[1]].record[e[2]]
Records(h) == Range(Dmarc[h].record)

TlsPolicy(S) == UNION {{<<h, i>> : i \in DOMAIN Tls[h].policies} : h \in S}
Policy(p) == Tls[p[1]].policies[p[2]]
TlsDetail(P) == UNION {{<<p, k>> : k \in DOMAIN Policy(p).details} : p \in P}
Detail(d) == Policy(d[1]).details[d[2]]
Policies(h) == Range(Tls[h].policies)
Details(h) == UNION {Range(p.details) : p \in Policies(h)}

-----------------------------------------------------------------------------
(* Flags of a report (dmarc_reports.rs:54-93, tls_reports.rs:61-74). *)

(* Mutant: only the evaluation of the policy is looked at. *)
DkimFlaggedByPolicy(h) == \E r \in Records(h) : r.dkim \notin {None, "pass"}

DkimFlagged(h) ==
    \E r \in Records(h) : r.dkim \notin {None, "pass"} \/ Range(r.dkimAuth) \ {"pass"} # {}

SpfFlagged(h) ==
    \E r \in Records(h) : r.spf \notin {None, "pass"} \/ Range(r.spfAuth) \ {"pass"} # {}

(* Neither check was evaluated as passed. *)
DmarcFlagged(h) == \E r \in Records(h) : r.dkim # "pass" /\ r.spf # "pass"

TlsFlagged(h, type) == \E p \in Policies(h) : p.type = type /\ p.failure > 0

-----------------------------------------------------------------------------
(* Lists.  A filter that is None lets everything through. *)
Passes(filter, value) == filter # None => value = filter

(* Mutant: the case of domains matters. *)
SameDomainCased(filter, domain) == filter # None => domain = filter

SameDomain(filter, domain) == filter # None => Lower[domain] = Lower[filter]

NoFilter == [id |-> None, org |-> None, domain |-> None, ip |-> None, flagged |-> None,
             dkim |-> None, spf |-> None, dmarc |-> None, sts |-> None, tlsa |-> None,
             begin |-> None, end |-> None, recordsGt |-> None]

(* Mutant: a report must begin in the range. *)
InRangeByBegin(h, begin, end) ==
    /\ begin # None => Dmarc[h].begin >= begin
    /\ end # None => Dmarc[h].begin <= end

(* The period of the report overlaps the range. *)
InRange(h, begin, end) ==
    /\ begin # None => Dmarc[h].end >= begin
    /\ end # None => Dmarc[h].begin <= end

DmarcList(f) ==
    {h \in dmarc :
        /\ Passes(f.id, Dmarc[h].mail)
        /\ Passes(f.org, Dmarc[h].org)
        /\ SameDomain(f.domain, Dmarc[h].domain)
        /\ f.ip # None => \E r \in Records(h) : r.ip = f.ip
        /\ Passes(f.flagged, DkimFlagged(h) \/ SpfFlagged(h) \/ DmarcFlagged(h))
        /\ Passes(f.dkim, DkimFlagged(h))
        /\ Passes(f.spf, SpfFlagged(h))
        /\ Passes(f.dmarc, DmarcFlagged(h))
        /\ InRange(h, f.begin, f.end)
        /\ f.recordsGt # None => Len(Dmarc[h].record) > f.recordsGt}

TlsList(f) ==
    {h \in tls :
        /\ Passes(f.id, Tls[h].mail)
        /\ Passes(f.org, Tls[h].org)
        /\ f.domain # None => \E p \in Policies(h) : SameDomain(f.domain, p.domain)
        /\ f.ip # None => \E d \in Details(h) : d.ip = f.ip
        /\ Passes(f.flagged, TlsFlagged(h, "sts") \/ TlsFlagged(h, "tlsa"))
        /\ Passes(f.sts, TlsFlagged(h, "sts"))
        /\ Passes(f.tlsa, TlsFlagged(h, "tlsa"))}

-----------------------------------------------------------------------------
(* Summary (summary.rs), over the last hours and for one domain. *)
Counts(S, KeyOf(_)) ==
    [k \in {KeyOf(x) : x \in S} |-> Cardinality({x \in S : KeyOf(x) = k})]
Sums(S, KeyOf(_), Amount(_)) ==
    [k \in {KeyOf(x) : x \in S} |-> MapThenSumSet(Amount, {x \in S : KeyOf(x) = k})]

(* hours as i64 (summary.rs:45) *)
Signed(hours) == IF hours < Wrap \div 2 THEN hours ELSE hours - Wrap

(* Beyond these Duration::hours() or the subtraction panics: the request is *)
(* dropped, and the lock with it.                                           *)
Answered(hours) == Signed(hours) \in -MaxHours .. MaxHours

(* Where the span begins that ends at an instant. *)
Start(instant, hours) == instant - Signed(hours) * Hour

NoThresholds == [dmarc |-> None, tls |-> None]

(* summary.rs:41-47, 203-204.  Zero hours are no time span.  The clock is  *)
(* read twice.  The threshold for DMARC reports is cut to whole seconds,   *)
(* as u64, so that one before 1970 wraps around.                           *)
Thresholds(hours, clock) ==
    IF hours = 0 THEN NoThresholds
    ELSE [dmarc |-> (Start(clock.first, hours) \div Second) % Wrap,
          tls |-> Start(clock.later, hours)]

(* Mutant: a report that ends at the threshold is too old. *)
DmarcInSpanStrict(h, threshold) == threshold # None => Dmarc[h].end > threshold

(* Seconds are compared for DMARC reports, instants for SMTP TLS reports. *)
DmarcInSpan(h, threshold) == threshold # None => Dmarc[h].end >= threshold
TlsInSpan(h, threshold) == threshold # None => Tls[h].end >= threshold

SummaryDmarc(threshold, domain) ==
    {h \in dmarc : DmarcInSpan(h, threshold) /\ SameDomain(domain, Dmarc[h].domain)}

(* One policy of the domain is enough, and then all policies count. *)
SummaryTls(threshold, domain) ==
    {h \in tls : /\ TlsInSpan(h, threshold)
                 /\ domain # None => \E p \in Policies(h) : SameDomain(domain, p.domain)}

DmarcSummary(S) ==
    LET Row == DmarcEntry(S)
        Count(e) == Entry(e).count
        Auth(Results(_)) == UNION {{<<e, k>> : k \in DOMAIN Results(e)} : e \in Row}
        Spf(e) == Entry(e).spfAuth
        Dkim(e) == Entry(e).dkimAuth
    IN  [reports |-> Cardinality(dmarc),    \* of the whole state
         orgs |-> Counts(S, LAMBDA h : Dmarc[h].org),
         domains |-> Counts(S, LAMBDA h : Lower[Dmarc[h].domain]),
         spf_policy_results |->
            Sums({e \in Row : Entry(e).spf # None}, LAMBDA e : Entry(e).spf, Count),
         dkim_policy_results |->
            Sums({e \in Row : Entry(e).dkim # None}, LAMBDA e : Entry(e).dkim, Count),
         spf_auth_results |->
            Sums(Auth(Spf), LAMBDA a : Spf(a[1])[a[2]], LAMBDA a : Count(a[1])),
         dkim_auth_results |->
            Sums(Auth(Dkim), LAMBDA a : Dkim(a[1])[a[2]], LAMBDA a : Count(a[1]))]

TlsSummary(S) ==
    LET P == TlsPolicy(S)
        OfType(type) == {p \in P : Policy(p).type = type}
        Results(type) ==
            IF OfType(type) = {} THEN [r \in {} |-> 0]
            ELSE [successful |-> MapThenSumSet(LAMBDA p : Policy(p).success, OfType(type)),
                  failure |-> MapThenSumSet(LAMBDA p : Policy(p).failure, OfType(type))]
        FailureTypes(type) ==
            Sums(TlsDetail(OfType(type)), LAMBDA d : Detail(d).type, LAMBDA d : Detail(d).count)
    IN  [reports |-> Cardinality(tls),
         orgs |-> Counts(S, LAMBDA h : Tls[h].org),
         domains |-> Counts(P, LAMBDA p : Lower[Policy(p).domain]),
         policy_types |-> Counts(P, LAMBDA p : Policy(p).type),
         sts_policy_results |-> Results("sts"),
         tlsa_policy_results |-> Results("tlsa"),
         sts_failure_types |-> FailureTypes("sts"),
         tlsa_failure_types |-> FailureTypes("tlsa")]

Summary(thresholds, domain) ==
    [dmarc |-> DmarcSummary(SummaryDmarc(thresholds.dmarc, domain)),
     tls |-> TlsSummary(SummaryTls(thresholds.tls, domain))]

-----------------------------------------------------------------------------
(* Mutant: a TLS report counts once for a domain. *)
TlsPerDomainOnce ==
    [d \in {Policy(p).domain : p \in TlsPolicy(tls)} |->
        Cardinality({h \in tls : \E p \in Policies(h) : p.domain = d})]

(* Metrics per domain, which keep the case of the domain (metrics.rs:49-69). *)
DmarcPerDomain == Counts(dmarc, LAMBDA h : Dmarc[h].domain)
TlsPerDomain == Counts(TlsPolicy(tls), LAMBDA p : Policy(p).domain)

-----------------------------------------------------------------------------
(* Sources (sources.rs). *)
DmarcFrom(ip) == {e \in DmarcEntry(dmarc) : Entry(e).ip = ip}
TlsFrom(ip) == {d \in TlsDetail(TlsPolicy(tls)) : Detail(d).ip = ip}

(* Failures without an IP are skipped. *)
SourceIps ==
    {Entry(e).ip : e \in DmarcEntry(dmarc)}
        \cup ({Detail(d).ip : d \in TlsDetail(TlsPolicy(tls))} \ {None})

(* Mutant: failed checks are no issue, only failed policies. *)
DmarcIssuesOfPolicy(r) ==
    (IF r.dkim \notin {None, "pass"} THEN {"DkimPolicy"} ELSE {})
        \cup (IF r.spf \notin {None, "pass"} THEN {"SpfPolicy"} ELSE {})

DmarcIssues(r) ==
    (IF r.dkim \notin {None, "pass"} THEN {"DkimPolicy"} ELSE {})
        \cup (IF r.spf \notin {None, "pass"} THEN {"SpfPolicy"} ELSE {})
        \cup (IF Range(r.dkimAuth) \ {"pass"} # {} THEN {"DkimAuth"} ELSE {})
        \cup (IF Range(r.spfAuth) \ {"pass"} # {} THEN {"SpfAuth"} ELSE {})

(* Mutant: the type is set with the entry of an IP, so the first kind of report decides. *)
TypesOfFirst(ip) == IF DmarcFrom(ip) # {} THEN {"Dmarc"} ELSE {"Tls"}

TypesOf(ip) ==
    (IF DmarcFrom(ip) # {} THEN {"Dmarc"} ELSE {}) \cup (IF TlsFrom(ip) # {} THEN {"Tls"} ELSE {})

(* The domain of the report that comes first. *)
SourceDomain(ip) ==
    IF DmarcFrom(ip) # {}
    THEN Dmarc[Min({e[1] : e \in DmarcFrom(ip)})].domain
    ELSE LET h == Min({d[1][1] : d \in TlsFrom(ip)})
             i == Min({d[1][2] : d \in {x \in TlsFrom(ip) : x[1][1] = h}})
         IN  Policy(<<h, i>>).domain

Source(ip) ==
    [ip |-> ip,
     count |-> MapThenSumSet(LAMBDA e : Entry(e).count, DmarcFrom(ip))
                 + MapThenSumSet(LAMBDA d : Detail(d).count, TlsFrom(ip)),
     domain |-> SourceDomain(ip),
     issues |-> (UNION {DmarcIssues(Entry(e)) : e \in DmarcFrom(ip)})
                  \cup {Detail(d).type : d \in TlsFrom(ip)},
     types |-> TypesOf(ip)]

Sources == {Source(ip) : ip \in SourceIps}

-----------------------------------------------------------------------------
AllDomains == DOMAIN Lower

(* The dashboard links each organization and domain of its charts to a     *)
(* list (dashboard.js:268-303): as many reports are listed as the chart    *)
(* said.  Only the chart of TLS domains counts policies: there the list    *)
(* has at least one report and at most as many as the chart said.          *)
ChartsLeadToReports ==
    LET s == Summary(NoThresholds, None)
    IN  /\ \A o \in DOMAIN s.dmarc.orgs :
             s.dmarc.orgs[o] = Cardinality(DmarcList([NoFilter EXCEPT !.org = o]))
        /\ \A d \in DOMAIN s.dmarc.domains :
             s.dmarc.domains[d] = Cardinality(DmarcList([NoFilter EXCEPT !.domain = d]))
        /\ \A o \in DOMAIN s.tls.orgs :
             s.tls.orgs[o] = Cardinality(TlsList([NoFilter EXCEPT !.org = o]))
        /\ \A d \in DOMAIN s.tls.domains :
             Cardinality(TlsList([NoFilter EXCEPT !.domain = d])) \in 1 .. s.tls.domains[d]

(* The charts of DKIM and SPF results of a domain show anything other than *)
(* "pass" exactly if the list of this domain has reports flagged for it:   *)
(* summary.rs and dmarc_reports.rs agree on what a failure is.             *)
ChartsAgreeWithFlags ==
    \A d \in AllDomains :
        LET s == Summary(NoThresholds, d).dmarc
            Failing(results) == DOMAIN results \ {"pass"} # {}
        IN  /\ (Failing(s.dkim_policy_results) \/ Failing(s.dkim_auth_results))
                 <=> DmarcList([NoFilter EXCEPT !.domain = d, !.dkim = TRUE]) # {}
            /\ (Failing(s.spf_policy_results) \/ Failing(s.spf_auth_results))
                 <=> DmarcList([NoFilter EXCEPT !.domain = d, !.spf = TRUE]) # {}

(* For every span that begins after 1970, the dashboard and the list of    *)
(* DMARC reports mean the same by it; a DMARC report counts if a TLS       *)
(* report counts that ends no later; and a TLS report counts if a DMARC    *)
(* report counts in whose last second it does not end any more, nor in the *)
(* time between the two readings of the clock.  Without these allowances   *)
(* the last one is wrong: in the second of the threshold a DMARC report    *)
(* counts and a TLS report that ends at the same time may not.             *)
TimeSpansAgree ==
    \A hours \in 1 .. Wrap - 1, clock \in Clock :
        LET start == Start(clock.first, hours)
            thresholds == Thresholds(hours, clock)
            counted == SummaryDmarc(thresholds.dmarc, None)
            tlsCounted == SummaryTls(thresholds.tls, None)
        IN  Answered(hours) /\ start >= 0 =>
              /\ counted = DmarcList([NoFilter EXCEPT !.begin = start \div Second])
              /\ \A t \in tlsCounted, h \in dmarc :
                   Dmarc[h].end * Second >= Tls[t].end => h \in counted
              /\ \A h \in counted, t \in tls :
                   Tls[t].end >= (Dmarc[h].end + 1) * Second + (clock.later - clock.first)
                     => t \in tlsCounted

(* "Report period must overlap the requested range" (dmarc_reports.rs:207):  *)
(* a report whose period does not end before it begins, which is not         *)
(* checked, is listed for a range exactly if some time is in both.           *)
PeriodsOverlap ==
    \A begin, end \in Times :
        begin <= end =>
            \A h \in dmarc :
                Dmarc[h].begin <= Dmarc[h].end =>
                    (h \in DmarcList([NoFilter EXCEPT !.begin = begin, !.end = end])
                        <=> (begin .. end) \cap (Dmarc[h].begin .. Dmarc[h].end) # {})

(* The types of a source are links to the reports with its IP              *)
(* (sources.js:162-174): a type is there exactly if its link leads to a    *)
(* report.                                                                 *)
BadgesLeadToReports ==
    \A s \in Sources :
        LET f == [NoFilter EXCEPT !.ip = s.ip]
        IN  /\ "Dmarc" \in s.types <=> DmarcList(f) # {}
            /\ "Tls" \in s.types <=> TlsList(f) # {}

(* A report flagged for DKIM or SPF has a source with such an issue, and   *)
(* the list of reports of a source with such an issue has one that is      *)
(* flagged: sources.rs and dmarc_reports.rs, which repeat the same         *)
(* conditions, agree.                                                      *)
FlaggedReportsHaveSources ==
    /\ \A h \in DmarcList([NoFilter EXCEPT !.dkim = TRUE]) :
         \E s \in Sources : /\ h \in DmarcList([NoFilter EXCEPT !.ip = s.ip])
                           /\ s.issues \cap {"DkimPolicy", "DkimAuth"} # {}
    /\ \A s \in Sources :
         s.issues \cap {"DkimPolicy", "DkimAuth"} # {}
            => DmarcList([NoFilter EXCEPT !.ip = s.ip, !.dkim = TRUE]) # {}
    /\ \A h \in DmarcList([NoFilter EXCEPT !.spf = TRUE]) :
         \E s \in Sources : /\ h \in DmarcList([NoFilter EXCEPT !.ip = s.ip])
                           /\ s.issues \cap {"SpfPolicy", "SpfAuth"} # {}
    /\ \A s \in Sources :
         s.issues \cap {"SpfPolicy", "SpfAuth"} # {}
            => DmarcList([NoFilter EXCEPT !.ip = s.ip, !.spf = TRUE]) # {}

(* Metrics and dashboard count the same reports per domain: the metrics    *)
(* keep spellings apart that the dashboard puts together.  The counts of   *)
(* the spellings of a domain add up to as many as there are pairs of a     *)
(* spelling and a number up to its count.                                  *)
MetricsAgree ==
    LET s == Summary(NoThresholds, None)
        Spelled(counts, d) == {x \in DOMAIN counts : Lower[x] = d}
        Together(counts) ==
            [d \in {Lower[x] : x \in DOMAIN counts} |->
                Cardinality(UNION {{x} \X (1 .. counts[x]) : x \in Spelled(counts, d)})]
    IN  /\ s.dmarc.domains = Together(DmarcPerDomain)
        /\ s.tls.domains = Together(TlsPerDomain)
=============================================================================
