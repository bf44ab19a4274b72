------------------------ MODULE ReportQueries_proofs ------------------------
(***************************************************************************)
(* Lists and sources agree, whatever the reports are.  Each theorem is     *)
(* about one state: a handler reads the state under one lock.              *)
(***************************************************************************)
EXTENDS SourcesPage, Counting, FiniteSetTheorems, FunctionTheorems, SequenceTheorems, TLAPS

(* Only reports that exist are published. *)
Known == dmarc \subseteq DOMAIN Dmarc /\ tls \subseteq DOMAIN Tls

(* What is known of the constants stays known in every state. *)
LEMMA OnlyKnown == QueriesSpec => []Known
<1>1. QueriesInit => Known
  BY DEF QueriesInit, Known
<1>2. Known /\ [Publish]_published => Known'
  BY DEF Known, Publish, published
<1> QED
  BY <1>1, <1>2, PTL DEF QueriesSpec

-----------------------------------------------------------------------------
(* A finite set has finitely many images. *)
LEMMA FinitelyManyImages ==
    ASSUME NEW S, IsFiniteSet(S), NEW image, NEW T, \A t : t \in T <=> \E x \in S : t = image[x]
    PROVE  IsFiniteSet(T)
<1> DEFINE f == [x \in S |-> image[x]]
<1>1. f \in Surjection(S, T)
  BY DEF Surjection
<1> HIDE DEF f
<1> QED
  BY <1>1, FS_Surjection

(* Finitely many things with finitely many places each. *)
LEMMA FinitelyManyPlaces ==
    ASSUME NEW S, IsFiniteSet(S), NEW places, \A x \in S : IsFiniteSet(places[x]),
           NEW T, \A t : t \in T <=> \E x \in S : \E i \in places[x] : t = <<x, i>>
    PROVE  IsFiniteSet(T)
<1> DEFINE all == {places[x] : x \in S}
<1>1. IsFiniteSet(all)
  BY FinitelyManyImages
<1>2. \A P \in all : IsFiniteSet(P)
  OBVIOUS
<1>3. IsFiniteSet(UNION all)
  <2> HIDE DEF all
  <2> QED
    BY <1>1, <1>2, FS_UNION
<1>4. T \subseteq S \X UNION all
  OBVIOUS
<1> HIDE DEF all
<1> QED
  BY <1>3, <1>4, FS_Product, FS_Subset

-----------------------------------------------------------------------------
(* What the lists hold, with the filters that links set. *)
LEMMA DmarcListOfIp ==
    ASSUME NEW ip, ip # None
    PROVE  DmarcList([NoFilter EXCEPT !.ip = ip]) = {h \in dmarc : \E r \in Records(h) : r.ip = ip}
BY DEF DmarcList, NoFilter, Passes, SameDomain, InRange

(* The same for TLS reports, whose IPs are in the details of failures. *)
LEMMA TlsListOfIp ==
    ASSUME NEW ip, ip # None
    PROVE  TlsList([NoFilter EXCEPT !.ip = ip]) = {h \in tls : \E d \in Details(h) : d.ip = ip}
BY DEF TlsList, NoFilter, Passes, SameDomain

-----------------------------------------------------------------------------
(* The entries are the records of the published reports, by place. *)
LEMMA DmarcEntries ==
    ASSUME NEW e
    PROVE  e \in DmarcEntry(dmarc)
              <=> \E h \in dmarc : \E i \in DOMAIN Dmarc[h].record : e = <<h, i>>
BY DEF DmarcEntry

(* An entry stands for its record. *)
LEMMA EntryOfPair == \A h, i : Entry(<<h, i>>) = Dmarc[h].record[i]
BY DEF Entry

(* An IP has entries exactly if a published report has a record of it. *)
LEMMA DmarcFromRecords ==
    ASSUME NEW ip
    PROVE  DmarcFrom(ip) # {} <=> \E h \in dmarc : \E r \in Records(h) : r.ip = ip
<1>1. ASSUME NEW e \in DmarcFrom(ip)
      PROVE  \E h \in dmarc : \E r \in Records(h) : r.ip = ip
  <2>1. e \in DmarcEntry(dmarc) /\ Entry(e).ip = ip
    BY <1>1 DEF DmarcFrom
  <2>2. PICK h \in dmarc : \E i \in DOMAIN Dmarc[h].record : e = <<h, i>>
    BY <2>1, DmarcEntries
  <2>3. PICK i \in DOMAIN Dmarc[h].record : e = <<h, i>>
    BY <2>2
  <2> QED
    BY <2>1, <2>3, EntryOfPair DEF Records, Range
<1>2. ASSUME NEW h \in dmarc, NEW i \in DOMAIN Dmarc[h].record, Dmarc[h].record[i].ip = ip
      PROVE  <<h, i>> \in DmarcFrom(ip)
  BY <1>2, DmarcEntries, EntryOfPair DEF DmarcFrom
<1> QED
  BY <1>1, <1>2 DEF Records, Range

(* The failures of all published TLS reports are found by three indices. *)
LEMMA TlsDetails ==
    ASSUME NEW d
    PROVE  d \in TlsDetail(TlsPolicy(tls))
              <=> \E h \in tls : \E i \in DOMAIN Tls[h].policies :
                    \E k \in DOMAIN Tls[h].policies[i].details : d = <<<<h, i>>, k>>
<1>1. \A p : p \in TlsPolicy(tls) <=> \E h \in tls : \E i \in DOMAIN Tls[h].policies : p = <<h, i>>
  BY DEF TlsPolicy
<1>2. \A h, i : Policy(<<h, i>>) = Tls[h].policies[i]
  BY DEF Policy
<1>3. d \in TlsDetail(TlsPolicy(tls))
         <=> \E p \in TlsPolicy(tls) : \E k \in DOMAIN Policy(p).details : d = <<p, k>>
  BY DEF TlsDetail
<1> QED
  BY <1>1, <1>2, <1>3

(* Three indices stand for one detail of a failure. *)
LEMMA DetailOfPair ==
    \A h, i, k : Detail(<<<<h, i>>, k>>) = Tls[h].policies[i].details[k]
BY DEF Detail, Policy

(* An IP has failures exactly if a published report has a detail of it. *)
LEMMA TlsFromDetails ==
    ASSUME NEW ip
    PROVE  TlsFrom(ip) # {} <=> \E h \in tls : \E d \in Details(h) : d.ip = ip
<1>1. \A h : \A d : d \in Details(h)
         <=> \E i \in DOMAIN Tls[h].policies : \E k \in DOMAIN Tls[h].policies[i].details :
               d = Tls[h].policies[i].details[k]
  BY DEF Details, Policies, Range
<1>2. ASSUME NEW d \in TlsFrom(ip)
      PROVE  \E h \in tls : \E x \in Details(h) : x.ip = ip
  <2>1. d \in TlsDetail(TlsPolicy(tls)) /\ Detail(d).ip = ip
    BY <1>2 DEF TlsFrom
  <2>2. PICK h \in tls : \E i \in DOMAIN Tls[h].policies :
                           \E k \in DOMAIN Tls[h].policies[i].details : d = <<<<h, i>>, k>>
    BY <2>1, TlsDetails
  <2>3. PICK i \in DOMAIN Tls[h].policies :
               \E k \in DOMAIN Tls[h].policies[i].details : d = <<<<h, i>>, k>>
    BY <2>2
  <2>4. PICK k \in DOMAIN Tls[h].policies[i].details : d = <<<<h, i>>, k>>
    BY <2>3
  <2> QED
    BY <1>1, <2>1, <2>4, DetailOfPair
<1>3. ASSUME NEW h \in tls, NEW i \in DOMAIN Tls[h].policies,
             NEW k \in DOMAIN Tls[h].policies[i].details, Tls[h].policies[i].details[k].ip = ip
      PROVE  <<<<h, i>>, k>> \in TlsFrom(ip)
  BY <1>3, TlsDetails, DetailOfPair DEF TlsFrom
<1>4. ASSUME NEW h \in tls, NEW d \in Details(h), d.ip = ip
      PROVE  TlsFrom(ip) # {}
  <2>1. \E i \in DOMAIN Tls[h].policies : \E k \in DOMAIN Tls[h].policies[i].details :
          d = Tls[h].policies[i].details[k]
    BY <1>1, <1>4
  <2>2. PICK i \in DOMAIN Tls[h].policies : \E k \in DOMAIN Tls[h].policies[i].details :
          d = Tls[h].policies[i].details[k]
    BY <2>1
  <2>3. PICK k \in DOMAIN Tls[h].policies[i].details : d = Tls[h].policies[i].details[k]
    BY <2>2
  <2> QED
    BY <1>3, <1>4, <2>3
<1> QED
  BY <1>2, <1>4

-----------------------------------------------------------------------------
(* A source is that of an IP, and "no IP" is not the IP of any source. *)
LEMMA SourceFields ==
    ASSUME Known, NEW s \in Sources
    PROVE  \E ip \in SourceIps : /\ s = Source(ip)
                                 /\ ip # None
                                 /\ s.ip = ip
                                 /\ s.types = TypesOf(ip)
<1>1. PICK ip \in SourceIps : s = Source(ip)
  BY DEF Sources
<1>2. ip # None
  <2>1. CASE ip \in {Entry(e).ip : e \in DmarcEntry(dmarc)}
    <3>1. PICK e \in DmarcEntry(dmarc) : ip = Entry(e).ip
      BY <2>1
    <3>2. PICK h \in dmarc : \E i \in DOMAIN Dmarc[h].record : e = <<h, i>>
      BY <3>1, DmarcEntries
    <3>3. PICK i \in DOMAIN Dmarc[h].record : e = <<h, i>>
      BY <3>2
    <3> QED
      BY <1>1, <3>1, <3>3, EntryOfPair, ReportsAssumption DEF Known
  <2> QED
    BY <2>1 DEF SourceIps
<1> QED
  BY <1>1, <1>2 DEF Source

(* The types of a source are links; each leads to a list with a report in  *)
(* it, and no link is missing.                                             *)
THEOREM BadgesAreRight == QueriesSpec => []BadgesLeadToReports
<1>1. ASSUME Known, NEW s \in Sources
      PROVE  LET f == [NoFilter EXCEPT !.ip = s.ip]
             IN  /\ "Dmarc" \in s.types <=> DmarcList(f) # {}
                 /\ "Tls" \in s.types <=> TlsList(f) # {}
  <2>1. PICK ip \in SourceIps : ip # None /\ s.ip = ip /\ s.types = TypesOf(ip)
    BY <1>1, SourceFields
  <2>2. "Dmarc" \in s.types <=> DmarcFrom(ip) # {}
    BY <2>1 DEF TypesOf
  <2>3. "Tls" \in s.types <=> TlsFrom(ip) # {}
    BY <2>1 DEF TypesOf
  <2>4. DmarcList([NoFilter EXCEPT !.ip = ip]) # {} <=> DmarcFrom(ip) # {}
    <3>1. DmarcList([NoFilter EXCEPT !.ip = ip]) = {h \in dmarc : \E r \in Records(h) : r.ip = ip}
      BY <2>1, DmarcListOfIp
    <3>2. {h \in dmarc : \E r \in Records(h) : r.ip = ip} # {} <=> DmarcFrom(ip) # {}
      BY DmarcFromRecords
    <3> QED
      BY <3>1, <3>2
  <2>5. TlsList([NoFilter EXCEPT !.ip = ip]) # {} <=> TlsFrom(ip) # {}
    <3>1. TlsList([NoFilter EXCEPT !.ip = ip]) = {h \in tls : \E d \in Details(h) : d.ip = ip}
      BY <2>1, TlsListOfIp
    <3>2. {h \in tls : \E d \in Details(h) : d.ip = ip} # {} <=> TlsFrom(ip) # {}
      BY TlsFromDetails
    <3> QED
      BY <3>1, <3>2
  <2> QED
    BY <2>1, <2>2, <2>3, <2>4, <2>5
<1>2. Known => BadgesLeadToReports
  BY <1>1 DEF BadgesLeadToReports
<1> QED
  BY <1>2, OnlyKnown, PTL

-----------------------------------------------------------------------------
(* A report is listed for a range of time exactly if its period, when it   *)
(* is one, has a time in common with the range.                            *)
THEOREM RangesAreRight == QueriesSpec => []PeriodsOverlap
<1>1. ASSUME Known, NEW begin \in Times, NEW end \in Times, begin <= end,
             NEW h \in dmarc, Dmarc[h].begin <= Dmarc[h].end
      PROVE  h \in DmarcList([NoFilter EXCEPT !.begin = begin, !.end = end])
                <=> (begin .. end) \cap (Dmarc[h].begin .. Dmarc[h].end) # {}
  <2> DEFINE b == Dmarc[h].begin
             e == Dmarc[h].end
  <2>1. b \in Nat /\ e \in Nat
    BY <1>1, ReportsAssumption DEF Known
  <2>2. begin \in Nat /\ end \in Nat /\ begin # None /\ end # None
    BY <1>1, ReportsAssumption
  <2>3. h \in DmarcList([NoFilter EXCEPT !.begin = begin, !.end = end])
           <=> e >= begin /\ b <= end
    BY <1>1, <2>2 DEF DmarcList, NoFilter, Passes, SameDomain, InRange
  <2>4. ASSUME e >= begin, b <= end
        PROVE  (begin .. end) \cap (b .. e) # {}
    <3>1. CASE begin <= b
      BY <1>1, <2>1, <2>2, <2>4, <3>1
    <3>2. CASE b <= begin
      BY <1>1, <2>1, <2>2, <2>4, <3>2
    <3> QED
      BY <2>1, <2>2, <3>1, <3>2
  <2>5. ASSUME NEW t \in (begin .. end) \cap (b .. e)
        PROVE  e >= begin /\ b <= end
    BY <2>1, <2>2, <2>5
  <2> QED
    BY <2>3, <2>4, <2>5
<1>2. Known => PeriodsOverlap
  BY <1>1 DEF PeriodsOverlap
<1> QED
  BY <1>2, OnlyKnown, PTL

(* The second of an instant. *)
LEMMA SecondOf ==
    ASSUME NEW t \in Nat, NEW s \in Nat \ {0}
    PROVE  t \div s \in Nat /\ (t \div s) * s <= t /\ t < (t \div s) * s + s
OBVIOUS

(* Hours and where they begin are integers, and a span that a request may  *)
(* have and that begins after 1970 has a threshold that does not wrap.     *)
LEMMA ThresholdInRange ==
    ASSUME NEW hours \in 1 .. Wrap - 1, NEW clock \in Clock, Answered(hours),
           Start(clock.first, hours) >= 0
    PROVE  /\ Start(clock.first, hours) \in Nat
           /\ Start(clock.later, hours) = Start(clock.first, hours) + (clock.later - clock.first)
           /\ Thresholds(hours, clock).dmarc = Start(clock.first, hours) \div Second
           /\ Thresholds(hours, clock).tls = Start(clock.later, hours)
<1> DEFINE h == Signed(hours)
           start == Start(clock.first, hours)
<1>1. h \in Int /\ -MaxHours <= h /\ MaxHours \in Nat /\ Hour \in Nat /\ Wrap \in Nat
      /\ Second \in Nat \ {0}
  BY ReportsAssumption DEF Answered
<1>2. clock.first \in Nat /\ clock.later \in Nat /\ clock.first + MaxHours * Hour < Wrap * Second
  BY ReportsAssumption
<1>3. start = clock.first - h * Hour /\ Start(clock.later, hours) = clock.later - h * Hour
  BY DEF Start
<1> HIDE DEF h, start
<1>4. h * Hour \in Int /\ -(MaxHours * Hour) <= h * Hour /\ MaxHours * Hour \in Nat
  BY <1>1
<1>5. start \in Nat /\ start < Wrap * Second
  <2>1. start >= 0
    BY DEF start
  <2> QED
    BY <1>1, <1>2, <1>3, <1>4, <2>1
<1>6. start \div Second \in Nat /\ start \div Second < Wrap
  <2>1. start \div Second \in Nat /\ (start \div Second) * Second <= start
    BY <1>1, <1>5, SecondOf
  <2> DEFINE n == start \div Second
  <2> HIDE DEF n
  <2>2. n \in Nat /\ n * Second < Wrap * Second
    BY <1>1, <1>5, <2>1 DEF n
  <2>3. n < Wrap
    BY <1>1, <2>2
  <2> QED
    BY <2>2, <2>3 DEF n
<1>7. (start \div Second) % Wrap = start \div Second
  <2> DEFINE n == start \div Second
  <2> HIDE DEF n
  <2>1. n \in Nat /\ n < Wrap
    BY <1>6 DEF n
  <2>2. n % Wrap = n
    BY <1>1, <2>1
  <2> QED
    BY <2>2 DEF n
<1>8. hours # 0
  BY ReportsAssumption
<1>9. /\ Thresholds(hours, clock).dmarc = start \div Second
      /\ Thresholds(hours, clock).tls = Start(clock.later, hours)
  BY <1>7, <1>8 DEF Thresholds, start
<1>10. Start(clock.later, hours) = start + (clock.later - clock.first)
  BY <1>2, <1>3, <1>4
<1> QED
  BY <1>5, <1>9, <1>10 DEF start

(* The reports that such a span counts. *)
LEMMA CountedInSpan ==
    ASSUME NEW hours \in 1 .. Wrap - 1, NEW clock \in Clock, Answered(hours),
           Start(clock.first, hours) >= 0
    PROVE  /\ SummaryDmarc(Thresholds(hours, clock).dmarc, None) =
                {h \in dmarc : Dmarc[h].end >= Start(clock.first, hours) \div Second}
           /\ SummaryTls(Thresholds(hours, clock).tls, None) =
                {t \in tls : Tls[t].end >= Start(clock.first, hours) + (clock.later - clock.first)}
<1>1. /\ Thresholds(hours, clock).dmarc = Start(clock.first, hours) \div Second
      /\ Thresholds(hours, clock).tls = Start(clock.first, hours) + (clock.later - clock.first)
      /\ Start(clock.first, hours) \in Nat
  BY ThresholdInRange
<1>2. Start(clock.first, hours) \div Second \in Nat
  BY <1>1, SecondOf, ReportsAssumption
<1>3. Start(clock.first, hours) + (clock.later - clock.first) \in Int
  BY <1>1, ReportsAssumption
<1>4. Thresholds(hours, clock).dmarc # None /\ Thresholds(hours, clock).tls # None
  BY <1>1, <1>2, <1>3, ReportsAssumption
<1> QED
  BY <1>1, <1>4 DEF SummaryDmarc, SummaryTls, DmarcInSpan, TlsInSpan, SameDomain

(* A DMARC report that ends no earlier than an instant in the span counts, *)
(* and one that counts ends, at the latest possible instant, in the span.  *)
LEMMA EndsInSpan ==
    ASSUME NEW start \in Nat, NEW end \in Nat
    PROVE  /\ end * Second \in Nat /\ (end + 1) * Second \in Nat
           /\ end * Second >= start => end >= start \div Second
           /\ end >= start \div Second => (end + 1) * Second > start
<1> DEFINE n == start \div Second
<1>1. Second \in Nat \ {0}
  BY ReportsAssumption
<1>2. n \in Nat /\ n * Second <= start /\ start < n * Second + Second
  BY <1>1, SecondOf
<1> HIDE DEF n
<1>3. end * Second \in Nat /\ (end + 1) * Second = end * Second + Second
  BY <1>1
<1>4. ASSUME end * Second >= start
      PROVE  end >= n
  BY <1>1, <1>2, <1>4
<1>5. ASSUME end >= n
      PROVE  end * Second + Second > start
  <2>1. end * Second >= n * Second
    BY <1>1, <1>2, <1>5
  <2>2. n * Second \in Nat
    BY <1>1, <1>2
  <2> QED
    BY <1>1, <1>2, <1>3, <2>1, <2>2
<1> QED
  BY <1>1, <1>3, <1>4, <1>5 DEF n

(* Of a span that begins after 1970 the dashboard and the list mean the    *)
(* same, and DMARC and TLS reports are treated alike but for the second in *)
(* which it begins and the time between two readings of the clock.         *)
THEOREM TimeSpansAreRight == QueriesSpec => []TimeSpansAgree
<1>1. ASSUME Known, NEW hours \in 1 .. Wrap - 1, NEW clock \in Clock, Answered(hours),
             Start(clock.first, hours) >= 0
      PROVE  LET start == Start(clock.first, hours)
                 thresholds == Thresholds(hours, clock)
                 counted == SummaryDmarc(thresholds.dmarc, None)
                 tlsCounted == SummaryTls(thresholds.tls, None)
             IN  /\ counted = DmarcList([NoFilter EXCEPT !.begin = start \div Second])
                 /\ \A t \in tlsCounted, h \in dmarc :
                      Dmarc[h].end * Second >= Tls[t].end => h \in counted
                 /\ \A h \in counted, t \in tls :
                      Tls[t].end >= (Dmarc[h].end + 1) * Second + (clock.later - clock.first)
                        => t \in tlsCounted
  <2> DEFINE start == Start(clock.first, hours)
             counted == SummaryDmarc(Thresholds(hours, clock).dmarc, None)
             tlsCounted == SummaryTls(Thresholds(hours, clock).tls, None)
             gap == clock.later - clock.first
  <2>1. /\ counted = {h \in dmarc : Dmarc[h].end >= start \div Second}
        /\ tlsCounted = {t \in tls : Tls[t].end >= start + gap}
    BY <1>1, CountedInSpan
  <2>2. start \in Nat
    BY <1>1, ThresholdInRange
  <2>3. gap \in Nat
    BY ReportsAssumption
  <2>4. start \div Second \in Nat /\ start \div Second # None
    BY <2>2, SecondOf, ReportsAssumption
  <2>5. DmarcList([NoFilter EXCEPT !.begin = start \div Second])
          = {h \in dmarc : Dmarc[h].end >= start \div Second}
    BY <2>4 DEF DmarcList, NoFilter, Passes, SameDomain, InRange
  <2>6. /\ \A h \in dmarc : Dmarc[h].end \in Nat
        /\ \A t \in tls : Tls[t].end \in Int
    BY <1>1, ReportsAssumption DEF Known
  <2> HIDE DEF start, counted, tlsCounted, gap
  <2>7. ASSUME NEW t \in tlsCounted, NEW h \in dmarc, Dmarc[h].end * Second >= Tls[t].end
        PROVE  h \in counted
    <3>1. Tls[t].end \in Int /\ Tls[t].end >= start + gap /\ Dmarc[h].end \in Nat
      BY <2>1, <2>6
    <3>2. Dmarc[h].end * Second \in Nat
      BY <2>2, <3>1, EndsInSpan
    <3>3. Dmarc[h].end * Second >= start
      BY <2>2, <2>3, <2>7, <3>1, <3>2
    <3>4. Dmarc[h].end >= start \div Second
      BY <2>2, <3>1, <3>3, EndsInSpan
    <3> QED
      BY <2>1, <3>4
  <2>8. ASSUME NEW h \in counted, NEW t \in tls, Tls[t].end >= (Dmarc[h].end + 1) * Second + gap
        PROVE  t \in tlsCounted
    <3>1. h \in dmarc /\ Dmarc[h].end \in Nat /\ Dmarc[h].end >= start \div Second
          /\ Tls[t].end \in Int
      BY <2>1, <2>6
    <3>2. (Dmarc[h].end + 1) * Second \in Nat /\ (Dmarc[h].end + 1) * Second > start
      BY <2>2, <3>1, EndsInSpan
    <3>3. Tls[t].end >= start + gap
      BY <2>2, <2>3, <2>8, <3>1, <3>2
    <3> QED
      BY <2>1, <3>3
  <2> QED
    BY <2>1, <2>5, <2>7, <2>8 DEF start, counted, tlsCounted, gap
<1>2. Known => TimeSpansAgree
  BY <1>1 DEF TimeSpansAgree
<1> QED
  BY <1>2, OnlyKnown, PTL

(* "Everything older will be excluded" (summary.rs:16-17), and nothing     *)
(* else, by a span that begins after 1970.                                 *)
NothingMissingSince1970 ==
    \A hours \in 1 .. MaxHours, clock \in Clock : \A h \in dmarc :
        hours * Hour <= clock.first /\ Dmarc[h].end * Second >= clock.first - hours * Hour
            => h \in SummaryDmarc(Thresholds(hours, clock).dmarc, None)

(* Such a span excludes no DMARC report that ends in it: that a threshold  *)
(* before 1970 wraps around (summary.rs:203) is the only reason why        *)
(* reports are missing.                                                    *)
THEOREM SpansSince1970AreComplete == QueriesSpec => []NothingMissingSince1970
<1>1. ASSUME Known, NEW hours \in 1 .. MaxHours, NEW clock \in Clock, NEW h \in dmarc,
             hours * Hour <= clock.first, Dmarc[h].end * Second >= clock.first - hours * Hour
      PROVE  h \in SummaryDmarc(Thresholds(hours, clock).dmarc, None)
  <2> DEFINE start == Start(clock.first, hours)
  <2>1. /\ hours \in Nat /\ MaxHours \in Nat /\ Hour \in Nat /\ clock.first \in Nat
        /\ Wrap \in Nat /\ MaxHours < Wrap \div 2
    BY ReportsAssumption
  <2>2. Wrap \div 2 <= Wrap
    BY <2>1
  <2>3. hours \in 1 .. Wrap - 1
    <3> DEFINE half == Wrap \div 2
    <3>1. half \in Int
      BY <2>1
    <3> HIDE DEF half
    <3> QED
      BY <2>1, <2>2, <3>1 DEF half
  <2>4. Signed(hours) = hours /\ Answered(hours)
    <3>1. hours < Wrap \div 2
      <4> DEFINE half == Wrap \div 2
      <4>1. half \in Int
        BY <2>1
      <4> HIDE DEF half
      <4> QED
        BY <2>1, <4>1 DEF half
    <3>2. Signed(hours) = hours
      BY <3>1 DEF Signed
    <3> QED
      BY <2>1, <3>2 DEF Answered
  <2>5. start = clock.first - hours * Hour /\ hours * Hour \in Nat
    BY <2>1, <2>4 DEF Start
  <2>6. start \in Nat
    BY <1>1, <2>1, <2>5
  <2>7. SummaryDmarc(Thresholds(hours, clock).dmarc, None)
          = {d \in dmarc : Dmarc[d].end >= start \div Second}
    BY <2>3, <2>4, <2>6, CountedInSpan
  <2> HIDE DEF start
  <2>8. Dmarc[h].end \in Nat /\ Dmarc[h].end * Second >= start
    BY <1>1, <2>5, ReportsAssumption DEF Known
  <2>9. Dmarc[h].end >= start \div Second
    BY <2>6, <2>8, EndsInSpan
  <2> QED
    BY <2>7, <2>9
<1>2. Known => NothingMissingSince1970
  BY <1>1 DEF NothingMissingSince1970
<1> QED
  BY <1>2, OnlyKnown, PTL

-----------------------------------------------------------------------------
(* The conditions of the two modules, record by record. *)
DkimFails(r) == r.dkim \notin {None, "pass"} \/ Range(r.dkimAuth) \ {"pass"} # {}
SpfFails(r) == r.spf \notin {None, "pass"} \/ Range(r.spfAuth) \ {"pass"} # {}

(* The issues that sources.rs finds in a record are its failures. *)
LEMMA IssuesOfRecord ==
    ASSUME NEW r
    PROVE  /\ DmarcIssues(r) \cap {"DkimPolicy", "DkimAuth"} # {} <=> DkimFails(r)
           /\ DmarcIssues(r) \cap {"SpfPolicy", "SpfAuth"} # {} <=> SpfFails(r)
<1> DEFINE pick(c, i) == IF c THEN {i} ELSE {}
           dp == r.dkim \notin {None, "pass"}
           sp == r.spf \notin {None, "pass"}
           da == Range(r.dkimAuth) \ {"pass"} # {}
           sa == Range(r.spfAuth) \ {"pass"} # {}
<1>1. DmarcIssues(r) = pick(dp, "DkimPolicy") \cup pick(sp, "SpfPolicy")
                        \cup pick(da, "DkimAuth") \cup pick(sa, "SpfAuth")
  BY DEF DmarcIssues
<1>2. (DkimFails(r) <=> dp \/ da) /\ (SpfFails(r) <=> sp \/ sa)
  BY DEF DkimFails, SpfFails
<1> HIDE DEF dp, sp, da, sa
<1> QED
  BY <1>1, <1>2

(* The issues of a source that are not from TLS reports come from records  *)
(* of published DMARC reports with its IP.                                 *)
LEMMA IssuesOfSource ==
    ASSUME Known, NEW ip, NEW issue \in DmarcIssue
    PROVE  issue \in Source(ip).issues
              <=> \E h \in dmarc : \E r \in Records(h) : r.ip = ip /\ issue \in DmarcIssues(r)
<1> DEFINE A == UNION {DmarcIssues(Entry(e)) : e \in DmarcFrom(ip)}
           B == {Detail(d).type : d \in TlsFrom(ip)}
<1>1. Source(ip).issues = A \cup B
  BY DEF Source
<1>2. issue \notin B
  <2>1. SUFFICES ASSUME NEW d \in TlsFrom(ip), issue = Detail(d).type PROVE FALSE
    OBVIOUS
  <2>2. d \in TlsDetail(TlsPolicy(tls))
    BY DEF TlsFrom
  <2>3. PICK h \in tls : \E i \in DOMAIN Tls[h].policies :
                           \E k \in DOMAIN Tls[h].policies[i].details : d = <<<<h, i>>, k>>
    BY <2>2, TlsDetails
  <2>4. PICK i \in DOMAIN Tls[h].policies :
               \E k \in DOMAIN Tls[h].policies[i].details : d = <<<<h, i>>, k>>
    BY <2>3
  <2>5. PICK k \in DOMAIN Tls[h].policies[i].details : d = <<<<h, i>>, k>>
    BY <2>4
  <2>6. Detail(d).type \notin DmarcIssue
    BY <2>5, DetailOfPair, ReportsAssumption DEF Known
  <2> QED
    BY <2>1, <2>6
<1>3. ASSUME NEW e \in DmarcFrom(ip), issue \in DmarcIssues(Entry(e))
      PROVE  \E h \in dmarc : \E r \in Records(h) : r.ip = ip /\ issue \in DmarcIssues(r)
  <2>1. e \in DmarcEntry(dmarc) /\ Entry(e).ip = ip
    BY <1>3 DEF DmarcFrom
  <2>2. PICK h \in dmarc : \E i \in DOMAIN Dmarc[h].record : e = <<h, i>>
    BY <2>1, DmarcEntries
  <2>3. PICK i \in DOMAIN Dmarc[h].record : e = <<h, i>>
    BY <2>2
  <2>4. Entry(e) \in Records(h)
    BY <2>3, EntryOfPair DEF Records, Range
  <2> QED
    BY <1>3, <2>1, <2>4
<1>4. ASSUME NEW h \in dmarc, NEW r \in Records(h), r.ip = ip, issue \in DmarcIssues(r)
      PROVE  \E e \in DmarcFrom(ip) : issue \in DmarcIssues(Entry(e))
  <2>1. PICK i \in DOMAIN Dmarc[h].record : r = Dmarc[h].record[i]
    BY DEF Records, Range
  <2>2. Entry(<<h, i>>) = r /\ <<h, i>> \in DmarcEntry(dmarc)
    BY <2>1, EntryOfPair, DmarcEntries
  <2> QED
    BY <1>4, <2>2 DEF DmarcFrom
<1>5. issue \in Source(ip).issues <=> \E e \in DmarcFrom(ip) : issue \in DmarcIssues(Entry(e))
  <2>1. issue \in A <=> \E e \in DmarcFrom(ip) : issue \in DmarcIssues(Entry(e))
    OBVIOUS
  <2>2. issue \in Source(ip).issues <=> issue \in A
    <3> HIDE DEF A, B
    <3> QED
      BY <1>1, <1>2
  <2> QED
    BY <2>1, <2>2
<1> QED
  BY <1>3, <1>4, <1>5

(* The source of the IP of a failed record has such an issue. *)
LEMMA FailedRecordHasSource ==
    ASSUME Known, NEW I \in SUBSET DmarcIssue,
           NEW h \in dmarc, NEW r \in Records(h), DmarcIssues(r) \cap I # {}
    PROVE  \E s \in Sources : s.ip = r.ip /\ s.ip # None /\ s.issues \cap I # {}
<1>1. PICK issue \in DmarcIssues(r) \cap I : TRUE
  OBVIOUS
<1>2. PICK i \in DOMAIN Dmarc[h].record : r = Dmarc[h].record[i]
  BY DEF Records, Range
<1>3. <<h, i>> \in DmarcEntry(dmarc) /\ Entry(<<h, i>>) = r
  BY <1>2, EntryOfPair, DmarcEntries
<1>4. r.ip \in SourceIps
  BY <1>3 DEF SourceIps
<1>5. Source(r.ip) \in Sources /\ Source(r.ip).ip = r.ip
  BY <1>4 DEF Sources, Source
<1>6. issue \in Source(r.ip).issues
  BY <1>1, IssuesOfSource
<1>7. r.ip # None
  BY <1>2, ReportsAssumption DEF Known
<1> QED
  BY <1>1, <1>5, <1>6, <1>7

(* A source with such an issue has a failed record. *)
LEMMA SourceHasFailedRecord ==
    ASSUME Known, NEW I \in SUBSET DmarcIssue, NEW s \in Sources, s.issues \cap I # {}
    PROVE  s.ip # None
           /\ \E h \in dmarc : \E r \in Records(h) : r.ip = s.ip /\ DmarcIssues(r) \cap I # {}
<1>1. PICK ip \in SourceIps : s = Source(ip) /\ ip # None /\ s.ip = ip
  BY SourceFields
<1>2. PICK issue \in I : issue \in Source(ip).issues
  BY <1>1
<1>3. \E h \in dmarc : \E r \in Records(h) : r.ip = ip /\ issue \in DmarcIssues(r)
  BY <1>2, IssuesOfSource
<1> QED
  BY <1>1, <1>2, <1>3

(* A report is flagged exactly if one of its records fails. *)
LEMMA FlagsOfRecords ==
    /\ TRUE # None
    /\ \A h : DkimFlagged(h) \in BOOLEAN /\ SpfFlagged(h) \in BOOLEAN
    /\ \A h : DkimFlagged(h) <=> \E r \in Records(h) : DkimFails(r)
    /\ \A h : SpfFlagged(h) <=> \E r \in Records(h) : SpfFails(r)
BY ReportsAssumption DEF DkimFlagged, DkimFails, SpfFlagged, SpfFails

(* The lists of reports flagged for DKIM and for SPF. *)
LEMMA FlaggedLists ==
    /\ DmarcList([NoFilter EXCEPT !.dkim = TRUE])
          = {h \in dmarc : \E r \in Records(h) : DkimFails(r)}
    /\ DmarcList([NoFilter EXCEPT !.spf = TRUE])
          = {h \in dmarc : \E r \in Records(h) : SpfFails(r)}
<1>1. DmarcList([NoFilter EXCEPT !.dkim = TRUE]) = {h \in dmarc : DkimFlagged(h)}
  BY FlagsOfRecords DEF DmarcList, NoFilter, Passes, SameDomain, InRange
<1>2. DmarcList([NoFilter EXCEPT !.spf = TRUE]) = {h \in dmarc : SpfFlagged(h)}
  BY FlagsOfRecords DEF DmarcList, NoFilter, Passes, SameDomain, InRange
<1> QED
  BY <1>1, <1>2, FlagsOfRecords

(* The same lists, filtered for an IP besides. *)
LEMMA FlaggedListsOfIp ==
    ASSUME NEW ip, ip # None
    PROVE  /\ DmarcList([NoFilter EXCEPT !.ip = ip, !.dkim = TRUE])
                = {h \in dmarc : /\ \E r \in Records(h) : r.ip = ip
                                 /\ \E r \in Records(h) : DkimFails(r)}
           /\ DmarcList([NoFilter EXCEPT !.ip = ip, !.spf = TRUE])
                = {h \in dmarc : /\ \E r \in Records(h) : r.ip = ip
                                 /\ \E r \in Records(h) : SpfFails(r)}
<1>1. DmarcList([NoFilter EXCEPT !.ip = ip, !.dkim = TRUE])
        = {h \in dmarc : (\E r \in Records(h) : r.ip = ip) /\ DkimFlagged(h)}
  BY FlagsOfRecords DEF DmarcList, NoFilter, Passes, SameDomain, InRange
<1>2. DmarcList([NoFilter EXCEPT !.ip = ip, !.spf = TRUE])
        = {h \in dmarc : (\E r \in Records(h) : r.ip = ip) /\ SpfFlagged(h)}
  BY FlagsOfRecords DEF DmarcList, NoFilter, Passes, SameDomain, InRange
<1> QED
  BY <1>1, <1>2, FlagsOfRecords

(* A report flagged for DKIM or SPF has a source with such an issue, and a *)
(* source with such an issue is in a report flagged for it.                *)
THEOREM FlaggedReportsAreRight == QueriesSpec => []FlaggedReportsHaveSources
<1> DEFINE DkimIssue == {"DkimPolicy", "DkimAuth"}
           SpfIssue == {"SpfPolicy", "SpfAuth"}
<1>1. DkimIssue \in SUBSET DmarcIssue /\ SpfIssue \in SUBSET DmarcIssue
  BY DEF DmarcIssue
<1>2. \A r : /\ DmarcIssues(r) \cap DkimIssue # {} <=> DkimFails(r)
             /\ DmarcIssues(r) \cap SpfIssue # {} <=> SpfFails(r)
  BY IssuesOfRecord
<1> HIDE DEF DkimIssue, SpfIssue
<1>3. ASSUME Known, NEW h \in DmarcList([NoFilter EXCEPT !.dkim = TRUE])
      PROVE  \E s \in Sources : /\ h \in DmarcList([NoFilter EXCEPT !.ip = s.ip])
                                /\ s.issues \cap DkimIssue # {}
  <2>1. DmarcList([NoFilter EXCEPT !.dkim = TRUE])
          = {x \in dmarc : \E r \in Records(x) : DkimFails(r)}
    BY FlaggedLists
  <2>2. h \in dmarc /\ \E r \in Records(h) : DkimFails(r)
    BY <1>3, <2>1
  <2>3. PICK r \in Records(h) : DkimFails(r)
    BY <2>2
  <2>4. PICK s \in Sources : s.ip = r.ip /\ s.ip # None /\ s.issues \cap DkimIssue # {}
    BY <1>1, <1>2, <1>3, <2>2, <2>3, FailedRecordHasSource
  <2>5. DmarcList([NoFilter EXCEPT !.ip = s.ip]) = {x \in dmarc : \E y \in Records(x) : y.ip = s.ip}
    BY <2>4, DmarcListOfIp
  <2> QED
    BY <2>2, <2>4, <2>5
<1>4. ASSUME Known, NEW h \in DmarcList([NoFilter EXCEPT !.spf = TRUE])
      PROVE  \E s \in Sources : /\ h \in DmarcList([NoFilter EXCEPT !.ip = s.ip])
                                /\ s.issues \cap SpfIssue # {}
  <2>1. DmarcList([NoFilter EXCEPT !.spf = TRUE])
          = {x \in dmarc : \E r \in Records(x) : SpfFails(r)}
    BY FlaggedLists
  <2>2. h \in dmarc /\ \E r \in Records(h) : SpfFails(r)
    BY <1>4, <2>1
  <2>3. PICK r \in Records(h) : SpfFails(r)
    BY <2>2
  <2>4. PICK s \in Sources : s.ip = r.ip /\ s.ip # None /\ s.issues \cap SpfIssue # {}
    BY <1>1, <1>2, <1>4, <2>2, <2>3, FailedRecordHasSource
  <2>5. DmarcList([NoFilter EXCEPT !.ip = s.ip]) = {x \in dmarc : \E y \in Records(x) : y.ip = s.ip}
    BY <2>4, DmarcListOfIp
  <2> QED
    BY <2>2, <2>4, <2>5
<1>5. ASSUME Known, NEW s \in Sources, s.issues \cap DkimIssue # {}
      PROVE  DmarcList([NoFilter EXCEPT !.ip = s.ip, !.dkim = TRUE]) # {}
  <2>1. s.ip # None /\ \E h \in dmarc : \E r \in Records(h) :
                          r.ip = s.ip /\ DmarcIssues(r) \cap DkimIssue # {}
    BY <1>1, <1>5, SourceHasFailedRecord
  <2>2. DmarcList([NoFilter EXCEPT !.ip = s.ip, !.dkim = TRUE])
          = {h \in dmarc : /\ \E r \in Records(h) : r.ip = s.ip
                           /\ \E r \in Records(h) : DkimFails(r)}
    BY <2>1, FlaggedListsOfIp
  <2> QED
    BY <1>2, <2>1, <2>2
<1>6. ASSUME Known, NEW s \in Sources, s.issues \cap SpfIssue # {}
      PROVE  DmarcList([NoFilter EXCEPT !.ip = s.ip, !.spf = TRUE]) # {}
  <2>1. s.ip # None /\ \E h \in dmarc : \E r \in Records(h) :
                          r.ip = s.ip /\ DmarcIssues(r) \cap SpfIssue # {}
    BY <1>1, <1>6, SourceHasFailedRecord
  <2>2. DmarcList([NoFilter EXCEPT !.ip = s.ip, !.spf = TRUE])
          = {h \in dmarc : /\ \E r \in Records(h) : r.ip = s.ip
                           /\ \E r \in Records(h) : SpfFails(r)}
    BY <2>1, FlaggedListsOfIp
  <2> QED
    BY <1>2, <2>1, <2>2
<1>7. Known => FlaggedReportsHaveSources
  BY <1>3, <1>4, <1>5, <1>6 DEF FlaggedReportsHaveSources, DkimIssue, SpfIssue
<1> QED
  BY <1>7, OnlyKnown, PTL

-----------------------------------------------------------------------------
(* The results of a check that the charts of some reports show. *)
LEMMA ChartKeys ==
    ASSUME NEW S
    PROVE  LET s == DmarcSummary(S)
           IN  /\ DOMAIN s.dkim_policy_results
                    = {Entry(e).dkim : e \in {x \in DmarcEntry(S) : Entry(x).dkim # None}}
               /\ DOMAIN s.spf_policy_results
                    = {Entry(e).spf : e \in {x \in DmarcEntry(S) : Entry(x).spf # None}}
               /\ DOMAIN s.dkim_auth_results
                    = {Entry(a[1]).dkimAuth[a[2]] :
                         a \in UNION {{<<e, k>> : k \in DOMAIN Entry(e).dkimAuth} : e \in DmarcEntry(S)}}
               /\ DOMAIN s.spf_auth_results
                    = {Entry(a[1]).spfAuth[a[2]] :
                         a \in UNION {{<<e, k>> : k \in DOMAIN Entry(e).spfAuth} : e \in DmarcEntry(S)}}
BY DEF DmarcSummary, Sums

(* The charts show a failure exactly if a record of the reports fails. *)
LEMMA FailuresInCharts ==
    ASSUME NEW S
    PROVE  LET s == DmarcSummary(S)
               Failing(results) == DOMAIN results \ {"pass"} # {}
           IN  /\ (Failing(s.dkim_policy_results) \/ Failing(s.dkim_auth_results))
                    <=> \E h \in S : \E r \in Records(h) : DkimFails(r)
               /\ (Failing(s.spf_policy_results) \/ Failing(s.spf_auth_results))
                    <=> \E h \in S : \E r \in Records(h) : SpfFails(r)
<1> DEFINE s == DmarcSummary(S)
           Row == DmarcEntry(S)
           dkimPolicy == DOMAIN s.dkim_policy_results
           spfPolicy == DOMAIN s.spf_policy_results
           dkimAuth == DOMAIN s.dkim_auth_results
           spfAuth == DOMAIN s.spf_auth_results
<1>1. \A e : e \in Row <=> \E h \in S : \E i \in DOMAIN Dmarc[h].record : e = <<h, i>>
  BY DEF DmarcEntry
<1>2. /\ dkimPolicy = {Entry(e).dkim : e \in {x \in Row : Entry(x).dkim # None}}
      /\ spfPolicy = {Entry(e).spf : e \in {x \in Row : Entry(x).spf # None}}
      /\ dkimAuth = {Entry(a[1]).dkimAuth[a[2]] :
                        a \in UNION {{<<e, k>> : k \in DOMAIN Entry(e).dkimAuth} : e \in Row}}
      /\ spfAuth = {Entry(a[1]).spfAuth[a[2]] :
                       a \in UNION {{<<e, k>> : k \in DOMAIN Entry(e).spfAuth} : e \in Row}}
  BY ChartKeys
<1> HIDE DEF Row, dkimPolicy, spfPolicy, dkimAuth, spfAuth
<1>3. ASSUME NEW e \in Row PROVE \E h \in S : \E r \in Records(h) : r = Entry(e)
  BY <1>1, EntryOfPair DEF Records, Range
<1>4. ASSUME NEW h \in S, NEW r \in Records(h) PROVE \E e \in Row : r = Entry(e)
  <2>1. PICK i \in DOMAIN Dmarc[h].record : r = Dmarc[h].record[i]
    BY DEF Records, Range
  <2> QED
    BY <1>1, <2>1, EntryOfPair
<1>5. dkimPolicy \ {"pass"} # {} <=> \E e \in Row : Entry(e).dkim \notin {None, "pass"}
  BY <1>2
<1>6. spfPolicy \ {"pass"} # {} <=> \E e \in Row : Entry(e).spf \notin {None, "pass"}
  BY <1>2
<1>7. dkimAuth \ {"pass"} # {} <=> \E e \in Row : Range(Entry(e).dkimAuth) \ {"pass"} # {}
  <2> DEFINE Auth == UNION {{<<e, k>> : k \in DOMAIN Entry(e).dkimAuth} : e \in Row}
  <2>1. \A a : a \in Auth <=> \E e \in Row : \E k \in DOMAIN Entry(e).dkimAuth : a = <<e, k>>
    OBVIOUS
  <2>2. dkimAuth = {Entry(a[1]).dkimAuth[a[2]] : a \in Auth}
    BY <1>2
  <2> HIDE DEF Auth
  <2>3. ASSUME NEW a \in Auth
        PROVE  \E e \in Row : \E k \in DOMAIN Entry(e).dkimAuth :
                 Entry(a[1]).dkimAuth[a[2]] = Entry(e).dkimAuth[k]
    BY <2>1
  <2>4. ASSUME NEW e \in Row, NEW k \in DOMAIN Entry(e).dkimAuth
        PROVE  Entry(e).dkimAuth[k] \in dkimAuth
    <3>1. <<e, k>> \in Auth
      BY <2>1
    <3> QED
      BY <2>2, <3>1
  <2>5. \A e \in Row : Range(Entry(e).dkimAuth) \ {"pass"} # {}
          <=> \E k \in DOMAIN Entry(e).dkimAuth : Entry(e).dkimAuth[k] # "pass"
    BY DEF Range
  <2>6. dkimAuth \ {"pass"} # {} <=> \E a \in Auth : Entry(a[1]).dkimAuth[a[2]] # "pass"
    BY <2>2
  <2> QED
    BY <2>2, <2>3, <2>4, <2>5, <2>6
<1>8. spfAuth \ {"pass"} # {} <=> \E e \in Row : Range(Entry(e).spfAuth) \ {"pass"} # {}
  <2> DEFINE Auth == UNION {{<<e, k>> : k \in DOMAIN Entry(e).spfAuth} : e \in Row}
  <2>1. \A a : a \in Auth <=> \E e \in Row : \E k \in DOMAIN Entry(e).spfAuth : a = <<e, k>>
    OBVIOUS
  <2>2. spfAuth = {Entry(a[1]).spfAuth[a[2]] : a \in Auth}
    BY <1>2
  <2> HIDE DEF Auth
  <2>3. ASSUME NEW a \in Auth
        PROVE  \E e \in Row : \E k \in DOMAIN Entry(e).spfAuth :
                 Entry(a[1]).spfAuth[a[2]] = Entry(e).spfAuth[k]
    BY <2>1
  <2>4. ASSUME NEW e \in Row, NEW k \in DOMAIN Entry(e).spfAuth
        PROVE  Entry(e).spfAuth[k] \in spfAuth
    <3>1. <<e, k>> \in Auth
      BY <2>1
    <3> QED
      BY <2>2, <3>1
  <2>5. \A e \in Row : Range(Entry(e).spfAuth) \ {"pass"} # {}
          <=> \E k \in DOMAIN Entry(e).spfAuth : Entry(e).spfAuth[k] # "pass"
    BY DEF Range
  <2>6. spfAuth \ {"pass"} # {} <=> \E a \in Auth : Entry(a[1]).spfAuth[a[2]] # "pass"
    BY <2>2
  <2> QED
    BY <2>2, <2>3, <2>4, <2>5, <2>6
<1>9. (dkimPolicy \ {"pass"} # {} \/ dkimAuth \ {"pass"} # {})
        <=> \E e \in Row : DkimFails(Entry(e))
  BY <1>5, <1>7 DEF DkimFails
<1>10. (spfPolicy \ {"pass"} # {} \/ spfAuth \ {"pass"} # {})
         <=> \E e \in Row : SpfFails(Entry(e))
  BY <1>6, <1>8 DEF SpfFails
<1>11. /\ (dkimPolicy \ {"pass"} # {} \/ dkimAuth \ {"pass"} # {})
            <=> \E h \in S : \E r \in Records(h) : DkimFails(r)
       /\ (spfPolicy \ {"pass"} # {} \/ spfAuth \ {"pass"} # {})
            <=> \E h \in S : \E r \in Records(h) : SpfFails(r)
  BY <1>3, <1>4, <1>9, <1>10
<1> QED
  BY <1>11 DEF dkimPolicy, spfPolicy, dkimAuth, spfAuth

(* Without a time span the dashboard is about all reports, or all reports  *)
(* of a domain.                                                            *)
LEMMA SummaryOfAll ==
    ASSUME NEW domain
    PROVE  /\ Summary(NoThresholds, domain).dmarc = DmarcSummary({h \in dmarc : SameDomain(domain, Dmarc[h].domain)})
           /\ Summary(NoThresholds, domain).tls =
                TlsSummary({h \in tls : domain # None =>
                                          \E p \in Policies(h) : SameDomain(domain, p.domain)})
<1>1. SummaryDmarc(None, domain) = {h \in dmarc : SameDomain(domain, Dmarc[h].domain)}
  BY DEF SummaryDmarc, DmarcInSpan
<1>2. SummaryTls(None, domain) =
        {h \in tls : domain # None => \E p \in Policies(h) : SameDomain(domain, p.domain)}
  BY DEF SummaryTls, TlsInSpan
<1>3. NoThresholds.dmarc = None /\ NoThresholds.tls = None
  BY DEF NoThresholds
<1> QED
  BY <1>1, <1>2, <1>3 DEF Summary

(* Without a domain it is about all reports. *)
LEMMA SummaryOfEverything ==
    /\ Summary(NoThresholds, None).dmarc = DmarcSummary(dmarc)
    /\ Summary(NoThresholds, None).tls = TlsSummary(tls)
<1>1. {h \in dmarc : SameDomain(None, Dmarc[h].domain)} = dmarc
  BY DEF SameDomain
<1>2. {h \in tls : None # None => \E p \in Policies(h) : SameDomain(None, p.domain)} = tls
  OBVIOUS
<1> QED
  BY <1>1, <1>2, SummaryOfAll

(* The charts of a domain show a failure of DKIM or SPF exactly if its     *)
(* list has a report flagged for it.                                       *)
THEOREM ChartsAreFlagged == QueriesSpec => []ChartsAgreeWithFlags
<1>1. ChartsAgreeWithFlags
  <2> SUFFICES ASSUME NEW d \in AllDomains
      PROVE  LET s == Summary(NoThresholds, d).dmarc
                 Failing(results) == DOMAIN results \ {"pass"} # {}
             IN  /\ (Failing(s.dkim_policy_results) \/ Failing(s.dkim_auth_results))
                      <=> DmarcList([NoFilter EXCEPT !.domain = d, !.dkim = TRUE]) # {}
                 /\ (Failing(s.spf_policy_results) \/ Failing(s.spf_auth_results))
                      <=> DmarcList([NoFilter EXCEPT !.domain = d, !.spf = TRUE]) # {}
    BY DEF ChartsAgreeWithFlags
  <2> DEFINE S == {h \in dmarc : SameDomain(d, Dmarc[h].domain)}
             s == Summary(NoThresholds, d).dmarc
             Failing(results) == DOMAIN results \ {"pass"} # {}
  <2>1. s = DmarcSummary(S)
    BY SummaryOfAll
  <2>2. DmarcList([NoFilter EXCEPT !.domain = d, !.dkim = TRUE]) = {h \in S : DkimFlagged(h)}
    BY FlagsOfRecords DEF DmarcList, NoFilter, Passes, SameDomain, InRange
  <2>3. DmarcList([NoFilter EXCEPT !.domain = d, !.spf = TRUE]) = {h \in S : SpfFlagged(h)}
    BY FlagsOfRecords DEF DmarcList, NoFilter, Passes, SameDomain, InRange
  <2>4. /\ (\E h \in S : \E r \in Records(h) : DkimFails(r)) <=> {h \in S : DkimFlagged(h)} # {}
        /\ (\E h \in S : \E r \in Records(h) : SpfFails(r)) <=> {h \in S : SpfFlagged(h)} # {}
    <3> HIDE DEF S
    <3> QED
      BY FlagsOfRecords
  <2> HIDE DEF S, s
  <2>5. /\ (Failing(s.dkim_policy_results) \/ Failing(s.dkim_auth_results))
             <=> \E h \in S : \E r \in Records(h) : DkimFails(r)
        /\ (Failing(s.spf_policy_results) \/ Failing(s.spf_auth_results))
             <=> \E h \in S : \E r \in Records(h) : SpfFails(r)
    BY <2>1, FailuresInCharts
  <2>6. /\ (Failing(s.dkim_policy_results) \/ Failing(s.dkim_auth_results))
             <=> DmarcList([NoFilter EXCEPT !.domain = d, !.dkim = TRUE]) # {}
        /\ (Failing(s.spf_policy_results) \/ Failing(s.spf_auth_results))
             <=> DmarcList([NoFilter EXCEPT !.domain = d, !.spf = TRUE]) # {}
    <3> HIDE DEF Failing
    <3> QED
      BY <2>2, <2>3, <2>4, <2>5
  <2> QED
    BY <2>6 DEF s
<1> QED
  BY <1>1, PTL

-----------------------------------------------------------------------------
(* What the charts of organizations and domains show. *)
LEMMA DmarcCharts ==
    ASSUME NEW S
    PROVE  LET s == DmarcSummary(S)
           IN  /\ s.orgs = [o \in {Dmarc[h].org : h \in S} |-> Cardinality({h \in S : Dmarc[h].org = o})]
               /\ s.domains = [d \in {Lower[Dmarc[h].domain] : h \in S} |->
                                 Cardinality({h \in S : Lower[Dmarc[h].domain] = d})]
BY DEF DmarcSummary, Counts

(* The chart of TLS domains counts policies, not reports. *)
LEMMA TlsCharts ==
    ASSUME NEW S
    PROVE  LET s == TlsSummary(S)
           IN  /\ s.orgs = [o \in {Tls[h].org : h \in S} |-> Cardinality({h \in S : Tls[h].org = o})]
               /\ s.domains = [d \in {Lower[Policy(p).domain] : p \in TlsPolicy(S)} |->
                                 Cardinality({p \in TlsPolicy(S) : Lower[Policy(p).domain] = d})]
BY DEF TlsSummary, Counts

(* Filters for an organization or a domain, as the links of the charts set *)
(* them.                                                                   *)
LEMMA ListsOfCharts ==
    ASSUME NEW x, x # None
    PROVE  /\ DmarcList([NoFilter EXCEPT !.org = x]) = {h \in dmarc : Dmarc[h].org = x}
           /\ DmarcList([NoFilter EXCEPT !.domain = x]) = {h \in dmarc : Lower[Dmarc[h].domain] = Lower[x]}
           /\ TlsList([NoFilter EXCEPT !.org = x]) = {h \in tls : Tls[h].org = x}
           /\ TlsList([NoFilter EXCEPT !.domain = x]) =
                {h \in tls : \E p \in Policies(h) : Lower[p.domain] = Lower[x]}
<1>1. DmarcList([NoFilter EXCEPT !.org = x]) = {h \in dmarc : Dmarc[h].org = x}
  BY DEF DmarcList, NoFilter, Passes, SameDomain, InRange
<1>2. DmarcList([NoFilter EXCEPT !.domain = x]) = {h \in dmarc : Lower[Dmarc[h].domain] = Lower[x]}
  BY DEF DmarcList, NoFilter, Passes, SameDomain, InRange
<1>3. TlsList([NoFilter EXCEPT !.org = x]) = {h \in tls : Tls[h].org = x}
  BY DEF TlsList, NoFilter, Passes, SameDomain
<1>4. TlsList([NoFilter EXCEPT !.domain = x]) =
        {h \in tls : \E p \in Policies(h) : Lower[p.domain] = Lower[x]}
  BY DEF TlsList, NoFilter, Passes, SameDomain
<1> QED
  BY <1>1, <1>2, <1>3, <1>4

(* Reports have finitely many policies, also together. *)
LEMMA PoliciesAreFinite ==
    ASSUME Known
    PROVE  IsFiniteSet(tls) /\ IsFiniteSet(TlsPolicy(tls))
<1> DEFINE places == [h \in tls |-> DOMAIN Tls[h].policies]
<1>1. IsFiniteSet(tls)
  BY ReportsAssumption, FS_Subset DEF Known
<1>2. \A h \in tls : IsFiniteSet(places[h])
  BY ReportsAssumption DEF Known
<1>3. \A p : p \in TlsPolicy(tls) <=> \E h \in tls : \E i \in places[h] : p = <<h, i>>
  BY DEF TlsPolicy
<1> HIDE DEF places
<1> QED
  BY <1>1, <1>2, <1>3, FinitelyManyPlaces

(* The organizations and domains of the charts of DMARC reports lead to    *)
(* lists of as many reports.                                               *)
LEMMA DmarcChartsLead ==
    ASSUME Known
    PROVE  LET s == DmarcSummary(dmarc)
           IN  /\ \A o \in DOMAIN s.orgs : s.orgs[o] = Cardinality(DmarcList([NoFilter EXCEPT !.org = o]))
               /\ \A d \in DOMAIN s.domains :
                    s.domains[d] = Cardinality(DmarcList([NoFilter EXCEPT !.domain = d]))
<1> DEFINE orgs == DmarcSummary(dmarc).orgs
           domains == DmarcSummary(dmarc).domains
<1>1. /\ orgs = [o \in {Dmarc[h].org : h \in dmarc} |-> Cardinality({h \in dmarc : Dmarc[h].org = o})]
      /\ domains = [d \in {Lower[Dmarc[h].domain] : h \in dmarc} |->
                      Cardinality({h \in dmarc : Lower[Dmarc[h].domain] = d})]
  BY DmarcCharts
<1> HIDE DEF orgs, domains
<1>2. ASSUME NEW o \in DOMAIN orgs
      PROVE  orgs[o] = Cardinality(DmarcList([NoFilter EXCEPT !.org = o]))
  <2>1. o # None
    BY <1>1, ReportsAssumption DEF Known
  <2>2. DmarcList([NoFilter EXCEPT !.org = o]) = {h \in dmarc : Dmarc[h].org = o}
    BY <2>1, ListsOfCharts
  <2> QED
    BY <1>1, <2>2
<1>3. ASSUME NEW d \in DOMAIN domains
      PROVE  domains[d] = Cardinality(DmarcList([NoFilter EXCEPT !.domain = d]))
  <2>1. d # None /\ Lower[d] = d
    BY <1>1, ReportsAssumption DEF Known
  <2>2. DmarcList([NoFilter EXCEPT !.domain = d]) = {h \in dmarc : Lower[Dmarc[h].domain] = d}
    <3>1. DmarcList([NoFilter EXCEPT !.domain = d]) = {h \in dmarc : Lower[Dmarc[h].domain] = Lower[d]}
      BY <2>1, ListsOfCharts
    <3> QED
      BY <2>1, <3>1
  <2> QED
    BY <1>1, <2>2
<1> QED
  BY <1>2, <1>3 DEF orgs, domains

(* So do the organizations of TLS reports; a domain leads to at least one  *)
(* report, and to no more reports than it has policies.                    *)
LEMMA TlsChartsLead ==
    ASSUME Known
    PROVE  LET s == TlsSummary(tls)
           IN  /\ \A o \in DOMAIN s.orgs : s.orgs[o] = Cardinality(TlsList([NoFilter EXCEPT !.org = o]))
               /\ \A d \in DOMAIN s.domains :
                    Cardinality(TlsList([NoFilter EXCEPT !.domain = d])) \in 1 .. s.domains[d]
<1> DEFINE orgs == TlsSummary(tls).orgs
           domains == TlsSummary(tls).domains
<1>1. /\ orgs = [o \in {Tls[h].org : h \in tls} |-> Cardinality({h \in tls : Tls[h].org = o})]
      /\ domains = [d \in {Lower[Policy(p).domain] : p \in TlsPolicy(tls)} |->
                      Cardinality({p \in TlsPolicy(tls) : Lower[Policy(p).domain] = d})]
  BY TlsCharts
<1> HIDE DEF orgs, domains
<1>2. ASSUME NEW o \in DOMAIN orgs
      PROVE  orgs[o] = Cardinality(TlsList([NoFilter EXCEPT !.org = o]))
  <2>1. o # None
    BY <1>1, ReportsAssumption DEF Known
  <2>2. TlsList([NoFilter EXCEPT !.org = o]) = {h \in tls : Tls[h].org = o}
    BY <2>1, ListsOfCharts
  <2> QED
    BY <1>1, <2>2
<1>3. ASSUME NEW d \in DOMAIN domains
      PROVE  Cardinality(TlsList([NoFilter EXCEPT !.domain = d])) \in 1 .. domains[d]
  <2> DEFINE P == {p \in TlsPolicy(tls) : Lower[Policy(p).domain] = d}
             L == {h \in tls : \E p \in Policies(h) : Lower[p.domain] = d}
             report == [p \in P |-> p[1]]
  <2>1. \A p : p \in TlsPolicy(tls) <=> \E h \in tls : \E i \in DOMAIN Tls[h].policies : p = <<h, i>>
    BY DEF TlsPolicy
  <2>2. \A h, i : Policy(<<h, i>>) = Tls[h].policies[i]
    BY DEF Policy
  <2>3. PICK p \in TlsPolicy(tls) : d = Lower[Policy(p).domain]
    BY <1>1
  <2>4. d # None /\ Lower[d] = d
    <3>1. PICK h \in tls : \E i \in DOMAIN Tls[h].policies : p = <<h, i>>
      BY <2>1
    <3>2. Policy(p).domain \in DOMAIN Lower
      BY <2>2, <3>1, ReportsAssumption DEF Known
    <3> QED
      BY <2>3, <3>2, ReportsAssumption
  <2>5. TlsList([NoFilter EXCEPT !.domain = d]) = L
    <3>1. TlsList([NoFilter EXCEPT !.domain = d]) =
            {h \in tls : \E q \in Policies(h) : Lower[q.domain] = Lower[d]}
      BY <2>4, ListsOfCharts
    <3> QED
      BY <2>4, <3>1
  <2>6. ASSUME NEW q \in P PROVE q[1] \in L
    <3>1. PICK h \in tls : \E i \in DOMAIN Tls[h].policies : q = <<h, i>>
      BY <2>1
    <3>2. PICK i \in DOMAIN Tls[h].policies : q = <<h, i>>
      BY <3>1
    <3>3. Tls[h].policies[i] \in Policies(h) /\ Lower[Tls[h].policies[i].domain] = d
      BY <2>2, <3>2 DEF Policies, Range
    <3> QED
      BY <3>2, <3>3
  <2>7. ASSUME NEW h \in L PROVE \E q \in P : q[1] = h
    <3>1. PICK i \in DOMAIN Tls[h].policies : Lower[Tls[h].policies[i].domain] = d
      BY DEF Policies, Range
    <3>2. <<h, i>> \in P
      BY <2>1, <2>2, <3>1
    <3> QED
      BY <3>2
  <2>8. p \in P
    BY <2>3
  <2>9. IsFiniteSet(P)
    BY PoliciesAreFinite, FS_Subset
  <2>10. domains[d] = Cardinality(P)
    BY <1>1
  <2> HIDE DEF P, L
  <2>11. report \in Surjection(P, L)
    BY <2>6, <2>7 DEF Surjection
  <2> HIDE DEF report
  <2>12. IsFiniteSet(L) /\ Cardinality(L) <= Cardinality(P)
    BY <2>9, <2>11, FS_Surjection
  <2>13. Cardinality(L) # 0
    BY <2>6, <2>8, <2>12, FS_EmptySet
  <2> QED
    BY <2>5, <2>9, <2>10, <2>12, <2>13, FS_CardinalityType
<1> QED
  BY <1>2, <1>3 DEF orgs, domains

(* The charts of the dashboard lead to lists with as many reports as they  *)
(* say, or, for TLS domains, with some but not more.                       *)
THEOREM ChartsAreRight == QueriesSpec => []ChartsLeadToReports
<1>1. Known => ChartsLeadToReports
  <2> SUFFICES ASSUME Known PROVE ChartsLeadToReports
    OBVIOUS
  <2> QED
    BY SummaryOfEverything, DmarcChartsLead, TlsChartsLead DEF ChartsLeadToReports
<1> QED
  BY <1>1, OnlyKnown, PTL

-----------------------------------------------------------------------------

(* How many elements have each domain, and the same with the counts of all *)
(* spellings of a domain put together.                                     *)
CountedBy(S, domain) == [x \in {domain[s] : s \in S} |-> Cardinality({s \in S : domain[s] = x})]
SpellingsTogether(counts) ==
    [d \in {Lower[x] : x \in DOMAIN counts} |->
        Cardinality(UNION {{x} \X (1 .. counts[x]) : x \in {y \in DOMAIN counts : Lower[y] = d}})]

(* It is how many elements have each domain in lower case. *)
LEMMA CountedInLowerCase ==
    ASSUME NEW S, IsFiniteSet(S), NEW domain, NEW lower, lower = [s \in S |-> Lower[domain[s]]]
    PROVE  SpellingsTogether(CountedBy(S, domain)) = CountedBy(S, lower)
<1> DEFINE counts == CountedBy(S, domain)
           Spelled(d) == {y \in DOMAIN counts : Lower[y] = d}
           Pairs(d) == UNION {{x} \X (1 .. counts[x]) : x \in Spelled(d)}
           Of(d) == {s \in S : lower[s] = d}
<1>1. DOMAIN counts = {domain[s] : s \in S}
  BY DEF CountedBy
<1>2. \A x \in DOMAIN counts : counts[x] = Cardinality({s \in S : domain[s] = x})
  BY DEF CountedBy
<1> HIDE DEF counts
<1>3. {Lower[x] : x \in DOMAIN counts} = {lower[s] : s \in S}
  BY <1>1
<1>4. ASSUME NEW d
      PROVE  Cardinality(Of(d)) = Cardinality(Pairs(d))
  <2> DEFINE owner == [s \in Of(d) |-> domain[s]]
             part == [x \in Spelled(d) |-> {s \in S : domain[s] = x}]
  <2>1. IsFiniteSet(Of(d))
    BY FS_Subset
  <2>2. owner \in [Of(d) -> Spelled(d)]
    BY <1>1
  <2>3. \A x \in Spelled(d) : \A s : s \in part[x] <=> s \in Of(d) /\ owner[s] = x
    OBVIOUS
  <2>4. \A x \in Spelled(d) : counts[x] = Cardinality(part[x])
    BY <1>2
  <2>5. \A q : q \in Pairs(d) <=> \E x \in Spelled(d) : q \in {x} \X (1 .. counts[x])
    OBVIOUS
  <2> HIDE DEF Of, Spelled, Pairs, owner, part
  <2>6. CutInParts(Of(d), Spelled(d), owner, part, counts, Pairs(d))
    BY <2>1, <2>2, <2>3, <2>4, <2>5 DEF CutInParts
  <2> QED
    BY ONLY <2>6, CountedByParts
<1> HIDE DEF Of, Pairs
<1>5. [d \in {Lower[x] : x \in DOMAIN counts} |-> Cardinality(Pairs(d))]
        = [d \in {lower[s] : s \in S} |-> Cardinality(Of(d))]
  BY <1>3, <1>4
<1> QED
  BY <1>5 DEF Of, Pairs, counts, SpellingsTogether, CountedBy

(* The metrics count the reports, and the policies, of a domain like the   *)
(* dashboard, but for the spelling of the domain.                          *)
THEOREM MetricsAreRight == QueriesSpec => []MetricsAgree
<1>1. Known => MetricsAgree
  <2> SUFFICES ASSUME Known PROVE MetricsAgree
    OBVIOUS
  <2>1. DmarcSummary(dmarc).domains = SpellingsTogether(DmarcPerDomain)
    <3> DEFINE domain == [h \in dmarc |-> Dmarc[h].domain]
               lower == [h \in dmarc |-> Lower[domain[h]]]
    <3>1. IsFiniteSet(dmarc)
      BY ReportsAssumption, FS_Subset DEF Known
    <3>2. DmarcPerDomain = CountedBy(dmarc, domain)
      <4>1. /\ {Dmarc[h].domain : h \in dmarc} = {domain[h] : h \in dmarc}
            /\ \A x : {h \in dmarc : Dmarc[h].domain = x} = {h \in dmarc : domain[h] = x}
        OBVIOUS
      <4> QED
        BY <4>1 DEF DmarcPerDomain, Counts, CountedBy
    <3>3. DmarcSummary(dmarc).domains = CountedBy(dmarc, lower)
      <4>1. /\ {Lower[Dmarc[h].domain] : h \in dmarc} = {lower[h] : h \in dmarc}
            /\ \A x : {h \in dmarc : Lower[Dmarc[h].domain] = x} = {h \in dmarc : lower[h] = x}
        OBVIOUS
      <4>2. DmarcSummary(dmarc).domains =
              [d \in {Lower[Dmarc[h].domain] : h \in dmarc} |->
                 Cardinality({h \in dmarc : Lower[Dmarc[h].domain] = d})]
        BY DmarcCharts
      <4> HIDE DEF lower
      <4> QED
        BY <4>1, <4>2 DEF CountedBy
    <3>4. lower = [h \in dmarc |-> Lower[domain[h]]]
      OBVIOUS
    <3> HIDE DEF domain, lower
    <3> QED
      BY <3>1, <3>2, <3>3, <3>4, CountedInLowerCase
  <2>2. TlsSummary(tls).domains = SpellingsTogether(TlsPerDomain)
    <3> DEFINE P == TlsPolicy(tls)
               domain == [p \in P |-> Policy(p).domain]
               lower == [p \in P |-> Lower[domain[p]]]
    <3>1. IsFiniteSet(P)
      BY PoliciesAreFinite
    <3>2. TlsPerDomain = CountedBy(P, domain)
      <4>1. /\ {Policy(p).domain : p \in P} = {domain[p] : p \in P}
            /\ \A x : {p \in P : Policy(p).domain = x} = {p \in P : domain[p] = x}
        OBVIOUS
      <4> QED
        BY <4>1 DEF TlsPerDomain, Counts, CountedBy
    <3>3. TlsSummary(tls).domains = CountedBy(P, lower)
      <4>1. /\ {Lower[Policy(p).domain] : p \in P} = {lower[p] : p \in P}
            /\ \A x : {p \in P : Lower[Policy(p).domain] = x} = {p \in P : lower[p] = x}
        OBVIOUS
      <4>2. TlsSummary(tls).domains =
              [d \in {Lower[Policy(p).domain] : p \in P} |->
                 Cardinality({p \in P : Lower[Policy(p).domain] = d})]
        BY TlsCharts
      <4> HIDE DEF lower
      <4> QED
        BY <4>1, <4>2 DEF CountedBy
    <3>4. lower = [p \in P |-> Lower[domain[p]]]
      OBVIOUS
    <3> HIDE DEF domain, lower, P
    <3> QED
      BY <3>1, <3>2, <3>3, <3>4, CountedInLowerCase
  <2> QED
    BY <2>1, <2>2, SummaryOfEverything DEF MetricsAgree, SpellingsTogether
<1> QED
  BY <1>1, OnlyKnown, PTL

-----------------------------------------------------------------------------
(***************************************************************************)
(* The page of sources.                                                    *)
(***************************************************************************)
(* There are finitely many sources, so the handler can answer with a list. *)
LEMMA SourcesAreFinite == Known => IsFiniteSet(Sources)
<1> SUFFICES ASSUME Known PROVE IsFiniteSet(Sources)
  OBVIOUS
<1> DEFINE Row == DmarcEntry(dmarc)
           Fail == TlsDetail(TlsPolicy(tls))
<1>1. IsFiniteSet(Row)
  <2> DEFINE places == [h \in dmarc |-> DOMAIN Dmarc[h].record]
  <2>1. IsFiniteSet(dmarc)
    BY ReportsAssumption, FS_Subset DEF Known
  <2>2. \A h \in dmarc : IsFiniteSet(places[h])
    BY ReportsAssumption DEF Known
  <2>3. \A e : e \in Row <=> \E h \in dmarc : \E i \in places[h] : e = <<h, i>>
    BY DmarcEntries
  <2> HIDE DEF places, Row
  <2> QED
    BY <2>1, <2>2, <2>3, FinitelyManyPlaces
<1>2. IsFiniteSet(Fail)
  <2> DEFINE places == [p \in TlsPolicy(tls) |-> DOMAIN Policy(p).details]
  <2>1. IsFiniteSet(TlsPolicy(tls))
    BY PoliciesAreFinite
  <2>2. \A p \in TlsPolicy(tls) : IsFiniteSet(places[p])
    <3> SUFFICES ASSUME NEW p \in TlsPolicy(tls) PROVE IsFiniteSet(DOMAIN Policy(p).details)
      OBVIOUS
    <3>1. PICK h \in tls : \E i \in DOMAIN Tls[h].policies : p = <<h, i>>
      BY DEF TlsPolicy
    <3>2. PICK i \in DOMAIN Tls[h].policies : p = <<h, i>>
      BY <3>1
    <3>3. Policy(p) = Tls[h].policies[i]
      BY <3>2 DEF Policy
    <3> QED
      BY <3>3, ReportsAssumption DEF Known
  <2>3. \A d : d \in Fail <=> \E p \in TlsPolicy(tls) : \E k \in places[p] : d = <<p, k>>
    BY DEF TlsDetail
  <2> HIDE DEF places, Fail
  <2> QED
    BY <2>1, <2>2, <2>3, FinitelyManyPlaces
<1> HIDE DEF Row, Fail
<1>3. IsFiniteSet({Entry(e).ip : e \in Row})
  <2> DEFINE ip == [e \in Row |-> Entry(e).ip]
             T == {Entry(e).ip : e \in Row}
  <2>1. \A t : t \in T <=> \E e \in Row : t = ip[e]
    OBVIOUS
  <2> HIDE DEF ip, T
  <2>2. IsFiniteSet(T)
    BY <1>1, <2>1, FinitelyManyImages
  <2> QED
    BY <2>2 DEF T
<1>4. IsFiniteSet({Detail(d).ip : d \in Fail})
  <2> DEFINE ip == [d \in Fail |-> Detail(d).ip]
             T == {Detail(d).ip : d \in Fail}
  <2>1. \A t : t \in T <=> \E d \in Fail : t = ip[d]
    OBVIOUS
  <2> HIDE DEF ip, T
  <2>2. IsFiniteSet(T)
    BY <1>2, <2>1, FinitelyManyImages
  <2> QED
    BY <2>2 DEF T
<1>5. IsFiniteSet(SourceIps)
  <2> DEFINE A == {Entry(e).ip : e \in Row}
             B == {Detail(d).ip : d \in Fail}
  <2>1. SourceIps = A \cup (B \ {None})
    BY DEF SourceIps, Row, Fail
  <2> HIDE DEF A, B
  <2>2. IsFiniteSet(A) /\ IsFiniteSet(B)
    BY <1>3, <1>4 DEF A, B
  <2> QED
    BY <2>1, <2>2, FS_Union, FS_Difference
<1> DEFINE source == [ip \in SourceIps |-> Source(ip)]
<1>6. \A t : t \in Sources <=> \E ip \in SourceIps : t = source[ip]
  BY DEF Sources
<1> HIDE DEF source
<1> QED
  BY <1>5, <1>6, FinitelyManyImages

(* Every element of a filtered list is one that the filter lets through. *)
LEMMA FilteredMatches ==
    ASSUME NEW list, NEW f, NEW n \in Nat, DOMAIN list = 1 .. n
    PROVE  /\ \E k \in Nat : DOMAIN Filtered(list, f) = 1 .. k
           /\ \A j \in DOMAIN Filtered(list, f) : Matches(Filtered(list, f)[j], f)
<1> DEFINE kept == {i \in DOMAIN list : Matches(list[i], f)}
           Ascending(p) == \A i, j \in DOMAIN p : i < j => p[i] < p[j]
           places == CHOOSE p \in SetToSeqs(kept) : Ascending(p)
           stamp == [i \in kept |-> i]
<1>1. Filtered(list, f) = [j \in DOMAIN places |-> list[places[j]]]
  BY DEF Filtered
<1>2. \A i \in kept : Matches(list[i], f)
  OBVIOUS
<1>3. kept \subseteq 1 .. n
  OBVIOUS
<1> HIDE DEF kept
<1>4. IsFiniteSet(kept)
  <2>1. IsFiniteSet(1 .. n)
    BY FS_Interval
  <2> QED
    BY <1>3, <2>1, FS_Subset
<1>5. \E p \in SetToSeqs(kept) : Ascending(p)
  <2>1. /\ stamp \in [kept -> Nat]
        /\ \A i, j \in kept : stamp[i] = stamp[j] => i = j
    BY <1>3
  <2>2. \A i \in kept : stamp[i] = i
    OBVIOUS
  <2> HIDE DEF stamp
  <2>3. PICK p \in SetToSeqs(kept) : \A i, j \in DOMAIN p : i < j => stamp[p[i]] < stamp[p[j]]
    BY <1>4, <2>1, InOrder
  <2>4. \A i \in DOMAIN p : p[i] \in kept
    BY DEF SetToSeqs
  <2> QED
    BY <2>2, <2>3, <2>4
<1>6. places \in SetToSeqs(kept)
  <2> HIDE DEF Ascending
  <2> QED
    BY <1>5
<1> HIDE DEF places
<1>7. DOMAIN places = 1 .. Cardinality(kept) /\ \A j \in DOMAIN places : places[j] \in kept
  BY <1>6 DEF SetToSeqs
<1>8. Cardinality(kept) \in Nat
  BY <1>4, FS_CardinalityType
<1> QED
  BY <1>1, <1>2, <1>7, <1>8

-----------------------------------------------------------------------------
(* The inductive invariant of the page, in named parts.  A list is a       *)
(* sequence of some length.                                                *)
IsList(s) == Len(s) \in Nat /\ DOMAIN s = 1 .. Len(s)

IsCall(x) == x = [pc |-> x.pc, answer |-> x.answer, offset |-> x.offset, chunk |-> x.chunk]

CallType(x) ==
    /\ IsCall(x)
    /\ x.pc = "answered" => \E n \in Nat : DOMAIN x.answer = 1 .. n
    /\ x.pc = "names" => x.offset \in Nat /\ IsList(x.chunk)

CallTypes == calls \in Seq(Range(calls)) /\ \A c \in DOMAIN calls : CallType(calls[c])

ListTypes ==
    /\ IsList(sources)
    /\ \A i \in DOMAIN sources : sources[i] = [source |-> sources[i].source, dns |-> sources[i].dns]

(* A chunk that is asked for is still what is in its place in the list. *)
ChunkFits(call) ==
    call.pc = "names" =>
        \A j \in 1 .. Len(call.chunk) :
            /\ call.offset + j \in DOMAIN sources
            /\ call.chunk[j] = sources[call.offset + j].source.ip

(* As long as calls do not overlap, there is no other call that could have *)
(* replaced the list.                                                      *)
Alone ==
    ~overlapped =>
        /\ \A c, e \in Running : c = e
        /\ \A c \in DOMAIN calls : ChunkFits(calls[c])
        /\ \A i \in DOMAIN sources : sources[i].dns \in {Loading, NoHost, sources[i].source.ip}

PInv == Known /\ CallTypes /\ ListTypes /\ Alone /\ PageObeysFilter

(* The functions made in the actions are lists. *)
LEMMA MadeList ==
    ASSUME NEW n \in Nat, NEW S, NEW s \in [1 .. n -> S]
    PROVE  s \in Seq(S) /\ IsList(s) /\ Len(s) = n
<1>1. s \in Seq(S)
  BY SeqDef
<1> QED
  BY <1>1, LenProperties DEF IsList

(* The next chunk is what follows in the list. *)
LEMMA NextChunk ==
    ASSUME NEW call, IsCall(call), NEW list, IsList(list), NEW offset \in Nat
    PROVE  LET next == GoOn(call, list, offset)
           IN  /\ CallType(next)
               /\ next.pc \in {"done", "names"}
               /\ next.pc = "names" =>
                    /\ next.offset = offset
                    /\ \A j \in 1 .. Len(next.chunk) :
                         /\ offset + j \in DOMAIN list
                         /\ next.chunk[j] = list[offset + j].source.ip
<1> DEFINE m == Min({ChunkSize, Len(list) - offset})
           chunk == [i \in 1 .. m |-> list[offset + i].source.ip]
<1>1. CASE Len(list) <= offset
  <2>1. GoOn(call, list, offset) = [NewCall EXCEPT !.pc = "done"]
    BY <1>1 DEF GoOn
  <2>2. GoOn(call, list, offset) = [pc |-> "done", answer |-> <<>>, offset |-> 0, chunk |-> <<>>]
    BY <2>1 DEF NewCall
  <2> QED
    BY <2>2 DEF CallType, IsCall
<1>2. CASE ~(Len(list) <= offset)
  <2>1. GoOn(call, list, offset)
          = [call EXCEPT !.pc = "names", !.answer = <<>>, !.offset = offset, !.chunk = chunk]
    BY <1>2 DEF GoOn
  <2>2. GoOn(call, list, offset) = [pc |-> "names", answer |-> <<>>, offset |-> offset, chunk |-> chunk]
    <3> HIDE DEF chunk
    <3> QED
      BY <2>1 DEF IsCall
  <2>3. m \in Nat /\ m <= Len(list) - offset
    <3>1. Len(list) - offset \in Nat /\ ChunkSize \in Nat
      BY <1>2, PageAssumption DEF IsList
    <3> QED
      BY <3>1 DEF Min
  <2> HIDE DEF m
  <2>4. chunk \in [1 .. m -> Range(chunk)]
    BY DEF Range
  <2>5. IsList(chunk) /\ Len(chunk) = m
    <3> HIDE DEF chunk
    <3> QED
      BY <2>3, <2>4, MadeList
  <2>6. \A j \in 1 .. m : offset + j \in DOMAIN list /\ chunk[j] = list[offset + j].source.ip
    BY <2>3 DEF IsList
  <2> HIDE DEF chunk
  <2> QED
    BY <2>2, <2>5, <2>6 DEF CallType, IsCall
<1> QED
  BY <1>1, <1>2

(* One call goes on, the others stay as they are. *)
LEMMA CallGoesOn ==
    ASSUME CallTypes, NEW c \in DOMAIN calls, NEW x, calls' = [calls EXCEPT ![c] = x],
           CallType(x)
    PROVE  /\ CallTypes'
           /\ DOMAIN calls' = DOMAIN calls
           /\ calls'[c] = x
           /\ \A e \in DOMAIN calls : e # c => calls'[e] = calls[e]
<1>1. DOMAIN calls = 1 .. Len(calls) /\ Len(calls) \in Nat
  BY LenProperties DEF CallTypes
<1>2. DOMAIN calls' = DOMAIN calls /\ calls'[c] = x /\ \A e \in DOMAIN calls : e # c => calls'[e] = calls[e]
  BY <1>1
<1>3. calls' \in [1 .. Len(calls) -> Range(calls')]
  <2>1. calls' = [e \in DOMAIN calls |-> IF e = c THEN x ELSE calls[e]]
    BY <1>1
  <2>2. calls' = [e \in 1 .. Len(calls) |-> calls'[e]]
    BY <1>1, <2>1
  <2>3. \A e \in 1 .. Len(calls) : calls'[e] \in Range(calls')
    BY <1>1, <1>2 DEF Range
  <2> QED
    BY <2>2, <2>3
<1>4. calls' \in Seq(Range(calls'))
  BY <1>1, <1>3, MadeList
<1>5. ASSUME NEW e \in DOMAIN calls'
      PROVE  CallType(calls'[e])
  <2>1. CASE e = c
    BY <1>2, <2>1
  <2>2. CASE e # c
    BY <1>2, <2>2 DEF CallTypes
  <2> QED
    BY <2>1, <2>2
<1> QED
  BY <1>2, <1>4, <1>5 DEF CallTypes

(* A new call is the last one. *)
LEMMA CallIsNew ==
    ASSUME CallTypes, calls' = Append(calls, NewCall)
    PROVE  /\ CallTypes'
           /\ DOMAIN calls' = DOMAIN calls \cup {Len(calls) + 1}
           /\ calls'[Len(calls) + 1] = NewCall
           /\ \A e \in DOMAIN calls : calls'[e] = calls[e]
<1> DEFINE S == Range(calls) \cup {NewCall}
           n == Len(calls) + 1
<1>1. DOMAIN calls = 1 .. Len(calls) /\ Len(calls) \in Nat
  BY LenProperties DEF CallTypes
<1>2. calls \in Seq(S) /\ NewCall \in S
  <2>1. calls \in [1 .. Len(calls) -> S]
    <3>1. calls = [e \in 1 .. Len(calls) |-> calls[e]]
      BY <1>1, LenProperties DEF CallTypes
    <3>2. \A e \in 1 .. Len(calls) : calls[e] \in S
      BY <1>1 DEF Range
    <3> HIDE DEF S
    <3> QED
      BY <3>1, <3>2
  <2> QED
    BY <1>1, <2>1, MadeList
<1> HIDE DEF S
<1>3. /\ calls' \in Seq(S) /\ Len(calls') = n /\ DOMAIN calls' = 1 .. n
      /\ \A e \in 1 .. Len(calls) : calls'[e] = calls[e]
      /\ calls'[n] = NewCall
  <2>1. calls' \in Seq(S) /\ Len(calls') = n
    BY <1>2, AppendProperties
  <2>2. \A e \in 1 .. Len(calls) : calls'[e] = calls[e]
    BY <1>2, AppendProperties
  <2>3. calls'[n] = NewCall
    BY <1>2, AppendProperties
  <2> QED
    BY <2>1, <2>2, <2>3, LenProperties
<1>4. DOMAIN calls' = DOMAIN calls \cup {n}
  BY <1>1, <1>3
<1>5. calls' \in Seq(Range(calls'))
  <2>1. calls' = [e \in 1 .. n |-> calls'[e]]
    BY <1>3, LenProperties
  <2>2. \A e \in 1 .. n : calls'[e] \in Range(calls')
    BY <1>3 DEF Range
  <2>3. calls' \in [1 .. n -> Range(calls')]
    BY <2>1, <2>2
  <2>4. n \in Nat
    BY <1>1
  <2> HIDE DEF n
  <2> QED
    BY <2>3, <2>4, MadeList
<1>6. ASSUME NEW e \in DOMAIN calls'
      PROVE  CallType(calls'[e])
  <2>1. CASE e = n
    BY <1>3, <2>1 DEF CallType, IsCall, NewCall
  <2>2. CASE e \in DOMAIN calls
    BY <1>1, <1>3, <2>2 DEF CallTypes
  <2> QED
    BY <1>4, <2>1, <2>2
<1> QED
  BY <1>1, <1>3, <1>4, <1>5, <1>6 DEF CallTypes

(* It holds when the page is opened. *)
LEMMA PInvInit == Init => PInv
<1> SUFFICES ASSUME Init PROVE PInv
  OBVIOUS
<1>1. Known
  BY DEF Init, Known
<1>2. /\ DOMAIN calls = {1} /\ calls[1] = NewCall
      /\ sources = <<>> /\ DOMAIN sources = {} /\ Len(sources) = 0
  BY DEF Init
<1>3. CallTypes
  <2>1. calls \in Seq(Range(calls))
    <3>1. Range(calls) = {NewCall} /\ calls = <<NewCall>>
      BY <1>2 DEF Range, Init
    <3> HIDE DEF NewCall
    <3> QED
      BY <3>1
  <2> QED
    BY <1>2, <2>1 DEF CallTypes, CallType, IsCall, NewCall
<1>4. ListTypes
  BY <1>2 DEF ListTypes, IsList
<1>5. Alone
  BY <1>2 DEF Alone, Running, ChunkFits, NewCall
<1>6. PageObeysFilter
  BY <1>2 DEF PageObeysFilter
<1> QED
  BY <1>1, <1>3, <1>4, <1>5, <1>6 DEF PInv

(* A publication changes nothing on the page. *)
LEMMA UpdateStep == PInv /\ Update => PInv'
<1> SUFFICES ASSUME PInv, Update PROVE PInv'
  OBVIOUS
<1>1. Known'
  BY DEF PInv, Update, Known, Publish
<1>2. params' = params /\ sources' = sources /\ calls' = calls /\ overlapped' = overlapped
  BY DEF Update, page
<1>3. CallTypes' /\ ListTypes'
  BY <1>2 DEF PInv, CallTypes, ListTypes
<1>4. Alone'
  <2>1. Running' = Running
    BY <1>2 DEF Running
  <2> QED
    BY <1>2, <2>1 DEF PInv, Alone, ChunkFits
<1>5. PageObeysFilter'
  BY <1>2 DEF PInv, PageObeysFilter, Matches, SameDomain
<1> QED
  BY <1>1, <1>3, <1>4, <1>5 DEF PInv

(* Nor does a visit to what is shown.  If no other call runs, the new one  *)
(* is alone.                                                               *)
LEMMA VisitStep == PInv /\ Visit => PInv'
<1> SUFFICES ASSUME PInv, Visit PROVE PInv'
  OBVIOUS
<1>1. /\ dmarc' = dmarc /\ tls' = tls /\ sources' = sources
      /\ calls' = Append(calls, NewCall)
      /\ overlapped' = (overlapped \/ Running # {})
  BY DEF Visit, published
<1>2. /\ CallTypes'
      /\ DOMAIN calls' = DOMAIN calls \cup {Len(calls) + 1}
      /\ calls'[Len(calls) + 1] = NewCall
      /\ \A e \in DOMAIN calls : calls'[e] = calls[e]
  BY <1>1, CallIsNew DEF PInv
<1>3. Known' /\ ListTypes'
  BY <1>1 DEF PInv, Known, ListTypes
<1>4. Alone'
  <2> SUFFICES ASSUME ~overlapped'
               PROVE  /\ \A c, e \in Running' : c = e
                      /\ \A c \in DOMAIN calls' : ChunkFits(calls[c])'
                      /\ \A i \in DOMAIN sources : sources[i].dns \in {Loading, NoHost, sources[i].source.ip}
    BY <1>1 DEF Alone
  <2>1. ~overlapped /\ Running = {}
    BY <1>1
  <2>2. \A c \in DOMAIN calls : calls[c].pc \in Ended
    BY <2>1 DEF Running
  <2>3. Running' \subseteq {Len(calls) + 1}
    BY <1>2, <2>2 DEF Running
  <2>4. ASSUME NEW c \in DOMAIN calls' PROVE calls'[c].pc # "names"
    BY <1>2, <2>2, <2>4 DEF NewCall, Ended
  <2> QED
    BY <2>1, <2>3, <2>4 DEF PInv, Alone, ChunkFits
<1>5. PageObeysFilter'
  BY <1>2 DEF PageObeysFilter, NewCall
<1> QED
  BY <1>2, <1>3, <1>4, <1>5 DEF PInv

(* The server's answer is a list of the sources. *)
LEMMA ServerAnswersStep == \A c \in DOMAIN calls : PInv /\ ServerAnswers(c) => PInv'
<1> SUFFICES ASSUME NEW c \in DOMAIN calls, PInv, ServerAnswers(c) PROVE PInv'
  OBVIOUS
<1>1. /\ dmarc' = dmarc /\ tls' = tls /\ params' = params /\ sources' = sources
      /\ overlapped' = overlapped /\ calls[c].pc = "asked"
  BY DEF ServerAnswers, published
<1>2. PICK s \in SourceLists :
        calls' = [calls EXCEPT ![c] = [pc |-> "answered", answer |-> s, offset |-> 0, chunk |-> <<>>]]
  BY DEF ServerAnswers
<1> DEFINE x == [pc |-> "answered", answer |-> s, offset |-> 0, chunk |-> <<>>]
<1>3. calls' = [calls EXCEPT ![c] = x]
  BY <1>2
<1>4. \E n \in Nat : DOMAIN s = 1 .. n
  <2>1. Cardinality(Sources) \in Nat
    BY SourcesAreFinite, FS_CardinalityType DEF PInv
  <2>2. DOMAIN s = 1 .. Cardinality(Sources)
    BY DEF SourceLists, SetToSeqs
  <2> QED
    BY <2>1, <2>2
<1>5. CallType(x) /\ x.pc = "answered"
  BY <1>4 DEF CallType, IsCall
<1> HIDE DEF x
<1>6. /\ CallTypes'
      /\ DOMAIN calls' = DOMAIN calls
      /\ calls'[c] = x
      /\ \A e \in DOMAIN calls : e # c => calls'[e] = calls[e]
  BY <1>3, <1>5, CallGoesOn DEF PInv
<1>7. Known' /\ ListTypes'
  BY <1>1 DEF PInv, Known, ListTypes
<1>8. Alone'
  <2>1. Running' = Running
    BY <1>1, <1>5, <1>6 DEF Running, Ended
  <2>2. ASSUME NEW e \in DOMAIN calls', ~overlapped PROVE ChunkFits(calls[e])'
    <3>1. calls'[e].pc = "names" => calls'[e] = calls[e]
      BY <1>5, <1>6
    <3> QED
      BY <1>1, <1>6, <2>2, <3>1 DEF PInv, Alone, ChunkFits
  <2> QED
    BY <1>1, <2>1, <2>2 DEF PInv, Alone
<1>9. PageObeysFilter'
  BY <1>5, <1>6 DEF PageObeysFilter
<1> QED
  BY <1>6, <1>7, <1>8, <1>9 DEF PInv

(* A call that fails leaves the page as it is. *)
LEMMA RequestFailsStep == \A c \in DOMAIN calls : PInv /\ RequestFails(c) => PInv'
<1> SUFFICES ASSUME NEW c \in DOMAIN calls, PInv, RequestFails(c) PROVE PInv'
  OBVIOUS
<1> DEFINE x == [pc |-> "lost", answer |-> <<>>, offset |-> 0, chunk |-> <<>>]
<1>1. /\ dmarc' = dmarc /\ tls' = tls /\ params' = params /\ sources' = sources
      /\ overlapped' = overlapped
  BY DEF RequestFails, published
<1>2. calls' = [calls EXCEPT ![c] = x]
  <2>1. [NewCall EXCEPT !.pc = "lost"] = x
    BY DEF NewCall
  <2>2. calls' = [calls EXCEPT ![c] = [NewCall EXCEPT !.pc = "lost"]]
    BY DEF RequestFails
  <2> QED
    BY <2>1, <2>2
<1>3. CallType(x) /\ x.pc = "lost"
  BY DEF CallType, IsCall
<1> HIDE DEF x
<1>4. /\ CallTypes'
      /\ DOMAIN calls' = DOMAIN calls
      /\ calls'[c] = x
      /\ \A e \in DOMAIN calls : e # c => calls'[e] = calls[e]
  BY <1>2, <1>3, CallGoesOn DEF PInv
<1>5. Known' /\ ListTypes'
  BY <1>1 DEF PInv, Known, ListTypes
<1>6. Alone'
  <2>1. Running' \subseteq Running
    BY <1>3, <1>4 DEF Running, Ended
  <2>2. ASSUME NEW e \in DOMAIN calls', ~overlapped PROVE ChunkFits(calls[e])'
    <3>1. calls'[e].pc = "names" => calls'[e] = calls[e]
      BY <1>3, <1>4
    <3> QED
      BY <1>1, <1>4, <2>2, <3>1 DEF PInv, Alone, ChunkFits
  <2> QED
    BY <1>1, <2>1, <2>2 DEF PInv, Alone
<1>7. PageObeysFilter'
  BY <1>3, <1>4 DEF PageObeysFilter
<1> QED
  BY <1>4, <1>5, <1>6, <1>7 DEF PInv

(* The list that is shown is filtered, and the first chunk is its          *)
(* beginning.                                                              *)
LEMMA ShowSourcesStep == \A c \in DOMAIN calls : PInv /\ ShowSources(c) => PInv'
<1> SUFFICES ASSUME NEW c \in DOMAIN calls, PInv, ShowSources(c) PROVE PInv'
  OBVIOUS
<1> DEFINE shown == Filtered(calls[c].answer, params)
           x == GoOn(calls[c], sources', 0)
<1>1. /\ dmarc' = dmarc /\ tls' = tls /\ params' = params /\ overlapped' = overlapped
      /\ calls[c].pc = "answered"
      /\ sources' = [i \in DOMAIN shown |-> [source |-> shown[i], dns |-> Loading]]
      /\ calls' = [calls EXCEPT ![c] = x]
  BY DEF ShowSources, published
<1>2. /\ \E n \in Nat : DOMAIN shown = 1 .. n
      /\ \A j \in DOMAIN shown : Matches(shown[j], params)
  <2>1. PICK n \in Nat : DOMAIN calls[c].answer = 1 .. n
    BY <1>1 DEF PInv, CallTypes, CallType
  <2> QED
    BY <2>1, FilteredMatches
<1> HIDE DEF shown
<1>3. IsList(sources') /\ DOMAIN sources' = DOMAIN shown
  <2>1. PICK n \in Nat : DOMAIN shown = 1 .. n
    BY <1>2
  <2>2. sources' \in [1 .. n -> Range(sources')]
    BY <1>1, <2>1 DEF Range
  <2> QED
    BY <1>1, <2>1, <2>2, MadeList
<1>4. \A i \in DOMAIN sources' :
        /\ sources'[i] = [source |-> sources'[i].source, dns |-> sources'[i].dns]
        /\ sources'[i].dns = Loading
        /\ Matches(sources'[i].source, params)
  BY <1>1, <1>2
<1>5. /\ CallType(x) /\ x.pc \in {"done", "names"}
      /\ x.pc = "names" =>
           /\ x.offset = 0
           /\ \A j \in 1 .. Len(x.chunk) :
                0 + j \in DOMAIN sources' /\ x.chunk[j] = sources'[0 + j].source.ip
  <2>1. IsCall(calls[c])
    BY DEF PInv, CallTypes, CallType
  <2> QED
    BY <1>3, <2>1, NextChunk
<1> HIDE DEF x
<1>6. /\ CallTypes'
      /\ DOMAIN calls' = DOMAIN calls
      /\ calls'[c] = x
      /\ \A e \in DOMAIN calls : e # c => calls'[e] = calls[e]
  BY <1>1, <1>5, CallGoesOn DEF PInv
<1>7. Known'
  BY <1>1 DEF PInv, Known
<1>8. ListTypes'
  BY <1>3, <1>4 DEF ListTypes, IsList
<1>9. Alone'
  <2> SUFFICES ASSUME ~overlapped
               PROVE  /\ \A d, e \in Running' : d = e
                      /\ \A e \in DOMAIN calls : ChunkFits(calls[e])'
                      /\ \A i \in DOMAIN sources' :
                           sources'[i].dns \in {Loading, NoHost, sources'[i].source.ip}
    BY <1>1, <1>6 DEF Alone
  <2>1. Running' \subseteq Running /\ c \in Running
    BY <1>1, <1>6 DEF Running, Ended
  <2>2. \A d, e \in Running : d = e
    BY DEF PInv, Alone
  <2>3. ASSUME NEW e \in DOMAIN calls, e # c PROVE calls'[e].pc # "names"
    BY <1>6, <2>1, <2>2, <2>3 DEF Running, Ended
  <2>4. ChunkFits(calls[c])'
    BY <1>5, <1>6 DEF ChunkFits
  <2>5. \A e \in DOMAIN calls : ChunkFits(calls[e])'
    BY <2>3, <2>4 DEF ChunkFits
  <2> QED
    BY <1>4, <2>1, <2>2, <2>5
<1>10. PageObeysFilter'
  BY <1>1, <1>4 DEF PageObeysFilter, Matches, SameDomain
<1> QED
  BY <1>6, <1>7, <1>8, <1>9, <1>10 DEF PInv

(* The names of a chunk are stored where its sources are. *)
LEMMA ShowNamesStep == \A c \in DOMAIN calls : PInv /\ ShowNames(c) => PInv'
<1> SUFFICES ASSUME NEW c \in DOMAIN calls, PInv, ShowNames(c) PROVE PInv'
  OBVIOUS
<1> DEFINE chunk == calls[c].chunk
           offset == calls[c].offset
           end == offset + Len(chunk)
           accepted == Len(chunk) <= MaxIpCount
           Name(unknown, i) == IF chunk[i - offset] \in unknown THEN NoHost ELSE chunk[i - offset]
<1>1. /\ dmarc' = dmarc /\ tls' = tls /\ params' = params /\ overlapped' = overlapped
      /\ calls[c].pc = "names"
  BY DEF ShowNames, published
<1>2. PICK unknown \in SUBSET Range(chunk) :
        /\ sources' = [i \in DOMAIN sources |->
             IF accepted /\ i \in offset + 1 .. end
             THEN [sources[i] EXCEPT !.dns = Name(unknown, i)]
             ELSE sources[i]]
        /\ calls' = [calls EXCEPT ![c] =
             IF accepted /\ end <= Len(sources)
             THEN GoOn(calls[c], sources, end)
             ELSE [NewCall EXCEPT !.pc = "thrown"]]
  BY DEF ShowNames
<1> HIDE DEF accepted
<1>3. DOMAIN sources' = DOMAIN sources
  BY <1>2
<1>4. ASSUME NEW i \in DOMAIN sources
      PROVE  /\ sources'[i] = [source |-> sources[i].source, dns |-> sources'[i].dns]
             /\ sources'[i].source = sources[i].source
             /\ sources'[i].dns # sources[i].dns =>
                  i \in offset + 1 .. end /\ sources'[i].dns \in {NoHost, chunk[i - offset]}
  <2> HIDE DEF offset, end, chunk
  <2>1. sources[i] = [source |-> sources[i].source, dns |-> sources[i].dns]
    BY DEF PInv, ListTypes
  <2>2. CASE accepted /\ i \in offset + 1 .. end
    <3>1. sources'[i] = [sources[i] EXCEPT !.dns = Name(unknown, i)]
      BY <1>2, <2>2
    <3>2. sources'[i] = [source |-> sources[i].source, dns |-> Name(unknown, i)]
      <4> HIDE DEF Name
      <4> QED
        BY <2>1, <3>1
    <3> QED
      BY <2>2, <3>2
  <2>3. CASE ~(accepted /\ i \in offset + 1 .. end)
    <3>1. sources'[i] = sources[i]
      BY <1>2, <2>3
    <3> QED
      BY <2>1, <3>1
  <2> QED
    BY <2>2, <2>3
<1>5. ListTypes'
  <2>1. PICK n \in Nat : DOMAIN sources = 1 .. n
    BY DEF PInv, ListTypes, IsList
  <2>2. sources' \in [1 .. n -> Range(sources')]
    BY <1>2, <1>3, <2>1 DEF Range
  <2>3. IsList(sources')
    BY <2>1, <2>2, MadeList
  <2> QED
    BY <1>3, <1>4, <2>3 DEF ListTypes, IsList
<1> DEFINE x == IF accepted /\ end <= Len(sources)
                THEN GoOn(calls[c], sources, end)
                ELSE [NewCall EXCEPT !.pc = "thrown"]
<1>6. offset \in Nat /\ IsList(chunk) /\ end \in Nat /\ DOMAIN chunk = 1 .. Len(chunk)
  BY <1>1 DEF PInv, CallTypes, CallType, IsList
<1> HIDE DEF end, offset, chunk
<1>7. /\ CallType(x) /\ x.pc \in {"done", "names", "thrown"}
      /\ x.pc = "names" =>
           /\ x.offset = end
           /\ \A j \in 1 .. Len(x.chunk) :
                end + j \in DOMAIN sources /\ x.chunk[j] = sources[end + j].source.ip
  <2>1. IsCall(calls[c]) /\ IsList(sources)
    BY DEF PInv, CallTypes, CallType, ListTypes
  <2>2. CASE accepted /\ end <= Len(sources)
    BY <1>6, <2>1, <2>2, NextChunk
  <2>3. CASE ~(accepted /\ end <= Len(sources))
    <3>1. x = [pc |-> "thrown", answer |-> <<>>, offset |-> 0, chunk |-> <<>>]
      BY <2>3 DEF NewCall
    <3> QED
      BY <3>1 DEF CallType, IsCall
  <2> QED
    BY <2>2, <2>3
<1>8. calls' = [calls EXCEPT ![c] = x]
  BY <1>2
<1> HIDE DEF x
<1>9. /\ CallTypes'
      /\ DOMAIN calls' = DOMAIN calls
      /\ calls'[c] = x
      /\ \A e \in DOMAIN calls : e # c => calls'[e] = calls[e]
  BY <1>7, <1>8, CallGoesOn DEF PInv
<1>10. Known'
  BY <1>1 DEF PInv, Known
<1>11. Alone'
  <2> SUFFICES ASSUME ~overlapped
               PROVE  /\ \A d, e \in Running' : d = e
                      /\ \A e \in DOMAIN calls : ChunkFits(calls[e])'
                      /\ \A i \in DOMAIN sources :
                           sources'[i].dns \in {Loading, NoHost, sources'[i].source.ip}
    BY <1>1, <1>3, <1>9 DEF Alone
  <2>1. Running' \subseteq Running /\ c \in Running
    BY <1>1, <1>9 DEF Running, Ended
  <2>2. \A d, e \in Running : d = e
    BY DEF PInv, Alone
  <2>3. ASSUME NEW e \in DOMAIN calls, e # c PROVE calls'[e].pc # "names"
    BY <1>9, <2>1, <2>2, <2>3 DEF Running, Ended
  <2>4. ChunkFits(calls[c])'
    BY <1>3, <1>4, <1>7, <1>9 DEF ChunkFits
  <2>5. \A e \in DOMAIN calls : ChunkFits(calls[e])'
    BY <2>3, <2>4 DEF ChunkFits
  <2>6. ASSUME NEW i \in DOMAIN sources
        PROVE  sources'[i].dns \in {Loading, NoHost, sources'[i].source.ip}
    <3>1. CASE sources'[i].dns = sources[i].dns
      BY <1>4, <3>1 DEF PInv, Alone
    <3>2. CASE sources'[i].dns # sources[i].dns
      <4>1. i \in offset + 1 .. end /\ sources'[i].dns \in {NoHost, chunk[i - offset]}
        BY <1>4, <3>2
      <4>2. i - offset \in 1 .. Len(chunk) /\ offset + (i - offset) = i
        BY <1>6, <4>1 DEF end, IsList
      <4>3. \A j \in 1 .. Len(chunk) : chunk[j] = sources[offset + j].source.ip
        BY <1>1 DEF PInv, Alone, ChunkFits, chunk, offset
      <4> QED
        BY <1>4, <4>1, <4>2, <4>3
    <3> QED
      BY <3>1, <3>2
  <2> QED
    BY <2>1, <2>2, <2>5, <2>6
<1>12. PageObeysFilter'
  <2> SUFFICES ASSUME \A e \in DOMAIN calls' : calls'[e].pc \in {"names", "done", "thrown"},
                      NEW i \in DOMAIN sources
               PROVE  Matches(sources'[i].source, params)
    BY <1>1, <1>3 DEF PageObeysFilter, Matches, SameDomain
  <2>1. \A e \in DOMAIN calls : calls[e].pc \in {"names", "done", "thrown"}
    BY <1>1, <1>9
  <2>2. Matches(sources[i].source, params)
    BY <2>1 DEF PInv, PageObeysFilter
  <2> QED
    BY <1>4, <2>2
<1> QED
  BY <1>5, <1>9, <1>10, <1>11, <1>12 DEF PInv

(* The invariant holds in every state of the page. *)
LEMMA PInvHolds == Spec => []PInv
<1>1. PInv /\ [Next]_vars => PInv'
  <2> SUFFICES ASSUME PInv, [Next]_vars PROVE PInv'
    OBVIOUS
  <2>1. CASE Update
    BY <2>1, UpdateStep
  <2>2. CASE Visit
    BY <2>2, VisitStep
  <2>3. ASSUME NEW c \in DOMAIN calls, Answer(c) \/ RequestFails(c) PROVE PInv'
    BY <2>3, ServerAnswersStep, ShowSourcesStep, ShowNamesStep, RequestFailsStep DEF Answer
  <2>4. CASE UNCHANGED vars
    <3>1. /\ dmarc' = dmarc /\ tls' = tls /\ params' = params /\ sources' = sources
          /\ calls' = calls /\ overlapped' = overlapped
      BY <2>4 DEF vars, published, page
    <3>2. Running' = Running
      BY <3>1 DEF Running
    <3> QED
      BY <3>1, <3>2 DEF PInv, Known, CallTypes, ListTypes, Alone, ChunkFits, PageObeysFilter, Matches,
         SameDomain
  <2> QED
    BY <2>1, <2>2, <2>3, <2>4 DEF Next
<1> QED
  BY <1>1, PInvInit, PTL DEF Spec

(* Once all lists have arrived, what is shown obeys the filter of the last *)
(* visit, in whatever order visits and answers come.                       *)
THEOREM FilterIsObeyed == Spec => []PageObeysFilter
<1>1. PInv => PageObeysFilter
  BY DEF PInv
<1> QED
  BY <1>1, PInvHolds, PTL

(* If calls do not overlap, a name stands at the source it belongs to,     *)
(* however many chunks there are.                                          *)
THEOREM UndisturbedNamesFit == Spec => []UndisturbedNamesAreRight
<1>1. PInv => UndisturbedNamesAreRight
  BY DEF PInv, Alone, UndisturbedNamesAreRight
<1> QED
  BY <1>1, PInvHolds, PTL
=============================================================================
