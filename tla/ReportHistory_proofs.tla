------------------------ MODULE ReportHistory_proofs ------------------------
(***************************************************************************)
(* Proofs about ReportPipeline and ReportHistory for any configurations,   *)
(* mails and contents of mails, any order of the hashes and any number of  *)
(* updates: no file gets lost, the filter keeps one report of each key,    *)
(* links lead somewhere and survive the next update, and the pages of the  *)
(* mails agree with each other.                                            *)
(***************************************************************************)
EXTENDS ReportHistory, Counting, FiniteSetTheorems, FunctionTheorems, SequenceTheorems, TLAPS

-----------------------------------------------------------------------------
(***************************************************************************)
(* The inductive invariant, in named parts.                                *)
(***************************************************************************)
(* A file of this kind and data comes out of the mail, when it is read.    *)
Has(m, k, d) ==
    ~Broken(m) /\ \E p \in Taken(m) : FileAt(m, p).kind = k /\ FileAt(m, p).data = d

(* The configuration and the mails. *)
MailTypes ==
    /\ setup \in Setups
    /\ digest \in Digests
    /\ content \in [Watched(setup) -> Contents]
    /\ mails \subseteq Watched(setup)
    /\ missing \subseteq mails

(* The local variables of an update. *)
LocalTypes ==
    /\ pc \in Kind \cup {"extract", "done", "published"}
    /\ todo \subseteq mails
    /\ DOMAIN files = Kind /\ DOMAIN reports = Kind /\ DOMAIN firstOf = Kind
    /\ found \in [Kind -> [mails -> Nat]]
    /\ pending \in [Kind -> SUBSET (Data \X {m.uid : m \in Mail})]
    /\ duplicates \in [Kind -> [mails -> Seq(Data \X mails)]]
    /\ failures \in [Kind -> [mails -> Nat]]
    /\ errors \in [mails -> Nat]

(* Which files are left to parse, in each phase. *)
Phases ==
    /\ pc = "extract" => \A k \in Kind : pending[k] = {}
    /\ pc # "extract" => todo = {}
    /\ pc \in {"done", "published"} => \A k \in Kind : pending[k] = {}
    /\ pc = "json" => pending["xml"] = {}

(* The map of files of a kind has the files of the mails extracted so far, *)
(* each at its hash, and nothing else.                                     *)
FilesInv(k) ==
    /\ IsFiniteSet(DOMAIN files[k])
    /\ \A h \in DOMAIN files[k] :
         /\ files[k][h] \in [mail : Read \ todo, data : Data]
         /\ h = FileHash(files[k][h].mail, files[k][h].data)
         /\ Has(files[k][h].mail, k, files[k][h].data)
    /\ \A m \in Read \ todo, d \in Data : Has(m, k, d) =>
         /\ FileHash(m, d) \in DOMAIN files[k]
         /\ files[k][FileHash(m, d)].mail = m
    /\ \A m \in mails : found[k][m] = IF m \in todo THEN 0 ELSE Cardinality(OfKind(m, k))

(* Files are parsed in the order of their hashes. *)
OrderInv(k) ==
    /\ pending[k] \subseteq DOMAIN files[k]
    /\ \A g \in Handled(k), h \in pending[k] : digest[g] <= digest[h]

(* A report was made from a file that was parsed, and stands at its hash. *)
ReportsInv(k) ==
    /\ \A r \in DOMAIN reports[k] :
         /\ r = ReportHash(reports[k][r])
         /\ reports[k][r].data \in Valid
         /\ \E h \in Handled(k) : files[k][h] = reports[k][r]
    /\ ~setup.filter =>
         \A h \in Handled(k) : files[k][h].data \in Valid => ReportHash(files[k][h]) \in DOMAIN reports[k]

(* The duplication map leads from each key that was met to the only report *)
(* with that key, the one whose file comes first.                          *)
FilterInv(k) == setup.filter =>
    /\ \A h \in Handled(k) :
         files[k][h].data \in Valid => DuplicateKey(files[k][h].data) \in DOMAIN firstOf[k]
    /\ \A key \in DOMAIN firstOf[k] :
         /\ firstOf[k][key] \in DOMAIN reports[k]
         /\ DuplicateKey(reports[k][firstOf[k][key]].data) = key
    /\ \A r \in DOMAIN reports[k] :
         /\ DuplicateKey(reports[k][r].data) \in DOMAIN firstOf[k]
         /\ firstOf[k][DuplicateKey(reports[k][r].data)] = r
    /\ \A r \in DOMAIN reports[k], h \in Handled(k) :
         /\ files[k][h].data \in Valid
         /\ DuplicateKey(files[k][h].data) = DuplicateKey(reports[k][r].data)
         => digest[FileHash(reports[k][r].mail, reports[k][r].data)] <= digest[h]

(* A mail notes as duplicates reports that have the key of a file of it. *)
DuplicatesInv(k) ==
    /\ \A m \in mails : \A i \in DOMAIN duplicates[k][m] :
         /\ duplicates[k][m][i] \in DOMAIN reports[k]
         /\ \E h \in Handled(k) :
              /\ files[k][h].mail = m
              /\ files[k][h].data \in Valid
              /\ DuplicateKey(files[k][h].data) = DuplicateKey(reports[k][duplicates[k][m][i]].data)
    /\ \A h \in Handled(k) : files[k][h].data \in Valid =>
         \/ ReportHash(files[k][h]) \in DOMAIN reports[k]
         \/ duplicates[k][files[k][h].mail] # <<>>

(* Each file parsed counts once, with its mail. *)
HandledOf(k, m) == {h \in Handled(k) : files[k][h].mail = m}
LocalReportsOf(k, m) == {r \in DOMAIN reports[k] : reports[k][r].mail = m}

CountsInv(k) ==
    \A m \in mails :
        Cardinality(LocalReportsOf(k, m)) + Len(duplicates[k][m]) + failures[k][m]
          = Cardinality(HandledOf(k, m))

ErrorsInv == \A m \in mails : errors[m] = failures["xml"][m] + failures["json"][m]

KindInv(k) ==
    /\ FilesInv(k) /\ OrderInv(k)
    /\ ReportsInv(k) /\ FilterInv(k)
    /\ DuplicatesInv(k) /\ CountsInv(k)

LocalInv ==
    /\ LocalTypes
    /\ Phases
    /\ \A k \in Kind : KindInv(k)
    /\ ErrorsInv

(* What AppState has belongs together, also while the next update works. *)
AppTypes ==
    /\ updates \in 1 .. MaxUpdates
    /\ read \subseteq app.mails /\ app.mails \subseteq Watched(setup)
    /\ \A k \in Kind :
         /\ app.files[k] \in Nat
         /\ app.found[k] \in [app.mails -> Nat]
         /\ app.failures[k] \in [app.mails -> Nat]
         /\ app.duplicates[k] \in [app.mails -> Seq(Data \X Mail)]
    /\ app.errors \in [app.mails -> Nat]

AppReports(k) ==
    /\ \A h \in DOMAIN app.reports[k] :
         /\ h = ReportHash(app.reports[k][h])
         /\ app.reports[k][h].mail \in read
         /\ app.reports[k][h].data \in Valid
         /\ Has(app.reports[k][h].mail, k, app.reports[k][h].data)
    /\ setup.filter =>
         \A h \in DOMAIN app.reports[k], m \in read, d \in Valid :
             /\ Has(m, k, d)
             /\ DuplicateKey(d) = DuplicateKey(app.reports[k][h].data)
             => digest[FileHash(app.reports[k][h].mail, app.reports[k][h].data)]
                  <= digest[FileHash(m, d)]
    /\ Cardinality(DOMAIN app.reports[k]) <= app.files[k]

AppMails(k) ==
    \A m \in app.mails :
        /\ \A i \in DOMAIN app.duplicates[k][m] : app.duplicates[k][m][i] \in DOMAIN app.reports[k]
        /\ content[m] = Oversized => app.found[k][m] = 0
        /\ app.found[k][m] = 0 =>
             ReportsOf(k, m) = {} /\ app.duplicates[k][m] = <<>> /\ app.failures[k][m] = 0

AppTotals(k) == app.files[k] = Cardinality(CountedFiles(k))

AppErrors == \A m \in app.mails : app.errors[m] = app.failures["xml"][m] + app.failures["json"][m]

(* Until the next update begins, it is what the local variables have. *)
JustPublished ==
    pc = "published" =>
        /\ app = [mails |-> mails, files |-> [k \in Kind |-> Cardinality(DOMAIN files[k])],
                  found |-> found, reports |-> reports, duplicates |-> duplicates,
                  failures |-> failures, errors |-> errors]
        /\ read = Read

AppInv ==
    /\ AppTypes
    /\ \A k \in Kind : AppReports(k) /\ AppMails(k) /\ AppTotals(k)
    /\ AppErrors
    /\ JustPublished

HInv == MailTypes /\ LocalInv /\ AppInv

-----------------------------------------------------------------------------
(***************************************************************************)
(* The files of a mail.                                                    *)
(***************************************************************************)
(* What is in a mail that is read has a type, and one that is expected in  *)
(* the folder of the mail.                                                 *)
LEMMA FileTypes ==
    ASSUME MailTypes, NEW m \in Read, NEW p \in Taken(m)
    PROVE  /\ p[1] \in DOMAIN content[m] /\ content[m] \in Seq(Part)
           /\ p[2] \in DOMAIN content[m][p[1]].files
           /\ FileAt(m, p) \in ReportFile
           /\ Expects(m, FileAt(m, p).kind)
<1>1. content[m] \in Seq(Part)
  <2>1. m \in Watched(setup) /\ content[m] # Oversized
    BY DEF MailTypes, Read
  <2>2. content[m] \in Contents
    BY <2>1 DEF MailTypes
  <2> QED
    BY <2>1, <2>2, PipelineAssumption
<1>2. PICK i \in DOMAIN content[m] : p \in {i} \X DOMAIN content[m][i].files
  BY DEF Taken, Places
<1>3. p[1] = i /\ p[2] \in DOMAIN content[m][i].files
  BY <1>2
<1>4. content[m][i] \in Part
  BY <1>1, <1>2, ElementOfSeq
<1>5. content[m][i].files \in Seq(ReportFile)
  BY <1>4 DEF Part
<1>6. content[m][i].files[p[2]] \in ReportFile
  BY <1>3, <1>5, ElementOfSeq
<1> QED
  BY <1>1, <1>2, <1>3, <1>6 DEF FileAt, Taken

(* So has what a mail is said to have. *)
LEMMA HasTypes ==
    ASSUME MailTypes, NEW m \in Read, NEW k, NEW d, Has(m, k, d)
    PROVE  /\ k \in Kind /\ d \in Data /\ Expects(m, k)
           /\ m \in Mail /\ m \in Watched(setup)
<1>1. PICK p \in Taken(m) : FileAt(m, p).kind = k /\ FileAt(m, p).data = d
  BY DEF Has
<1>2. FileAt(m, p) \in ReportFile /\ Expects(m, FileAt(m, p).kind)
  BY FileTypes
<1> QED
  BY <1>1, <1>2 DEF ReportFile, MailTypes, Read, Watched

(* FilesOf(m) holds just what the mail has, if it is read. *)
LEMMA FilesAreHad ==
    ASSUME NEW m \in Read
    PROVE  /\ \A p \in DOMAIN FilesOf(m) : Has(m, FilesOf(m)[p].kind, FilesOf(m)[p].data)
           /\ \A k, d : Has(m, k, d) =>
                \E p \in DOMAIN FilesOf(m) : FilesOf(m)[p].kind = k /\ FilesOf(m)[p].data = d
<1>1. CASE Broken(m)
  BY <1>1 DEF FilesOf, Empty, Has
<1>2. CASE ~Broken(m)
  <2>1. FilesOf(m) = [p \in Taken(m) |-> FileAt(m, p)]
    BY <1>2 DEF FilesOf
  <2> QED
    BY <1>2, <2>1 DEF Has
<1> QED
  BY <1>1, <1>2

(* Files come out of mails with a body only. *)
LEMMA FilesAreRead ==
    ASSUME NEW m, DOMAIN FilesOf(m) # {}
    PROVE  m \in Read
BY DEF FilesOf, Empty

(* The hashes of a mail are those of what it has, if it is read. *)
LEMMA HashesAreHad ==
    ASSUME MailTypes, NEW m, NEW k
    PROVE  /\ m \notin Read => HashesOf(m, k) = {}
           /\ \A h \in HashesOf(m, k) : \E d \in Data : m \in Read /\ Has(m, k, d) /\ h = FileHash(m, d)
           /\ m \in Read => \A d : Has(m, k, d) => FileHash(m, d) \in HashesOf(m, k)
<1>1. m \notin Read => HashesOf(m, k) = {}
  BY FilesAreRead DEF HashesOf, OfKind
<1>2. ASSUME NEW h \in HashesOf(m, k)
      PROVE  \E d \in Data : m \in Read /\ Has(m, k, d) /\ h = FileHash(m, d)
  <2>1. PICK p \in DOMAIN FilesOf(m) : FilesOf(m)[p].kind = k /\ h = FileHash(m, FilesOf(m)[p].data)
    BY <1>2 DEF HashesOf, OfKind
  <2>2. m \in Read
    BY <2>1, FilesAreRead
  <2>3. Has(m, k, FilesOf(m)[p].data)
    BY <2>1, <2>2, FilesAreHad
  <2>4. FilesOf(m)[p].data \in Data
    BY <2>2, <2>3, HasTypes
  <2> QED
    BY <2>1, <2>2, <2>3, <2>4
<1>3. ASSUME m \in Read, NEW d, Has(m, k, d)
      PROVE  FileHash(m, d) \in HashesOf(m, k)
  <2>1. PICK p \in DOMAIN FilesOf(m) : FilesOf(m)[p].kind = k /\ FilesOf(m)[p].data = d
    BY <1>3, FilesAreHad
  <2> QED
    BY <2>1 DEF HashesOf, OfKind
<1> QED
  BY <1>1, <1>2, <1>3

(* A mail has finitely many files. *)
LEMMA FilesAreFinite ==
    ASSUME MailTypes, NEW m, NEW k
    PROVE  IsFiniteSet(OfKind(m, k)) /\ IsFiniteSet(HashesOf(m, k))
<1>1. IsFiniteSet(OfKind(m, k))
  <2>1. CASE m \notin Read \/ Broken(m)
    <3>1. OfKind(m, k) = {}
      BY <2>1 DEF OfKind, FilesOf, Empty
    <3> QED
      BY <3>1, FS_EmptySet
  <2>2. CASE m \in Read /\ ~Broken(m)
    <3> DEFINE Row(i) == {i} \X DOMAIN content[m][i].files
               rows == {Row(i) : i \in DOMAIN content[m]}
               row == [i \in DOMAIN content[m] |-> Row(i)]
    <3>1. content[m] \in Seq(Part)
      <4>1. m \in Watched(setup) /\ content[m] # Oversized
        BY <2>2 DEF MailTypes, Read
      <4>2. content[m] \in Contents
        BY <4>1 DEF MailTypes
      <4> QED
        BY <4>1, <4>2, PipelineAssumption
    <3>2. IsFiniteSet(DOMAIN content[m])
      BY <3>1, LenProperties, FS_Interval
    <3>3. \A i \in DOMAIN content[m] : IsFiniteSet(Row(i))
      <4> SUFFICES ASSUME NEW i \in DOMAIN content[m] PROVE IsFiniteSet(Row(i))
        OBVIOUS
      <4>0. content[m][i] \in Part
        BY <3>1, ElementOfSeq
      <4>1. content[m][i].files \in Seq(ReportFile)
        BY <4>0 DEF Part
      <4>2. IsFiniteSet(DOMAIN content[m][i].files)
        BY <4>1, LenProperties, FS_Interval
      <4>3. IsFiniteSet({i})
        BY FS_Singleton
      <4> QED
        BY <4>2, <4>3, FS_Product
    <3>4. row \in Surjection(DOMAIN content[m], rows)
      BY DEF Surjection
    <3>5. IsFiniteSet(rows)
      BY <3>2, <3>4, FS_Surjection
    <3>6. \A T \in rows : IsFiniteSet(T)
      BY <3>3
    <3>7. IsFiniteSet(UNION rows)
      BY <3>5, <3>6, FS_UNION
    <3>8. OfKind(m, k) \in SUBSET UNION rows
      BY <2>2 DEF OfKind, FilesOf, Taken, Places
    <3> QED
      BY <3>7, <3>8, FS_Subset
  <2> QED
    BY <2>1, <2>2
<1>2. IsFiniteSet(HashesOf(m, k))
  <2> DEFINE hash == [p \in OfKind(m, k) |-> FileHash(m, FilesOf(m)[p].data)]
  <2>1. hash \in Surjection(OfKind(m, k), HashesOf(m, k))
    BY DEF Surjection, HashesOf
  <2> QED
    BY <1>1, <2>1, FS_Surjection
<1> QED
  BY <1>1, <1>2

(* Two watched mails that may have files of the same kind are in the same  *)
(* folder; so their UIDs tell them apart.                                  *)
LEMMA UidsTellApart ==
    ASSUME NEW m \in Watched(setup), NEW n \in Watched(setup), NEW k \in Kind,
           Expects(m, k), Expects(n, k), m.uid = n.uid
    PROVE  m = n
<1>1. m \in Mail /\ n \in Mail
  BY DEF Watched
<1>2. m.folder = n.folder
  <2>1. CASE setup.dmarc = NoFolder /\ setup.tls = NoFolder
    BY <2>1 DEF Watched
  <2>2. CASE ~(setup.dmarc = NoFolder /\ setup.tls = NoFolder)
    BY <2>2 DEF Expects, Kind
  <2> QED
    BY <2>1, <2>2
<1> QED
  BY <1>1, <1>2, PipelineAssumption

(* So do the hashes of their files. *)
LEMMA HashesTellApart ==
    ASSUME MailTypes, NEW m \in Read, NEW n \in Read, NEW k, NEW d, NEW e,
           Has(m, k, d), Has(n, k, e), FileHash(m, d) = FileHash(n, e)
    PROVE  m = n /\ d = e
<1>1. m.uid = n.uid /\ d = e
  BY DEF FileHash
<1>2. /\ k \in Kind /\ Expects(m, k) /\ Expects(n, k)
      /\ m \in Watched(setup) /\ n \in Watched(setup)
  BY HasTypes
<1> QED
  BY <1>1, <1>2, UidsTellApart

(* The same is true of the order of the hashes. *)
LEMMA DigestsTellApart ==
    ASSUME MailTypes, NEW m \in Mail, NEW n \in Mail, NEW d \in Data, NEW e \in Data
    PROVE  /\ digest[FileHash(m, d)] \in Nat
           /\ digest[FileHash(m, d)] = digest[FileHash(n, e)] => FileHash(m, d) = FileHash(n, e)
<1>1. FileHash(m, d) \in Data \X {x.uid : x \in Mail} /\ FileHash(n, e) \in Data \X {x.uid : x \in Mail}
  BY DEF FileHash
<1> QED
  BY <1>1, PipelineAssumption DEF MailTypes

-----------------------------------------------------------------------------
(***************************************************************************)
(* The beginning of an update.                                             *)
(***************************************************************************)
(* bg_update() starts with empty maps and counters. *)
Fresh ==
    /\ pc = "extract"
    /\ todo = mails
    /\ files = [k \in Kind |-> Empty]
    /\ found = [k \in Kind |-> [m \in mails |-> 0]]
    /\ pending = [k \in Kind |-> {}]
    /\ reports = [k \in Kind |-> Empty]
    /\ firstOf = [k \in Kind |-> Empty]
    /\ duplicates = [k \in Kind |-> [m \in mails |-> <<>>]]
    /\ failures = [k \in Kind |-> [m \in mails |-> 0]]
    /\ errors = [m \in mails |-> 0]

(* The invariant of the local variables holds of them. *)
LEMMA FreshInv == Fresh => LocalInv
<1> SUFFICES ASSUME Fresh PROVE LocalInv
  OBVIOUS
<1>1. LocalTypes
  BY DEF Fresh, LocalTypes
<1>2. Phases
  BY DEF Fresh, Phases
<1>3. ErrorsInv
  BY DEF Fresh, ErrorsInv, Kind
<1>4. ASSUME NEW k \in Kind
      PROVE  KindInv(k)
  <2>1. DOMAIN files[k] = {} /\ DOMAIN reports[k] = {} /\ DOMAIN firstOf[k] = {} /\ pending[k] = {} /\ Handled(k) = {}
    BY <1>4 DEF Fresh, Empty, Handled
  <2>2. FilesInv(k)
    BY <1>4, <2>1, FS_EmptySet DEF FilesInv, Fresh, Read
  <2>3. OrderInv(k) /\ ReportsInv(k) /\ FilterInv(k)
    BY <2>1 DEF OrderInv, ReportsInv, FilterInv
  <2>4. DuplicatesInv(k)
    BY <1>4, <2>1 DEF DuplicatesInv, Fresh
  <2>5. CountsInv(k)
    <3>1. ASSUME NEW m \in mails
          PROVE  Cardinality(LocalReportsOf(k, m)) + Len(duplicates[k][m]) + failures[k][m]
                   = Cardinality(HandledOf(k, m))
      <4>1. LocalReportsOf(k, m) = {} /\ HandledOf(k, m) = {}
        BY <2>1 DEF LocalReportsOf, HandledOf
      <4>2. duplicates[k][m] = <<>> /\ failures[k][m] = 0
        BY <1>4, <3>1 DEF Fresh
      <4>3. Cardinality(LocalReportsOf(k, m)) = 0 /\ Cardinality(HandledOf(k, m)) = 0
        BY <4>1, FS_EmptySet
      <4> QED
        BY <4>2, <4>3
    <3> QED
      BY <3>1 DEF CountsInv
  <2> QED
    BY <2>2, <2>3, <2>4, <2>5 DEF KindInv
<1> QED
  BY <1>1, <1>2, <1>3, <1>4 DEF LocalInv

(* The same of those that the next update starts with. *)
LEMMA FreshInvNext == Fresh' => LocalInv'
BY FreshInv, PTL

(* AppState before the first update. *)
LEMMA HInvInit == HistoryInit => HInv
<1> SUFFICES ASSUME HistoryInit PROVE HInv
  OBVIOUS
<1>1. MailTypes
  BY DEF HistoryInit, Init, MailTypes
<1>2. LocalInv
  BY FreshInv DEF HistoryInit, Init, Fresh
<1>3. app.mails = {} /\ read = {} /\ pc = "extract" /\ updates = 1
  BY DEF HistoryInit, Init
<1>4. ASSUME NEW k \in Kind
      PROVE  /\ app.files[k] = 0 /\ app.found[k] = Empty /\ app.failures[k] = Empty
             /\ app.duplicates[k] = Empty /\ app.reports[k] = Empty
  BY <1>4 DEF HistoryInit
<1>5. Empty \in [{} -> Nat] /\ Empty \in [{} -> Seq(Data \X Mail)] /\ DOMAIN Empty = {}
  BY DEF Empty
<1>6. app.errors = Empty
  BY DEF HistoryInit
<1>7. AppTypes
  <2>1. updates \in 1 .. MaxUpdates
    BY <1>3, HistoryAssumption
  <2>2. app.files = [k \in Kind |-> 0]
    BY DEF HistoryInit
  <2>3. \A k \in Kind : app.files[k] \in Nat
    BY <2>2
  <2> QED
    BY <1>3, <1>4, <1>5, <1>6, <2>1, <2>3 DEF AppTypes
<1>8. \A k \in Kind : AppReports(k) /\ AppMails(k) /\ AppTotals(k)
  <2>1. \A k \in Kind : AppReports(k) /\ AppMails(k)
    BY <1>3, <1>4, <1>5, FS_EmptySet DEF AppReports, AppMails
  <2>2. ASSUME NEW k \in Kind PROVE AppTotals(k)
    <3>1. CountedFiles(k) = {}
      BY <1>3 DEF CountedFiles
    <3> QED
      BY <1>4, <3>1, FS_EmptySet DEF AppTotals
  <2> QED
    BY <2>1, <2>2
<1>9. AppErrors /\ JustPublished
  BY <1>3 DEF AppErrors, JustPublished
<1> QED
  BY <1>1, <1>2, <1>7, <1>8, <1>9 DEF HInv, AppInv

-----------------------------------------------------------------------------
(***************************************************************************)
(* What depends on the mails only, and on one kind of files only.          *)
(***************************************************************************)
(* What a mail has never changes. *)
LEMMA SameContent ==
    ASSUME UNCHANGED <<setup, content>>
    PROVE  /\ \A m, k, d : Has(m, k, d)' <=> Has(m, k, d)
           /\ Watched(setup)' = Watched(setup)
<1>1. \A m : Places(m)' = Places(m)
  BY DEF Places
<1>2. \A m, p : FileAt(m, p)' = FileAt(m, p)
  BY DEF FileAt
<1>3. \A m, k : Expects(m, k)' <=> Expects(m, k)
  BY DEF Expects
<1>4. \A m : Taken(m)' = Taken(m)
  BY <1>1, <1>2, <1>3 DEF Taken, Opened
<1>5. \A m : Broken(m)' <=> Broken(m)
  BY <1>3 DEF Broken, Opened
<1> QED
  BY <1>2, <1>4, <1>5 DEF Has, Watched

(* In an update, what it gets out of a mail is fixed. *)
LEMMA SameFiles ==
    ASSUME UNCHANGED fixed
    PROVE  /\ Read' = Read
           /\ \A m, k : OfKind(m, k)' = OfKind(m, k)
           /\ \A m, k, d : Has(m, k, d)' <=> Has(m, k, d)
           /\ MailTypes => MailTypes'
<1>1. Read' = Read
  BY DEF fixed, Read
<1>2. \A m : Places(m)' = Places(m)
  BY DEF Places, fixed
<1>3. \A m, p : FileAt(m, p)' = FileAt(m, p)
  BY DEF FileAt, fixed
<1>4. \A m, k : Expects(m, k)' <=> Expects(m, k)
  BY DEF Expects, fixed
<1>5. \A m : Taken(m)' = Taken(m)
  BY <1>2, <1>3, <1>4 DEF Taken, Opened, fixed
<1>6. \A m : Broken(m)' <=> Broken(m)
  BY <1>4 DEF Broken, Opened, fixed
<1>7. \A m : FilesOf(m)' = FilesOf(m)
  BY <1>1, <1>3, <1>5, <1>6 DEF FilesOf
<1>8. \A m, k : OfKind(m, k)' = OfKind(m, k)
  BY <1>7 DEF OfKind
<1>9. MailTypes => MailTypes'
  BY DEF MailTypes, fixed
<1> QED
  BY <1>1, <1>8, <1>9, SameContent DEF fixed

(* A step that leaves a kind of files alone keeps what is said about it. *)
LEMMA OtherKind ==
    ASSUME NEW k \in Kind, KindInv(k), UNCHANGED <<fixed, todo, files, found>>,
           UNCHANGED <<pending[k], reports[k], firstOf[k], duplicates[k], failures[k]>>,
           UNCHANGED Handled(k)
    PROVE  KindInv(k)'
<1>0. /\ Read' = Read
      /\ \A m : OfKind(m, k)' = OfKind(m, k)
      /\ \A m, d : Has(m, k, d)' <=> Has(m, k, d)
      /\ UNCHANGED <<setup, digest, mails>>
  BY SameFiles DEF fixed
<1>1. FilesInv(k)'
  BY <1>0 DEF FilesInv, KindInv, FileHash
<1>2. OrderInv(k)'
  BY <1>0 DEF OrderInv, KindInv
<1>3. ReportsInv(k)'
  BY <1>0 DEF ReportsInv, KindInv, ReportHash
<1>4. FilterInv(k)'
  BY <1>0 DEF FilterInv, KindInv
<1>5. DuplicatesInv(k)'
  BY <1>0 DEF DuplicatesInv, KindInv
<1>6. CountsInv(k)'
  <2>1. \A m : LocalReportsOf(k, m)' = LocalReportsOf(k, m) /\ HandledOf(k, m)' = HandledOf(k, m)
    BY DEF LocalReportsOf, HandledOf
  <2> QED
    BY <1>0, <2>1 DEF CountsInv, KindInv
<1> QED
  BY <1>1, <1>2, <1>3, <1>4, <1>5, <1>6 DEF KindInv

-----------------------------------------------------------------------------
(***************************************************************************)
(* Extraction.                                                             *)
(***************************************************************************)
(* The files of one more mail get into the map, and replace none of those  *)
(* of another mail.                                                        *)
LEMMA ExtractFiles ==
    ASSUME MailTypes, NEW k \in Kind, FilesInv(k), UNCHANGED fixed,
           NEW m \in todo, m \in mails,
           todo' = todo \ {m},
           files'[k] = [h \in DOMAIN files[k] \cup HashesOf(m, k) |->
                          IF h \in HashesOf(m, k) THEN [mail |-> m, data |-> h[1]] ELSE files[k][h]],
           found[k] \in [mails -> Nat],
           found'[k] = [found[k] EXCEPT ![m] = found[k][m] + Cardinality(OfKind(m, k))]
    PROVE  FilesInv(k)'
<1>0. /\ Read' = Read /\ mails' = mails
      /\ \A n : OfKind(n, k)' = OfKind(n, k)
      /\ \A n, d : Has(n, k, d)' <=> Has(n, k, d)
  BY SameFiles DEF fixed
<1>1. IsFiniteSet(DOMAIN files'[k])
  <2>1. IsFiniteSet(DOMAIN files[k]) /\ IsFiniteSet(HashesOf(m, k))
    BY FilesAreFinite DEF FilesInv
  <2>2. DOMAIN files'[k] = DOMAIN files[k] \cup HashesOf(m, k)
    OBVIOUS
  <2>3. IsFiniteSet(DOMAIN files[k] \cup HashesOf(m, k))
    BY ONLY <2>1, FS_Union
  <2> QED
    BY <2>2, <2>3
<1>2. ASSUME NEW h \in DOMAIN files'[k]
      PROVE  /\ files'[k][h] \in [mail : Read \ todo', data : Data]
             /\ h = FileHash(files'[k][h].mail, files'[k][h].data)
             /\ Has(files'[k][h].mail, k, files'[k][h].data)
  <2>1. CASE h \in HashesOf(m, k)
    <3>1. PICK d \in Data : m \in Read /\ Has(m, k, d) /\ h = FileHash(m, d)
      BY <2>1, HashesAreHad
    <3>2. files'[k][h] = [mail |-> m, data |-> d]
      BY <2>1, <3>1 DEF FileHash
    <3> QED
      BY <3>1, <3>2
  <2>2. CASE h \notin HashesOf(m, k)
    <3>1. h \in DOMAIN files[k] /\ files'[k][h] = files[k][h]
      BY <1>2, <2>2
    <3>2. /\ files[k][h] \in [mail : Read \ todo, data : Data]
          /\ h = FileHash(files[k][h].mail, files[k][h].data)
          /\ Has(files[k][h].mail, k, files[k][h].data)
      BY <3>1 DEF FilesInv
    <3> QED
      BY <3>1, <3>2
  <2> QED
    BY <2>1, <2>2
<1>3. ASSUME NEW n \in Read \ todo', NEW d \in Data, Has(n, k, d)
      PROVE  FileHash(n, d) \in DOMAIN files'[k] /\ files'[k][FileHash(n, d)].mail = n
  <2>1. CASE n = m
    <3>1. FileHash(n, d) \in HashesOf(m, k)
      BY <1>3, <2>1, HashesAreHad
    <3> QED
      BY <2>1, <3>1
  <2>2. CASE n # m
    <3>1. FileHash(n, d) \in DOMAIN files[k] /\ files[k][FileHash(n, d)].mail = n
      BY <1>3, <2>2 DEF FilesInv
    <3>2. FileHash(n, d) \notin HashesOf(m, k)
      <4> SUFFICES ASSUME FileHash(n, d) \in HashesOf(m, k) PROVE n = m
        BY <2>2
      <4>1. PICK e \in Data : m \in Read /\ Has(m, k, e) /\ FileHash(n, d) = FileHash(m, e)
        BY HashesAreHad
      <4> QED
        BY <1>3, <4>1, HashesTellApart
    <3> QED
      BY <3>1, <3>2
  <2> QED
    BY <2>1, <2>2
<1>4. \A n \in mails : found'[k][n] = IF n \in todo' THEN 0 ELSE Cardinality(OfKind(n, k))
  <2>1. Cardinality(OfKind(m, k)) \in Nat
    BY FilesAreFinite, FS_CardinalityType
  <2> QED
    BY <2>1 DEF FilesInv
<1> QED
  BY <1>0, <1>1, <1>2, <1>3, <1>4 DEF FilesInv, FileHash

(* The extraction of a mail keeps the invariant. *)
LEMMA ExtractStep ==
    ASSUME MailTypes, LocalInv, Extract
    PROVE  LocalInv'
<1>1. PICK m \in todo :
        /\ todo' = todo \ {m}
        /\ files' = [k \in Kind |->
             [h \in DOMAIN files[k] \cup HashesOf(m, k) |->
                IF h \in HashesOf(m, k) THEN [mail |-> m, data |-> h[1]] ELSE files[k][h]]]
        /\ found' = [k \in Kind |-> [found[k] EXCEPT ![m] = found[k][m] + Cardinality(OfKind(m, k))]]
  BY DEF Extract
<1>2. /\ pc = "extract" /\ pc' = "extract" /\ UNCHANGED fixed
      /\ UNCHANGED <<pending, reports, firstOf, duplicates, failures, errors>>
      /\ mails' = mails
  BY DEF Extract, fixed
<1>3. m \in mails /\ LocalTypes
  BY DEF LocalInv, LocalTypes
<1>4. ASSUME NEW k \in Kind
      PROVE  KindInv(k)'
  <2>1. FilesInv(k)'
    BY <1>1, <1>2, <1>3, <1>4, ExtractFiles DEF LocalInv, KindInv, LocalTypes
  <2>2. Handled(k) = {} /\ Handled(k)' = {} /\ pending[k] = {}
    BY <1>2 DEF Handled, LocalInv, Phases
  <2>3. DOMAIN reports[k] = {}
    BY <2>2 DEF LocalInv, KindInv, ReportsInv
  <2>4. OrderInv(k)' /\ ReportsInv(k)'
    BY <1>2, <2>2, <2>3 DEF OrderInv, ReportsInv
  <2>5. FilterInv(k)'
    <3>1. setup.filter => DOMAIN firstOf[k] = {}
      BY <2>3 DEF LocalInv, KindInv, FilterInv
    <3>2. setup' = setup
      BY <1>2 DEF fixed
    <3> QED
      BY <1>2, <2>2, <2>3, <3>1, <3>2 DEF FilterInv
  <2>6. DuplicatesInv(k)'
    <3>1. \A n \in mails : DOMAIN duplicates[k][n] = {}
      BY <2>3 DEF LocalInv, KindInv, DuplicatesInv
    <3> QED
      BY <1>2, <2>2, <3>1 DEF DuplicatesInv
  <2>7. CountsInv(k)'
    <3>1. \A n : /\ LocalReportsOf(k, n)' = LocalReportsOf(k, n)
                 /\ HandledOf(k, n)' = {} /\ HandledOf(k, n) = {}
      BY <1>2, <2>2 DEF LocalReportsOf, HandledOf
    <3> QED
      BY <1>2, <3>1 DEF CountsInv, LocalInv, KindInv
  <2> QED
    BY <2>1, <2>4, <2>5, <2>6, <2>7 DEF KindInv
<1>5. LocalTypes'
  <2>1. \A k \in Kind : Cardinality(OfKind(m, k)) \in Nat
    BY FilesAreFinite, FS_CardinalityType
  <2>2. found' \in [Kind -> [mails -> Nat]]
    BY <1>1, <1>3, <2>1 DEF LocalTypes
  <2>3. DOMAIN files' = Kind /\ todo' \subseteq mails
    BY <1>1, <1>3 DEF LocalTypes
  <2> QED
    BY <1>2, <1>3, <2>2, <2>3 DEF LocalTypes
<1>6. Phases' /\ ErrorsInv'
  BY <1>2 DEF LocalInv, Phases, ErrorsInv
<1> QED
  BY <1>4, <1>5, <1>6 DEF LocalInv

(* Then the files of both kinds are to be parsed. *)
LEMMA AllExtractedStep ==
    ASSUME MailTypes, LocalInv, AllExtracted
    PROVE  LocalInv'
<1>1. /\ pc = "extract" /\ pc' = "xml" /\ todo = {} /\ UNCHANGED fixed
      /\ UNCHANGED <<todo, files, found, reports, firstOf, duplicates, failures, errors>>
      /\ pending' = [k \in Kind |-> DOMAIN files[k]]
      /\ UNCHANGED <<mails, setup, digest>>
  BY DEF AllExtracted, fixed
<1>2. ASSUME NEW k \in Kind
      PROVE  KindInv(k)' /\ pending'[k] \in SUBSET (Data \X {m.uid : m \in Mail})
  <2>1. FilesInv(k)
    BY DEF LocalInv, KindInv
  <2>2. Handled(k) = {} /\ Handled(k)' = {}
    BY <1>1, <1>2 DEF Handled
  <2>3. FilesInv(k)'
    BY <1>1, <2>1, SameFiles DEF FilesInv, FileHash
  <2>4. OrderInv(k)'
    BY <1>1, <2>2 DEF OrderInv
  <2>5. ReportsInv(k)' /\ FilterInv(k)' /\ DuplicatesInv(k)'
    BY <1>1, <2>2 DEF LocalInv, KindInv, ReportsInv, FilterInv, DuplicatesInv
  <2>6. CountsInv(k)'
    <3>1. \A n : LocalReportsOf(k, n)' = LocalReportsOf(k, n) /\ HandledOf(k, n)' = HandledOf(k, n)
      BY <1>1, <2>2 DEF LocalReportsOf, HandledOf
    <3> QED
      BY <1>1, <3>1 DEF CountsInv, LocalInv, KindInv
  <2>7. ASSUME NEW h \in DOMAIN files[k]
        PROVE  h \in Data \X {m.uid : m \in Mail}
    <3>1. /\ files[k][h] \in [mail : Read, data : Data]
          /\ h = FileHash(files[k][h].mail, files[k][h].data)
      BY <2>1, <2>7 DEF FilesInv
    <3>2. files[k][h].mail \in Mail
      BY <3>1 DEF Read, MailTypes, Watched
    <3> QED
      BY <3>1, <3>2 DEF FileHash
  <2> QED
    BY <1>1, <2>3, <2>4, <2>5, <2>6, <2>7 DEF KindInv
<1>3. LocalTypes'
  BY <1>1, <1>2 DEF LocalInv, LocalTypes, Kind
<1>4. Phases' /\ ErrorsInv'
  BY <1>1 DEF LocalInv, Phases, ErrorsInv, Kind
<1> QED
  BY <1>2, <1>3, <1>4 DEF LocalInv

(* The loops end one after the other. *)
LEMMA EndLoopStep ==
    ASSUME MailTypes, LocalInv, EndLoop
    PROVE  LocalInv'
<1>1. /\ pc \in Kind /\ pending[pc] = {}
      /\ pc' = (IF pc = "xml" THEN "json" ELSE "done") /\ UNCHANGED fixed
      /\ UNCHANGED <<todo, files, found, pending, reports, firstOf, duplicates, failures, errors>>
      /\ UNCHANGED <<mails, setup, digest>>
  BY DEF EndLoop, fixed
<1>2. ASSUME NEW k \in Kind
      PROVE  KindInv(k)'
  <2>1. Handled(k)' = Handled(k)
    BY <1>1 DEF Handled, Kind
  <2> QED
    BY <1>1, <2>1, OtherKind DEF LocalInv
<1>3. LocalTypes'
  BY <1>1 DEF LocalInv, LocalTypes, Kind
<1>4. Phases' /\ ErrorsInv'
  BY <1>1 DEF LocalInv, Phases, ErrorsInv, Kind
<1> QED
  BY <1>2, <1>3, <1>4 DEF LocalInv

-----------------------------------------------------------------------------
(***************************************************************************)
(* Parsing.                                                                *)
(***************************************************************************)
(* What is known of a file. *)
LEMMA FileFacts ==
    ASSUME MailTypes, NEW k \in Kind, FilesInv(k), NEW h \in DOMAIN files[k]
    PROVE  /\ files[k][h] \in [mail : Read, data : Data]
           /\ files[k][h].mail \in mails /\ files[k][h].mail \in Mail
           /\ h = FileHash(files[k][h].mail, files[k][h].data)
           /\ digest[h] \in Nat
<1>1. /\ files[k][h] \in [mail : Read, data : Data]
      /\ h = FileHash(files[k][h].mail, files[k][h].data)
  BY DEF FilesInv
<1>2. files[k][h].mail \in mails /\ files[k][h].mail \in Mail
  BY <1>1 DEF Read, MailTypes, Watched
<1> QED
  BY <1>1, <1>2, DigestsTellApart

(* Which files are handled after the next one. *)
LEMMA NextFileFacts ==
    ASSUME MailTypes, LocalInv, NEW k \in Kind, NEW h, NextFile(k, h), UNCHANGED <<fixed, pc, files>>
    PROVE  /\ h \in DOMAIN files[k] /\ h \notin Handled(k)
           /\ Handled(k)' = Handled(k) \cup {h}
           /\ \A g \in Handled(k) : digest[g] <= digest[h]
           /\ OrderInv(k)'
           /\ \A j \in Kind \ {k} : pending'[j] = pending[j] /\ Handled(j)' = Handled(j)
           /\ pending' \in [Kind -> SUBSET (Data \X {m.uid : m \in Mail})]
           /\ \A m : HandledOf(k, m)' = IF m = files[k][h].mail THEN HandledOf(k, m) \cup {h} ELSE HandledOf(k, m)
           /\ \A m : IsFiniteSet(HandledOf(k, m)) /\ h \notin HandledOf(k, m)
<1>1. /\ pc = k /\ pc' = pc /\ h \in pending[k] /\ UNCHANGED <<digest, files>>
      /\ \A g \in pending[k] : digest[h] <= digest[g]
      /\ pending \in [Kind -> SUBSET (Data \X {m.uid : m \in Mail})]
      /\ pending' = [pending EXCEPT ![k] = pending[k] \ {h}]
  BY DEF NextFile, fixed, LocalInv, LocalTypes
<1>2. OrderInv(k) /\ pc # "extract"
  BY <1>1 DEF LocalInv, KindInv, Kind
<1>3. h \in DOMAIN files[k] /\ h \notin Handled(k)
  BY <1>1, <1>2 DEF OrderInv, Handled
<1>4. Handled(k)' = Handled(k) \cup {h}
  BY <1>1, <1>2, <1>3 DEF Handled
<1>5. \A g \in Handled(k) : digest[g] <= digest[h]
  BY <1>1, <1>2 DEF OrderInv
<1>6. OrderInv(k)'
  BY <1>1, <1>2, <1>4 DEF OrderInv
<1>7. \A j \in Kind \ {k} : pending'[j] = pending[j] /\ Handled(j)' = Handled(j)
  BY <1>1 DEF Handled
<1>8. \A m : HandledOf(k, m)' = IF m = files[k][h].mail THEN HandledOf(k, m) \cup {h} ELSE HandledOf(k, m)
  BY <1>1, <1>4 DEF HandledOf
<1>9. ASSUME NEW m PROVE IsFiniteSet(HandledOf(k, m)) /\ h \notin HandledOf(k, m)
  <2>1. IsFiniteSet(DOMAIN files[k])
    BY DEF LocalInv, KindInv, FilesInv
  <2>2. HandledOf(k, m) \in SUBSET DOMAIN files[k]
    BY DEF HandledOf, Handled
  <2> QED
    BY <1>3, <2>1, <2>2, FS_Subset DEF HandledOf
<1>10. pending' \in [Kind -> SUBSET (Data \X {m.uid : m \in Mail})]
  BY <1>1
<1> QED
  BY <1>3, <1>4, <1>5, <1>6, <1>7, <1>8, <1>9, <1>10

(* A report belongs to the file it was made from. *)
LEMMA ReportFacts ==
    ASSUME MailTypes, NEW k \in Kind, FilesInv(k), ReportsInv(k), NEW r \in DOMAIN reports[k]
    PROVE  /\ r = ReportHash(reports[k][r]) /\ reports[k][r].data \in Valid
           /\ reports[k][r] \in [mail : Read, data : Data]
           /\ reports[k][r].mail \in mails
           /\ FileHash(reports[k][r].mail, reports[k][r].data) \in Handled(k)
           /\ files[k][FileHash(reports[k][r].mail, reports[k][r].data)] = reports[k][r]
           /\ Has(reports[k][r].mail, k, reports[k][r].data)
<1>1. PICK h \in Handled(k) : files[k][h] = reports[k][r]
  BY DEF ReportsInv
<1>2. h \in DOMAIN files[k]
  BY DEF Handled
<1>3. /\ files[k][h] \in [mail : Read, data : Data] /\ files[k][h].mail \in mails
      /\ h = FileHash(files[k][h].mail, files[k][h].data)
  BY <1>2, FileFacts
<1>4. Has(files[k][h].mail, k, files[k][h].data)
  BY <1>2 DEF FilesInv
<1> QED
  BY <1>1, <1>3, <1>4 DEF ReportsInv

(* No two reports come from the same file. *)
LEMMA ReportsAreFinite ==
    ASSUME MailTypes, NEW k \in Kind, FilesInv(k), ReportsInv(k)
    PROVE  /\ IsFiniteSet(DOMAIN reports[k])
           /\ Cardinality(DOMAIN reports[k]) <= Cardinality(DOMAIN files[k])
           /\ \A m : IsFiniteSet(LocalReportsOf(k, m)) /\ Cardinality(LocalReportsOf(k, m)) \in Nat
<1> DEFINE source == [r \in DOMAIN reports[k] |-> FileHash(reports[k][r].mail, reports[k][r].data)]
<1>1. \A r \in DOMAIN reports[k] : source[r] \in DOMAIN files[k]
  BY ReportFacts DEF Handled
<1>2. ASSUME NEW r \in DOMAIN reports[k], NEW s \in DOMAIN reports[k], source[r] = source[s]
      PROVE  r = s
  <2>1. reports[k][r] = reports[k][s]
    BY <1>2, ReportFacts
  <2> QED
    BY <2>1, ReportFacts
<1>3. source \in Injection(DOMAIN reports[k], DOMAIN files[k])
  BY <1>1, <1>2 DEF Injection, IsInjective
<1>4. IsFiniteSet(DOMAIN files[k])
  BY DEF FilesInv
<1>5. /\ IsFiniteSet(DOMAIN reports[k])
      /\ Cardinality(DOMAIN reports[k]) <= Cardinality(DOMAIN files[k])
  BY <1>3, <1>4, FS_Injection
<1>6. ASSUME NEW m
      PROVE  IsFiniteSet(LocalReportsOf(k, m)) /\ Cardinality(LocalReportsOf(k, m)) \in Nat
  <2>1. LocalReportsOf(k, m) \in SUBSET DOMAIN reports[k]
    BY DEF LocalReportsOf
  <2> QED
    BY <1>5, <2>1, FS_Subset, FS_CardinalityType
<1> QED
  BY <1>5, <1>6

(* A file not yet parsed has made no report. *)
LEMMA ReportIsNew ==
    ASSUME MailTypes, NEW k \in Kind, FilesInv(k), ReportsInv(k),
           NEW h \in DOMAIN files[k], h \notin Handled(k)
    PROVE  ReportHash(files[k][h]) \notin DOMAIN reports[k]
<1> DEFINE r == ReportHash(files[k][h])
<1> SUFFICES ASSUME r \in DOMAIN reports[k] PROVE FALSE
  OBVIOUS
<1>1. r = ReportHash(reports[k][r])
  BY ReportFacts
<1>2. reports[k][r].data = files[k][h].data /\ reports[k][r].mail = files[k][h].mail
  BY <1>1 DEF ReportHash
<1>3. FileHash(reports[k][r].mail, reports[k][r].data) \in Handled(k)
  BY ReportFacts
<1>4. h = FileHash(files[k][h].mail, files[k][h].data)
  BY FileFacts
<1> QED
  BY <1>2, <1>3, <1>4

(* The files themselves stay as they are while they are parsed. *)
LEMMA FilesStay ==
    ASSUME NEW k \in Kind, FilesInv(k), UNCHANGED <<fixed, todo, files, found>>
    PROVE  FilesInv(k)'
<1>1. mails' = mails
  BY DEF fixed
<1> QED
  BY <1>1, SameFiles DEF FilesInv, FileHash

(* A file that does not parse makes no report, but counts as an error. *)
LEMMA FailToParseKind ==
    ASSUME MailTypes, LocalInv, NEW k \in Kind, NEW h, FailToParse(k, h)
    PROVE  KindInv(k)' /\ ErrorsInv'
<1> DEFINE mail == files[k][h].mail
<1>1. /\ UNCHANGED <<fixed, pc, todo, files, found, reports, firstOf, duplicates>>
      /\ UNCHANGED <<setup, digest, mails>>
      /\ NextFile(k, h) /\ files[k][h].data \notin Valid
      /\ errors' = [errors EXCEPT ![mail] = errors[mail] + 1]
      /\ failures' = [failures EXCEPT ![k][mail] = failures[k][mail] + 1]
  BY DEF FailToParse, fixed
<1>2. KindInv(k) /\ LocalTypes /\ ErrorsInv
  BY DEF LocalInv
<1>3. /\ h \in DOMAIN files[k] /\ h \notin Handled(k)
      /\ Handled(k)' = Handled(k) \cup {h} /\ OrderInv(k)'
      /\ \A m : HandledOf(k, m)' = IF m = mail THEN HandledOf(k, m) \cup {h} ELSE HandledOf(k, m)
      /\ \A m : IsFiniteSet(HandledOf(k, m)) /\ h \notin HandledOf(k, m)
  BY <1>1, NextFileFacts
<1>4. mail \in mails
  BY <1>2, <1>3, FileFacts DEF KindInv
<1>5. FilesInv(k)'
  BY <1>1, <1>2, FilesStay DEF KindInv
<1>6. ReportsInv(k)'
  BY <1>1, <1>2, <1>3 DEF KindInv, ReportsInv
<1>7. FilterInv(k)'
  BY <1>1, <1>2, <1>3 DEF KindInv, FilterInv
<1>8. DuplicatesInv(k)'
  BY <1>1, <1>2, <1>3 DEF KindInv, DuplicatesInv
<1>9. \A m \in mails : /\ failures[k][m] \in Nat
                       /\ failures'[k][m] = IF m = mail THEN failures[k][m] + 1 ELSE failures[k][m]
  BY <1>1, <1>2, <1>4 DEF LocalTypes
<1>10. CountsInv(k)'
  <2> SUFFICES ASSUME NEW m \in mails
               PROVE  Cardinality(LocalReportsOf(k, m)') + Len(duplicates'[k][m]) + failures'[k][m]
                        = Cardinality(HandledOf(k, m)')
    BY <1>1 DEF CountsInv
  <2>1. LocalReportsOf(k, m)' = LocalReportsOf(k, m) /\ duplicates'[k][m] = duplicates[k][m]
    BY <1>1 DEF LocalReportsOf
  <2>2. Cardinality(HandledOf(k, m)') = IF m = mail THEN Cardinality(HandledOf(k, m)) + 1
                                                     ELSE Cardinality(HandledOf(k, m))
    BY <1>3, FS_AddElement
  <2>3. Cardinality(LocalReportsOf(k, m)) + Len(duplicates[k][m]) + failures[k][m]
          = Cardinality(HandledOf(k, m))
    BY <1>2 DEF KindInv, CountsInv
  <2>4. Cardinality(HandledOf(k, m)) \in Nat /\ Len(duplicates[k][m]) \in Nat
    BY <1>2, <1>3, FS_CardinalityType, LenProperties DEF LocalTypes
  <2>5. Cardinality(LocalReportsOf(k, m)) \in Nat
    BY <1>2, ReportsAreFinite DEF KindInv
  <2>6. failures[k][m] \in Nat /\ failures'[k][m] = IF m = mail THEN failures[k][m] + 1 ELSE failures[k][m]
    BY <1>9
  <2> DEFINE a == Cardinality(LocalReportsOf(k, m))
             b == Len(duplicates[k][m])
             c == failures[k][m]
             n == Cardinality(HandledOf(k, m))
  <2>7. a \in Nat /\ b \in Nat /\ c \in Nat /\ n \in Nat /\ a + b + c = n
    BY <2>3, <2>4, <2>5, <2>6
  <2>8. /\ Cardinality(LocalReportsOf(k, m)') = a /\ Len(duplicates'[k][m]) = b
        /\ failures'[k][m] = IF m = mail THEN c + 1 ELSE c
        /\ Cardinality(HandledOf(k, m)') = IF m = mail THEN n + 1 ELSE n
    BY <2>1, <2>2, <2>6
  <2> HIDE DEF mail, a, b, c, n
  <2> QED
    BY ONLY <2>7, <2>8
<1>11. ErrorsInv'
  <2>1. \A j \in Kind \ {k} : failures'[j] = failures[j]
    BY <1>1, <1>2 DEF LocalTypes
  <2>2. \A m \in mails : errors'[m] = IF m = mail THEN errors[m] + 1 ELSE errors[m]
    BY <1>1, <1>2 DEF LocalTypes
  <2>3. \A j \in Kind, m \in mails : failures[j][m] \in Nat
    BY <1>2 DEF LocalTypes
  <2> QED
    BY <1>1, <1>2, <1>9, <2>1, <2>2, <2>3 DEF ErrorsInv, Kind
<1> QED
  BY <1>3, <1>5, <1>6, <1>7, <1>8, <1>10, <1>11 DEF KindInv

(* A duplicate makes no report; its mail notes the one that has its key. *)
LEMMA SkipDuplicateKind ==
    ASSUME MailTypes, LocalInv, NEW k \in Kind, NEW h, SkipDuplicate(k, h)
    PROVE  /\ KindInv(k)' /\ ErrorsInv'
           /\ duplicates' \in [Kind -> [mails -> Seq(Data \X mails)]]
           /\ \A j \in Kind \ {k} : duplicates'[j] = duplicates[j]
<1> DEFINE mail == files[k][h].mail
           kept == firstOf[k][DuplicateKey(files[k][h].data)]
<1>1. /\ UNCHANGED <<fixed, pc, todo, files, found, reports, firstOf, failures, errors>>
      /\ UNCHANGED <<setup, digest, mails>>
      /\ NextFile(k, h) /\ files[k][h].data \in Valid /\ setup.filter
      /\ DuplicateKey(files[k][h].data) \in DOMAIN firstOf[k]
      /\ duplicates' = [duplicates EXCEPT ![k][mail] = Append(duplicates[k][mail], kept)]
  BY DEF SkipDuplicate, IsDuplicate, fixed
<1>2. KindInv(k) /\ LocalTypes /\ ErrorsInv
  BY DEF LocalInv
<1>3. /\ h \in DOMAIN files[k] /\ h \notin Handled(k)
      /\ Handled(k)' = Handled(k) \cup {h} /\ OrderInv(k)'
      /\ \A g \in Handled(k) : digest[g] <= digest[h]
      /\ \A m : HandledOf(k, m)' = IF m = mail THEN HandledOf(k, m) \cup {h} ELSE HandledOf(k, m)
      /\ \A m : IsFiniteSet(HandledOf(k, m)) /\ h \notin HandledOf(k, m)
  BY <1>1, NextFileFacts
<1>4. mail \in mails
  BY <1>2, <1>3, FileFacts DEF KindInv
<1>5. /\ kept \in DOMAIN reports[k]
      /\ DuplicateKey(reports[k][kept].data) = DuplicateKey(files[k][h].data)
  BY <1>1, <1>2 DEF KindInv, FilterInv
<1>6. kept \in Data \X mails
  <2>1. /\ kept = ReportHash(reports[k][kept]) /\ reports[k][kept].mail \in mails
        /\ reports[k][kept] \in [mail : Read, data : Data]
    BY <1>2, <1>5, ReportFacts DEF KindInv
  <2> HIDE DEF kept
  <2> QED
    BY <2>1 DEF ReportHash
<1>7. FilesInv(k)'
  BY <1>1, <1>2, FilesStay DEF KindInv
<1>8. ReportsInv(k)'
  BY <1>1, <1>2, <1>3 DEF KindInv, ReportsInv
<1>9. FilterInv(k)'
  <2>1. ASSUME NEW r \in DOMAIN reports[k]
        PROVE  digest[FileHash(reports[k][r].mail, reports[k][r].data)] <= digest[h]
    <3>1. FileHash(reports[k][r].mail, reports[k][r].data) \in Handled(k)
      BY <1>2, ReportFacts DEF KindInv
    <3> QED
      BY <1>3, <3>1
  <2>2. /\ \A g \in Handled(k)' :
             files[k][g].data \in Valid => DuplicateKey(files[k][g].data) \in DOMAIN firstOf[k]
        /\ \A r \in DOMAIN reports[k], g \in Handled(k)' :
             /\ files[k][g].data \in Valid
             /\ DuplicateKey(files[k][g].data) = DuplicateKey(reports[k][r].data)
             => digest[FileHash(reports[k][r].mail, reports[k][r].data)] <= digest[g]
    BY <1>1, <1>2, <1>3, <2>1 DEF KindInv, FilterInv
  <2> QED
    BY <1>1, <1>2, <2>2 DEF KindInv, FilterInv
<1>10. \A m \in mails : /\ duplicates[k][m] \in Seq(Data \X mails)
                        /\ duplicates'[k][m] = IF m = mail THEN Append(duplicates[k][m], kept)
                                                           ELSE duplicates[k][m]
  BY <1>1, <1>2, <1>4 DEF LocalTypes
<1>11. \A m \in mails : /\ duplicates'[k][m] \in Seq(Data \X mails)
                        /\ Len(duplicates'[k][m]) = IF m = mail THEN Len(duplicates[k][m]) + 1
                                                                ELSE Len(duplicates[k][m])
                        /\ m = mail => duplicates'[k][m] # <<>>
  <2> SUFFICES ASSUME NEW m \in mails
               PROVE  /\ duplicates'[k][m] \in Seq(Data \X mails)
                      /\ Len(duplicates'[k][m]) = IF m = mail THEN Len(duplicates[k][m]) + 1
                                                              ELSE Len(duplicates[k][m])
                      /\ m = mail => duplicates'[k][m] # <<>>
    OBVIOUS
  <2>1. /\ Append(duplicates[k][m], kept) \in Seq(Data \X mails)
        /\ Append(duplicates[k][m], kept) # <<>>
        /\ Len(Append(duplicates[k][m], kept)) = Len(duplicates[k][m]) + 1
    BY <1>6, <1>10, AppendProperties
  <2> HIDE DEF kept, mail
  <2> QED
    BY <1>10, <2>1
<1>12. DuplicatesInv(k)'
  <2>0. ASSUME NEW m \in mails
        PROVE  /\ DOMAIN duplicates[k][m] = 1 .. Len(duplicates[k][m])
               /\ DOMAIN duplicates'[k][m] = 1 .. Len(duplicates'[k][m])
               /\ \A i \in 1 .. Len(duplicates[k][m]) :
                    Append(duplicates[k][m], kept)[i] = duplicates[k][m][i]
               /\ Append(duplicates[k][m], kept)[Len(duplicates[k][m]) + 1] = kept
               /\ Len(duplicates[k][m]) \in Nat
    <3>1. duplicates[k][m] \in Seq(Data \X mails) /\ duplicates'[k][m] \in Seq(Data \X mails)
      BY <1>10, <1>11
    <3>2. /\ \A i \in 1 .. Len(duplicates[k][m]) :
               Append(duplicates[k][m], kept)[i] = duplicates[k][m][i]
          /\ Append(duplicates[k][m], kept)[Len(duplicates[k][m]) + 1] = kept
      BY <1>6, <3>1, AppendProperties
    <3> QED
      BY <3>1, <3>2, LenProperties
  <2>1. ASSUME NEW m \in mails, NEW i \in DOMAIN duplicates'[k][m]
        PROVE  /\ duplicates'[k][m][i] \in DOMAIN reports[k]
               /\ \E g \in Handled(k)' :
                    /\ files[k][g].mail = m
                    /\ files[k][g].data \in Valid
                    /\ DuplicateKey(files[k][g].data)
                         = DuplicateKey(reports[k][duplicates'[k][m][i]].data)
    <3>1. CASE m = mail /\ i = Len(duplicates[k][m]) + 1
      <4>1. duplicates'[k][m][i] = kept
        <5> HIDE DEF kept, mail
        <5> QED
          BY <1>10, <2>0, <3>1
      <4> QED
        BY <1>1, <1>3, <1>5, <3>1, <4>1
    <3>2. CASE ~(m = mail /\ i = Len(duplicates[k][m]) + 1)
      <4>1. i \in DOMAIN duplicates[k][m] /\ duplicates'[k][m][i] = duplicates[k][m][i]
        <5>1. i \in 1 .. Len(duplicates'[k][m])
          BY <2>0, <2>1
        <5>2. i \in 1 .. Len(duplicates[k][m])
          <6> HIDE DEF kept, mail
          <6> QED
            BY <1>11, <2>0, <3>2, <5>1
        <5>3. duplicates'[k][m] = Append(duplicates[k][m], kept) \/ duplicates'[k][m] = duplicates[k][m]
          BY <1>10
        <5>4. Append(duplicates[k][m], kept)[i] = duplicates[k][m][i]
          BY <2>0, <5>2
        <5>5. i \in DOMAIN duplicates[k][m]
          BY <2>0, <5>2
        <5> HIDE DEF kept, mail
        <5> QED
          BY <5>3, <5>4, <5>5
      <4> QED
        BY <1>2, <1>3, <4>1 DEF KindInv, DuplicatesInv
    <3> QED
      BY <3>1, <3>2
  <2>2. ASSUME NEW g \in Handled(k)', files[k][g].data \in Valid
        PROVE  \/ ReportHash(files[k][g]) \in DOMAIN reports[k]
               \/ duplicates'[k][files[k][g].mail] # <<>>
    <3>1. CASE g = h
      BY <1>4, <1>11, <3>1
    <3>2. CASE g # h
      <4>1. g \in Handled(k) /\ g \in DOMAIN files[k]
        BY <1>3, <3>2 DEF Handled
      <4>2. files[k][g].mail \in mails
        BY <1>2, <4>1, FileFacts DEF KindInv
      <4>3. \/ ReportHash(files[k][g]) \in DOMAIN reports[k]
            \/ duplicates[k][files[k][g].mail] # <<>>
        BY <1>2, <2>2, <4>1 DEF KindInv, DuplicatesInv
      <4> HIDE DEF kept
      <4> QED
        BY <1>10, <1>11, <4>2, <4>3
    <3> QED
      BY <3>1, <3>2
  <2>3. UNCHANGED <<files, reports, mails>>
    BY <1>1
  <2> HIDE DEF kept, mail
  <2> QED
    BY <2>1, <2>2, <2>3 DEF DuplicatesInv, ReportHash
<1>13. CountsInv(k)'
  <2> SUFFICES ASSUME NEW m \in mails
               PROVE  Cardinality(LocalReportsOf(k, m)') + Len(duplicates'[k][m]) + failures'[k][m]
                        = Cardinality(HandledOf(k, m)')
    BY <1>1 DEF CountsInv
  <2> DEFINE a == Cardinality(LocalReportsOf(k, m))
             b == Len(duplicates[k][m])
             c == failures[k][m]
             n == Cardinality(HandledOf(k, m))
  <2>1. LocalReportsOf(k, m)' = LocalReportsOf(k, m) /\ failures'[k][m] = failures[k][m]
    BY <1>1 DEF LocalReportsOf
  <2>2. n \in Nat /\ Cardinality(HandledOf(k, m)') = IF m = mail THEN n + 1 ELSE n
    BY <1>3, FS_AddElement, FS_CardinalityType
  <2>3. a + b + c = n
    BY <1>2 DEF KindInv, CountsInv
  <2>4. b \in Nat /\ c \in Nat
    BY <1>2, <1>10, LenProperties DEF LocalTypes
  <2>5. a \in Nat
    BY <1>2, ReportsAreFinite DEF KindInv
  <2>6. Len(duplicates'[k][m]) = IF m = mail THEN b + 1 ELSE b
    BY <1>11
  <2>7. Cardinality(LocalReportsOf(k, m)') = a /\ failures'[k][m] = c
    BY <2>1
  <2> HIDE DEF mail, a, b, c, n
  <2> QED
    BY ONLY <2>2, <2>3, <2>4, <2>5, <2>6, <2>7
<1>14. duplicates' \in [Kind -> [mails -> Seq(Data \X mails)]]
  <2>1. Append(duplicates[k][mail], kept) \in Seq(Data \X mails)
    BY <1>4, <1>10, <1>11
  <2> HIDE DEF kept, mail
  <2> QED
    BY <1>1, <1>2, <1>4, <2>1 DEF LocalTypes
<1>15. \A j \in Kind \ {k} : duplicates'[j] = duplicates[j]
  BY <1>1, <1>2 DEF LocalTypes
<1>16. ErrorsInv'
  BY <1>1, <1>2 DEF ErrorsInv
<1> QED
  BY <1>3, <1>7, <1>8, <1>9, <1>12, <1>13, <1>14, <1>15, <1>16 DEF KindInv

(* Any other file that parses makes a report, the first one with its key.  *)
LEMMA KeepReportKind ==
    ASSUME MailTypes, LocalInv, NEW k \in Kind, NEW h, KeepReport(k, h)
    PROVE  /\ KindInv(k)' /\ ErrorsInv'
           /\ DOMAIN reports' = Kind /\ DOMAIN firstOf' = Kind
           /\ \A j \in Kind \ {k} : reports'[j] = reports[j] /\ firstOf'[j] = firstOf[j]
<1> DEFINE file == files[k][h]
           mail == file.mail
           r == ReportHash(file)
           key == DuplicateKey(file.data)
<1>1. /\ UNCHANGED <<fixed, pc, todo, files, found, duplicates, failures, errors>>
      /\ UNCHANGED <<setup, digest, mails>>
      /\ NextFile(k, h) /\ file.data \in Valid
      /\ setup.filter => key \notin DOMAIN firstOf[k]
      /\ reports' = [reports EXCEPT ![k] = Put(reports[k], r, file)]
      /\ firstOf' = IF setup.filter THEN [firstOf EXCEPT ![k] = Put(firstOf[k], key, r)]
                                    ELSE firstOf
  BY DEF KeepReport, IsDuplicate, fixed
<1>2. KindInv(k) /\ LocalTypes /\ ErrorsInv
  BY DEF LocalInv
<1>3. /\ h \in DOMAIN files[k] /\ h \notin Handled(k)
      /\ Handled(k)' = Handled(k) \cup {h} /\ OrderInv(k)'
      /\ \A g \in Handled(k) : digest[g] <= digest[h]
      /\ \A m : HandledOf(k, m)' = IF m = mail THEN HandledOf(k, m) \cup {h} ELSE HandledOf(k, m)
      /\ \A m : IsFiniteSet(HandledOf(k, m)) /\ h \notin HandledOf(k, m)
  BY <1>1, NextFileFacts
<1>4. /\ mail \in mails /\ h = FileHash(mail, file.data) /\ digest[h] \in Nat
  BY <1>2, <1>3, FileFacts DEF KindInv
<1>5. r \notin DOMAIN reports[k]
  BY <1>2, <1>3, ReportIsNew DEF KindInv
<1>6. /\ DOMAIN reports' = Kind /\ \A j \in Kind \ {k} : reports'[j] = reports[j]
      /\ DOMAIN reports'[k] = DOMAIN reports[k] \cup {r}
      /\ reports'[k][r] = file
      /\ \A s \in DOMAIN reports[k] : reports'[k][s] = reports[k][s]
  <2> HIDE DEF r, file
  <2> QED
    BY <1>1, <1>2, <1>5 DEF LocalTypes, Put
<1>7. /\ DOMAIN firstOf' = Kind /\ \A j \in Kind \ {k} : firstOf'[j] = firstOf[j]
      /\ setup.filter =>
           /\ DOMAIN firstOf'[k] = DOMAIN firstOf[k] \cup {key}
           /\ firstOf'[k][key] = r
           /\ \A x \in DOMAIN firstOf[k] : x # key /\ firstOf'[k][x] = firstOf[k][x]
  <2> HIDE DEF r, key
  <2> QED
    BY <1>1, <1>2 DEF LocalTypes, Put
<1>8. r = ReportHash(file) /\ key = DuplicateKey(file.data) /\ file.data \in Valid
  BY <1>1
<1>9. UNCHANGED <<setup, digest, files, mails, duplicates>>
  BY <1>1
<1>10. FilesInv(k)'
  BY <1>1, <1>2, FilesStay DEF KindInv
<1>11. ReportsInv(k)'
  <2>1. ASSUME NEW s \in DOMAIN reports'[k]
        PROVE  /\ s = ReportHash(reports'[k][s])
               /\ reports'[k][s].data \in Valid
               /\ \E g \in Handled(k)' : files[k][g] = reports'[k][s]
    <3>1. CASE s = r
      BY <1>3, <1>6, <1>8, <3>1
    <3>2. CASE s # r
      <4>1. s \in DOMAIN reports[k] /\ reports'[k][s] = reports[k][s]
        BY <1>6, <3>2
      <4> HIDE DEF r, file
      <4> QED
        BY <1>2, <1>3, <4>1 DEF KindInv, ReportsInv
    <3> QED
      BY <3>1, <3>2
  <2>2. ASSUME ~setup.filter, NEW g \in Handled(k)', files[k][g].data \in Valid
        PROVE  ReportHash(files[k][g]) \in DOMAIN reports'[k]
    <3>1. CASE g = h
      BY <1>6, <3>1
    <3>2. CASE g # h
      <4>1. g \in Handled(k)
        BY <1>3, <3>2
      <4> HIDE DEF r, file
      <4> QED
        BY <1>2, <1>6, <2>2, <4>1 DEF KindInv, ReportsInv
    <3> QED
      BY <3>1, <3>2
  <2> QED
    BY <1>9, <2>1, <2>2 DEF ReportsInv, ReportHash
<1>12. FilterInv(k)'
  <2> SUFFICES ASSUME setup.filter PROVE FilterInv(k)'
    BY <1>9 DEF FilterInv
  <2>1. \A g \in Handled(k) :
          files[k][g].data \in Valid => DuplicateKey(files[k][g].data) \in DOMAIN firstOf[k]
    BY <1>2 DEF KindInv, FilterInv
  <2>2. \A x \in DOMAIN firstOf[k] :
          /\ firstOf[k][x] \in DOMAIN reports[k]
          /\ DuplicateKey(reports[k][firstOf[k][x]].data) = x
    BY <1>2 DEF KindInv, FilterInv
  <2>3. \A s \in DOMAIN reports[k] :
          /\ DuplicateKey(reports[k][s].data) \in DOMAIN firstOf[k]
          /\ firstOf[k][DuplicateKey(reports[k][s].data)] = s
    BY <1>2 DEF KindInv, FilterInv
  <2>4. ASSUME NEW g \in Handled(k)', files[k][g].data \in Valid
        PROVE  DuplicateKey(files[k][g].data) \in DOMAIN firstOf'[k]
    <3>1. CASE g = h
      BY <1>7, <3>1
    <3>2. CASE g # h
      <4> HIDE DEF r, key, file
      <4> QED
        BY <1>3, <1>7, <2>1, <2>4, <3>2
    <3> QED
      BY <3>1, <3>2
  <2>5. ASSUME NEW x \in DOMAIN firstOf'[k]
        PROVE  /\ firstOf'[k][x] \in DOMAIN reports'[k]
               /\ DuplicateKey(reports'[k][firstOf'[k][x]].data) = x
    <3>1. CASE x = key
      <4>1. firstOf'[k][x] = r /\ reports'[k][r] = file
        BY <1>6, <1>7, <3>1
      <4> HIDE DEF r, key, file
      <4> QED
        BY <1>6, <1>8, <3>1, <4>1
    <3>2. CASE x # key
      <4> HIDE DEF r, key, file
      <4> QED
        BY <1>6, <1>7, <2>2, <2>5, <3>2
    <3> QED
      BY <3>1, <3>2
  <2>6. ASSUME NEW s \in DOMAIN reports'[k]
        PROVE  /\ DuplicateKey(reports'[k][s].data) \in DOMAIN firstOf'[k]
               /\ firstOf'[k][DuplicateKey(reports'[k][s].data)] = s
    <3>1. CASE s = r
      <4> HIDE DEF r, key, file
      <4> QED
        BY <1>6, <1>7, <1>8, <3>1
    <3>2. CASE s # r
      <4> HIDE DEF r, key, file
      <4> QED
        BY <1>6, <1>7, <2>3, <2>6, <3>2
    <3> QED
      BY <3>1, <3>2
  <2>7. ASSUME NEW s \in DOMAIN reports'[k], NEW g \in Handled(k)',
               files[k][g].data \in Valid,
               DuplicateKey(files[k][g].data) = DuplicateKey(reports'[k][s].data)
        PROVE  digest[FileHash(reports'[k][s].mail, reports'[k][s].data)] <= digest[g]
    <3>1. CASE s = r
      <4>1. g = h
        <5> SUFFICES ASSUME g # h PROVE FALSE
          OBVIOUS
        <5> HIDE DEF r, key, file
        <5> QED
          BY <1>3, <1>6, <1>7, <1>8, <2>1, <2>7, <3>1
      <4>2. FileHash(reports'[k][s].mail, reports'[k][s].data) = h
        BY <1>4, <1>6, <3>1
      <4> QED
        BY <1>4, <4>1, <4>2
    <3>2. CASE s # r
      <4>1. s \in DOMAIN reports[k] /\ reports'[k][s] = reports[k][s]
        BY <1>6, <3>2
      <4>2. CASE g = h
        <5>1. FileHash(reports[k][s].mail, reports[k][s].data) \in Handled(k)
          BY <1>2, <4>1, ReportFacts DEF KindInv
        <5> HIDE DEF r, key, file
        <5> QED
          BY <1>3, <4>1, <4>2, <5>1
      <4>3. CASE g # h
        <5>1. g \in Handled(k)
          BY <1>3, <4>3
        <5> HIDE DEF r, key, file
        <5> QED
          BY <1>2, <2>7, <4>1, <5>1 DEF KindInv, FilterInv
      <4> QED
        BY <4>2, <4>3
    <3> QED
      BY <3>1, <3>2
  <2> HIDE DEF r, key, file, mail
  <2> QED
    BY <1>9, <2>4, <2>5, <2>6, <2>7 DEF FilterInv
<1>13. DuplicatesInv(k)'
  <2>1. ASSUME NEW m \in mails, NEW i \in DOMAIN duplicates[k][m]
        PROVE  /\ duplicates[k][m][i] \in DOMAIN reports'[k]
               /\ \E g \in Handled(k)' :
                    /\ files[k][g].mail = m
                    /\ files[k][g].data \in Valid
                    /\ DuplicateKey(files[k][g].data)
                         = DuplicateKey(reports'[k][duplicates[k][m][i]].data)
    <3>1. /\ duplicates[k][m][i] \in DOMAIN reports[k]
          /\ \E g \in Handled(k) :
                    /\ files[k][g].mail = m
                    /\ files[k][g].data \in Valid
                    /\ DuplicateKey(files[k][g].data)
                         = DuplicateKey(reports[k][duplicates[k][m][i]].data)
      BY <1>2, <2>1 DEF KindInv, DuplicatesInv
    <3> HIDE DEF r, key, file, mail
    <3> QED
      BY <1>3, <1>6, <3>1
  <2>2. ASSUME NEW g \in Handled(k)', files[k][g].data \in Valid
        PROVE  \/ ReportHash(files[k][g]) \in DOMAIN reports'[k]
               \/ duplicates[k][files[k][g].mail] # <<>>
    <3>1. CASE g = h
      BY <1>6, <3>1
    <3>2. CASE g # h
      <4>1. g \in Handled(k)
        BY <1>3, <3>2
      <4> HIDE DEF r, key, file, mail
      <4> QED
        BY <1>2, <1>6, <2>2, <4>1 DEF KindInv, DuplicatesInv
    <3> QED
      BY <3>1, <3>2
  <2> HIDE DEF r, key, file, mail
  <2> QED
    BY <1>9, <2>1, <2>2 DEF DuplicatesInv, ReportHash
<1>14. CountsInv(k)'
  <2> SUFFICES ASSUME NEW m \in mails
               PROVE  Cardinality(LocalReportsOf(k, m)') + Len(duplicates'[k][m]) + failures'[k][m]
                        = Cardinality(HandledOf(k, m)')
    BY <1>1 DEF CountsInv
  <2> DEFINE a == Cardinality(LocalReportsOf(k, m))
             b == Len(duplicates[k][m])
             c == failures[k][m]
             n == Cardinality(HandledOf(k, m))
  <2>1. Len(duplicates'[k][m]) = b /\ failures'[k][m] = c
    BY <1>1
  <2>2. n \in Nat /\ Cardinality(HandledOf(k, m)') = IF m = mail THEN n + 1 ELSE n
    BY <1>3, FS_AddElement, FS_CardinalityType
  <2>3. a + b + c = n
    BY <1>2 DEF KindInv, CountsInv
  <2>4. b \in Nat /\ c \in Nat
    BY <1>2, LenProperties DEF LocalTypes
  <2>5. a \in Nat /\ IsFiniteSet(LocalReportsOf(k, m))
    BY <1>2, ReportsAreFinite DEF KindInv
  <2>6. LocalReportsOf(k, m)' = IF m = mail THEN LocalReportsOf(k, m) \cup {r} ELSE LocalReportsOf(k, m)
    <3>1. r \in DOMAIN reports'[k] /\ reports'[k][r].mail = mail
      BY <1>6
    <3> HIDE DEF r, key, file, mail
    <3> QED
      BY <1>6, <3>1 DEF LocalReportsOf
  <2>7. r \notin LocalReportsOf(k, m)
    BY <1>5 DEF LocalReportsOf
  <2>8. Cardinality(LocalReportsOf(k, m)') = IF m = mail THEN a + 1 ELSE a
    <3> HIDE DEF r, key, file, mail
    <3> QED
      BY <2>5, <2>6, <2>7, FS_AddElement
  <2> HIDE DEF mail, a, b, c, n
  <2> QED
    BY ONLY <2>1, <2>2, <2>3, <2>4, <2>5, <2>8
<1>15. ErrorsInv'
  BY <1>1, <1>2 DEF ErrorsInv
<1> QED
  BY <1>3, <1>6, <1>7, <1>10, <1>11, <1>12, <1>13, <1>14, <1>15 DEF KindInv

(* Each of the three keeps the invariant, for the files of the other kind, *)
(* too, of which it changes nothing.                                       *)
LEMMA ParseStep ==
    ASSUME MailTypes, LocalInv, NEW k \in Kind, Parse(k)
    PROVE  LocalInv'
<1> USE DEF LocalInv
<1>1. PICK h \in DOMAIN files[k] : FailToParse(k, h) \/ SkipDuplicate(k, h) \/ KeepReport(k, h)
  BY DEF Parse
<1>2. /\ NextFile(k, h) /\ UNCHANGED <<fixed, pc, todo, files, found>>
      /\ UNCHANGED <<setup, digest, mails>>
  BY <1>1 DEF FailToParse, SkipDuplicate, KeepReport, fixed
<1>3. /\ \A j \in Kind \ {k} : pending'[j] = pending[j] /\ Handled(j)' = Handled(j)
      /\ pending' \in [Kind -> SUBSET (Data \X {m.uid : m \in Mail})]
  BY <1>2, NextFileFacts
<1>4. files[k][h].mail \in mails
  BY FileFacts DEF KindInv
<1>5. /\ KindInv(k)' /\ ErrorsInv'
      /\ DOMAIN reports' = Kind /\ DOMAIN firstOf' = Kind
      /\ duplicates' \in [Kind -> [mails -> Seq(Data \X mails)]]
      /\ failures' \in [Kind -> [mails -> Nat]]
      /\ errors' \in [mails -> Nat]
      /\ \A j \in Kind \ {k} : UNCHANGED <<reports[j], firstOf[j], duplicates[j], failures[j]>>
  <2>1. CASE FailToParse(k, h)
    <3>1. KindInv(k)' /\ ErrorsInv'
      BY <2>1, FailToParseKind
    <3>2. /\ UNCHANGED <<reports, firstOf, duplicates>>
          /\ errors' = [errors EXCEPT ![files[k][h].mail] = errors[files[k][h].mail] + 1]
          /\ failures' = [failures EXCEPT ![k][files[k][h].mail] = failures[k][files[k][h].mail] + 1]
      BY <2>1 DEF FailToParse
    <3>3. failures[k] \in [mails -> Nat] /\ errors \in [mails -> Nat]
      BY DEF LocalTypes
    <3>4. failures[k][files[k][h].mail] + 1 \in Nat /\ errors[files[k][h].mail] + 1 \in Nat
      BY <1>4, <3>3
    <3> QED
      BY <1>4, <3>1, <3>2, <3>4 DEF LocalTypes
  <2>2. CASE SkipDuplicate(k, h)
    <3>1. UNCHANGED <<reports, firstOf, failures, errors>>
      BY <2>2 DEF SkipDuplicate
    <3> QED
      BY <2>2, <3>1, SkipDuplicateKind DEF LocalTypes
  <2>3. CASE KeepReport(k, h)
    <3>1. UNCHANGED <<duplicates, failures, errors>>
      BY <2>3 DEF KeepReport
    <3> QED
      BY <2>3, <3>1, KeepReportKind DEF LocalTypes
  <2> QED
    BY <1>1, <2>1, <2>2, <2>3
<1>6. \A j \in Kind : KindInv(j)'
  <2>1. ASSUME NEW j \in Kind \ {k} PROVE KindInv(j)'
    <3>1. KindInv(j) /\ UNCHANGED Handled(j) /\ UNCHANGED pending[j]
      BY <1>3, <2>1
    <3> QED
      BY <1>2, <1>5, <2>1, <3>1, OtherKind
  <2> QED
    BY <1>5, <2>1
<1>7. LocalTypes'
  BY <1>2, <1>3, <1>5 DEF LocalTypes
<1>8. Phases'
  <2>1. pc = k /\ pc' = pc /\ todo' = todo
    BY <1>2 DEF NextFile
  <2>2. k = "json" => pending'["xml"] = pending["xml"]
    BY <1>3 DEF Kind
  <2> QED
    BY <2>1, <2>2 DEF Phases, Kind
<1> QED
  BY <1>5, <1>6, <1>7, <1>8

(* An update keeps the invariant of its local variables. *)
LEMMA NextLocal ==
    ASSUME MailTypes, LocalInv, Next
    PROVE  LocalInv' /\ MailTypes' /\ UNCHANGED fixed /\ pc # "done" /\ pc' # "published"
<1>1. LocalInv'
  BY ExtractStep, AllExtractedStep, EndLoopStep, ParseStep DEF Next
<1>2. UNCHANGED fixed /\ pc # "done" /\ pc' # "published"
  BY DEF Next, Extract, AllExtracted, EndLoop, Parse, FailToParse, SkipDuplicate, KeepReport, NextFile, Kind
<1> QED
  BY <1>1, <1>2, SameFiles

-----------------------------------------------------------------------------
(***************************************************************************)
(* Publication, and the next update.                                       *)
(***************************************************************************)
(* Totals are about AppState only. *)
LEMMA SameTotals ==
    ASSUME NEW k, AppTotals(k), UNCHANGED app
    PROVE  AppTotals(k)'
BY DEF AppTotals, CountedFiles, FilesFrom, ReportsOf

(* While an update works on its variables, AppState stays as it is. *)
LEMMA WorkStep ==
    ASSUME HInv, Work
    PROVE  HInv'
<1>1. /\ LocalInv' /\ MailTypes' /\ UNCHANGED fixed /\ pc' # "published"
      /\ UNCHANGED <<app, read, updates>> /\ UNCHANGED <<setup, digest, content>>
  BY NextLocal DEF HInv, Work, appVars, fixed
<1>2. /\ \A m, k, d : Has(m, k, d)' <=> Has(m, k, d)
      /\ Watched(setup)' = Watched(setup)
  BY <1>1, SameContent
<1>3. AppTypes'
  BY <1>1, <1>2 DEF HInv, AppInv, AppTypes
<1>4. ASSUME NEW k \in Kind PROVE AppReports(k)' /\ AppMails(k)' /\ AppTotals(k)'
  <2>1. AppReports(k)'
    BY <1>1, <1>2, <1>4 DEF HInv, AppInv, AppReports, ReportHash, FileHash
  <2>2. AppMails(k)'
    BY <1>1, <1>4 DEF HInv, AppInv, AppMails, ReportsOf
  <2>3. AppTotals(k)'
    BY <1>1, <1>4, SameTotals DEF HInv, AppInv
  <2> QED
    BY <2>1, <2>2, <2>3
<1>5. AppErrors' /\ JustPublished'
  BY <1>1 DEF HInv, AppInv, AppErrors, JustPublished
<1> QED
  BY <1>1, <1>3, <1>4, <1>5 DEF HInv, AppInv

(* The next update begins with empty variables. *)
LEMMA NextUpdateStep ==
    ASSUME HInv, NextUpdate
    PROVE  HInv'
<1>1. PICK ms, gone :
        /\ ms \in SUBSET Watched(setup) /\ gone \in SUBSET ms
        /\ mails' = ms
        /\ missing' = gone
        /\ todo' = ms
        /\ found' = [k \in Kind |-> [m \in ms |-> 0]]
        /\ duplicates' = [k \in Kind |-> [m \in ms |-> <<>>]]
        /\ failures' = [k \in Kind |-> [m \in ms |-> 0]]
        /\ errors' = [m \in ms |-> 0]
  BY DEF NextUpdate
<1>2. /\ pc' = "extract"
      /\ files' = [k \in Kind |-> Empty]
      /\ pending' = [k \in Kind |-> {}]
      /\ reports' = [k \in Kind |-> Empty]
      /\ firstOf' = [k \in Kind |-> Empty]
      /\ updates < MaxUpdates /\ updates' = updates + 1
      /\ UNCHANGED <<setup, digest, content, app, read>>
  BY DEF NextUpdate
<1>3. LocalInv'
  <2>1. Fresh'
    BY <1>1, <1>2 DEF Fresh
  <2> QED
    BY <2>1, FreshInvNext
<1>4. /\ \A m, k, d : Has(m, k, d)' <=> Has(m, k, d)
      /\ Watched(setup)' = Watched(setup)
  BY <1>2, SameContent
<1>5. MailTypes'
  BY <1>1, <1>2, <1>4 DEF HInv, MailTypes
<1>6. AppTypes'
  <2>1. updates' \in 1 .. MaxUpdates
    BY <1>2, HistoryAssumption DEF HInv, AppInv, AppTypes
  <2> QED
    BY <1>2, <1>4, <2>1 DEF HInv, AppInv, AppTypes
<1>7. ASSUME NEW k \in Kind PROVE AppReports(k)' /\ AppMails(k)' /\ AppTotals(k)'
  <2>1. AppReports(k)'
    BY <1>2, <1>4, <1>7 DEF HInv, AppInv, AppReports, ReportHash, FileHash
  <2>2. AppMails(k)'
    BY <1>2, <1>7 DEF HInv, AppInv, AppMails, ReportsOf
  <2>3. AppTotals(k)'
    BY <1>2, <1>7, SameTotals DEF HInv, AppInv
  <2> QED
    BY <2>1, <2>2, <2>3
<1>8. AppErrors' /\ JustPublished'
  BY <1>2 DEF HInv, AppInv, AppErrors, JustPublished
<1> QED
  BY <1>3, <1>5, <1>6, <1>7, <1>8 DEF HInv, AppInv

(* At the end of an update every file of its mails was parsed. *)
LEMMA AllIsHandled ==
    ASSUME LocalInv, pc \in {"done", "published"}, NEW k \in Kind
    PROVE  Handled(k) = DOMAIN files[k] /\ todo = {} /\ pending[k] = {}
BY DEF LocalInv, Phases, Handled

(* A mail without files of a kind has no reports, duplicates and errors.   *)
LEMMA NothingFound ==
    ASSUME MailTypes, LocalInv, pc \in {"done", "published"}, NEW k \in Kind, NEW m \in mails
    PROVE  /\ content[m] = Oversized => found[k][m] = 0
           /\ found[k][m] = 0 =>
                LocalReportsOf(k, m) = {} /\ duplicates[k][m] = <<>> /\ failures[k][m] = 0
<1>1. found[k][m] = Cardinality(OfKind(m, k)) /\ IsFiniteSet(OfKind(m, k))
  <2>1. FilesInv(k) /\ todo = {}
    BY AllIsHandled DEF LocalInv, KindInv
  <2> QED
    BY <2>1, FilesAreFinite DEF FilesInv
<1>2. content[m] = Oversized => found[k][m] = 0
  <2>1. content[m] = Oversized => OfKind(m, k) = {}
    BY FilesAreRead DEF Read, OfKind
  <2> QED
    BY <1>1, <2>1, FS_EmptySet
<1>3. ASSUME found[k][m] = 0
      PROVE  LocalReportsOf(k, m) = {} /\ duplicates[k][m] = <<>> /\ failures[k][m] = 0
  <2>1. OfKind(m, k) = {}
    BY <1>1, <1>3, FS_EmptySet
  <2>2. HandledOf(k, m) = {}
    <3> SUFFICES ASSUME NEW h \in HandledOf(k, m) PROVE FALSE
      OBVIOUS
    <3>1. h \in DOMAIN files[k] /\ files[k][h].mail = m
      BY DEF HandledOf, Handled
    <3>2. m \in Read /\ Has(m, k, files[k][h].data)
      BY <3>1, FileFacts DEF LocalInv, KindInv, FilesInv
    <3> QED
      BY <2>1, <3>2, FilesAreHad DEF OfKind
  <2>3. Cardinality(HandledOf(k, m)) = 0
    BY <2>2, FS_EmptySet
  <2> DEFINE a == Cardinality(LocalReportsOf(k, m))
             b == Len(duplicates[k][m])
             c == failures[k][m]
  <2>4. a \in Nat /\ IsFiniteSet(LocalReportsOf(k, m))
    BY ReportsAreFinite DEF LocalInv, KindInv
  <2>5. duplicates[k][m] \in Seq(Data \X mails) /\ c \in Nat
    BY DEF LocalInv, LocalTypes
  <2>6. b \in Nat
    BY <2>5, LenProperties
  <2>7. a + b + c = 0
    BY <2>3 DEF LocalInv, KindInv, CountsInv
  <2>8. a = 0 /\ b = 0 /\ c = 0
    <3> HIDE DEF a, b, c
    <3> QED
      BY <2>4, <2>5, <2>6, <2>7
  <2>9. LocalReportsOf(k, m) = {}
    BY <2>4, <2>8, FS_EmptySet
  <2>10. duplicates[k][m] = <<>>
    BY <2>5, <2>8, EmptySeq
  <2> QED
    BY <2>8, <2>9, <2>10
<1> QED
  BY <1>2, <1>3

(* Whatever a mail has, that was read, is in the map of files. *)
LEMMA AllIsInTheMap ==
    ASSUME MailTypes, LocalInv, pc # "extract", NEW k \in Kind, NEW m \in Read, NEW d, Has(m, k, d)
    PROVE  /\ FileHash(m, d) \in DOMAIN files[k]
           /\ files[k][FileHash(m, d)] = [mail |-> m, data |-> d]
<1>1. todo = {} /\ FilesInv(k) /\ d \in Data
  BY HasTypes DEF LocalInv, Phases, KindInv
<1>2. FileHash(m, d) \in DOMAIN files[k] /\ files[k][FileHash(m, d)].mail = m
  BY <1>1 DEF FilesInv
<1>3. /\ files[k][FileHash(m, d)] \in [mail : Read, data : Data]
      /\ FileHash(m, d) = FileHash(files[k][FileHash(m, d)].mail, files[k][FileHash(m, d)].data)
  BY <1>1, <1>2, FileFacts
<1>4. files[k][FileHash(m, d)].data = d
  <2> DEFINE f == files[k][FileHash(m, d)]
  <2>1. FileHash(m, d) = FileHash(f.mail, f.data)
    BY <1>3
  <2> HIDE DEF f
  <2>2. f.data = d
    BY <2>1 DEF FileHash
  <2> QED
    BY <2>2 DEF f
<1> QED
  BY <1>2, <1>3, <1>4

(* What an update publishes belongs together. *)
LEMMA PublishStep ==
    ASSUME HInv, Publish
    PROVE  HInv'
<1>1. /\ pc = "done" /\ pc' = "published"
      /\ app' = [mails |-> mails, files |-> [k \in Kind |-> Cardinality(DOMAIN files[k])],
                 found |-> found, reports |-> reports, duplicates |-> duplicates,
                 failures |-> failures, errors |-> errors]
      /\ read' = Read
      /\ UNCHANGED <<fixed, todo, files, found, pending, reports, firstOf, duplicates, failures,
                     errors, updates>>
      /\ UNCHANGED <<setup, digest, content, mails>>
  BY DEF Publish, fixed
<1>2. MailTypes /\ LocalInv /\ AppInv
  BY DEF HInv
<1>3. /\ MailTypes' /\ Read' = Read
      /\ \A m, k, d : Has(m, k, d)' <=> Has(m, k, d)
      /\ Watched(setup)' = Watched(setup)
  BY <1>1, <1>2, SameFiles, SameContent
<1>4. LocalInv'
  <2>1. ASSUME NEW k \in Kind PROVE KindInv(k)'
    <3>1. Handled(k)' = Handled(k)
      BY <1>1 DEF Handled
    <3> QED
      BY <1>1, <1>2, <3>1, OtherKind DEF LocalInv
  <2>2. LocalTypes' /\ Phases' /\ ErrorsInv'
    BY <1>1, <1>2 DEF LocalInv, LocalTypes, Phases, ErrorsInv
  <2> QED
    BY <2>1, <2>2 DEF LocalInv
<1>5. /\ app'.mails = mails /\ app'.errors = errors
      /\ \A k \in Kind : /\ app'.files[k] = Cardinality(DOMAIN files[k])
                         /\ app'.found[k] = found[k] /\ app'.reports[k] = reports[k]
                         /\ app'.duplicates[k] = duplicates[k] /\ app'.failures[k] = failures[k]
  BY <1>1
<1>6. AppTypes'
  <2>1. mails \subseteq Watched(setup) /\ mails \subseteq Mail /\ Read \subseteq mails
    BY <1>2 DEF MailTypes, Watched, Read
  <2>2. ASSUME NEW k \in Kind
        PROVE  /\ Cardinality(DOMAIN files[k]) \in Nat
               /\ found[k] \in [mails -> Nat] /\ failures[k] \in [mails -> Nat]
               /\ duplicates[k] \in [mails -> Seq(Data \X Mail)]
    <3>1. Cardinality(DOMAIN files[k]) \in Nat
      BY <1>2, FS_CardinalityType DEF LocalInv, KindInv, FilesInv
    <3>2. duplicates[k] \in [mails -> Seq(Data \X mails)]
      BY <1>2 DEF LocalInv, LocalTypes
    <3>3. Data \X mails \subseteq Data \X Mail
      BY <2>1
    <3>4. Seq(Data \X mails) \subseteq Seq(Data \X Mail)
      BY <3>3
    <3> QED
      BY <1>2, <3>1, <3>2, <3>4 DEF LocalInv, LocalTypes
  <2>3. errors \in [mails -> Nat]
    BY <1>2 DEF LocalInv, LocalTypes
  <2> QED
    BY <1>1, <1>2, <1>3, <1>5, <2>1, <2>2, <2>3 DEF AppInv, AppTypes
<1>7. ASSUME NEW k \in Kind PROVE AppReports(k)' /\ AppMails(k)' /\ AppTotals(k)'
  <2>1. FilesInv(k) /\ ReportsInv(k) /\ FilterInv(k) /\ DuplicatesInv(k)
    BY <1>2 DEF LocalInv, KindInv
  <2>2. Handled(k) = DOMAIN files[k]
    BY <1>1, <1>2, AllIsHandled
  <2>3. AppReports(k)'
    <3>1. ASSUME NEW r \in DOMAIN reports[k]
          PROVE  /\ r = ReportHash(reports[k][r])
                 /\ reports[k][r].mail \in Read
                 /\ reports[k][r].data \in Valid
                 /\ Has(reports[k][r].mail, k, reports[k][r].data)
      BY <1>2, <2>1, ReportFacts
    <3>2. ASSUME setup.filter, NEW r \in DOMAIN reports[k], NEW m \in Read, NEW d \in Valid,
                 Has(m, k, d), DuplicateKey(d) = DuplicateKey(reports[k][r].data)
          PROVE  digest[FileHash(reports[k][r].mail, reports[k][r].data)] <= digest[FileHash(m, d)]
      <4>1. /\ FileHash(m, d) \in DOMAIN files[k]
            /\ files[k][FileHash(m, d)] = [mail |-> m, data |-> d]
        BY <1>1, <1>2, <3>2, AllIsInTheMap
      <4>2. files[k][FileHash(m, d)].data = d
        BY <4>1
      <4> QED
        BY <2>1, <2>2, <3>2, <4>1, <4>2 DEF FilterInv
    <3>3. Cardinality(DOMAIN reports[k]) <= Cardinality(DOMAIN files[k])
      BY <1>2, <2>1, ReportsAreFinite
    <3> QED
      BY <1>1, <1>3, <1>5, <3>1, <3>2, <3>3 DEF AppReports, ReportHash, FileHash
  <2>4. AppMails(k)'
    <3>1. ASSUME NEW m \in mails
          PROVE  /\ \A i \in DOMAIN duplicates[k][m] : duplicates[k][m][i] \in DOMAIN reports[k]
                 /\ content[m] = Oversized => found[k][m] = 0
                 /\ found[k][m] = 0 =>
                      LocalReportsOf(k, m) = {} /\ duplicates[k][m] = <<>> /\ failures[k][m] = 0
      BY <1>1, <1>2, <2>1, NothingFound DEF DuplicatesInv
    <3>2. \A m : ReportsOf(k, m)' = LocalReportsOf(k, m)
      BY <1>5 DEF ReportsOf, LocalReportsOf
    <3> QED
      BY <1>1, <1>5, <3>1, <3>2 DEF AppMails
  <2>5. AppTotals(k)'
    <3> DEFINE Owner == [h \in DOMAIN files[k] |-> files[k][h].mail]
               Of(m) == {h \in DOMAIN files[k] : Owner[h] = m}
    <3>1. Owner \in [DOMAIN files[k] -> mails]
      BY <1>2, <2>1, FileFacts
    <3>2. Cardinality(DOMAIN files[k]) = Cardinality(UNION {{m} \X (1 .. Cardinality(Of(m))) : m \in mails})
      <4> DEFINE part == [m \in mails |-> Of(m)]
                 size == [m \in mails |-> Cardinality(part[m])]
                 Pairs == UNION {{m} \X (1 .. size[m]) : m \in mails}
      <4>1. IsFiniteSet(DOMAIN files[k])
        BY <2>1 DEF FilesInv
      <4>2. \A m \in mails : \A h : h \in part[m] <=> h \in DOMAIN files[k] /\ Owner[h] = m
        OBVIOUS
      <4>3. Cardinality(DOMAIN files[k]) = Cardinality(Pairs)
        <5> HIDE DEF Owner, part
        <5>1. \A m \in mails : size[m] = Cardinality(part[m])
          OBVIOUS
        <5> HIDE DEF size
        <5>2. \A q : q \in Pairs <=> \E m \in mails : q \in {m} \X (1 .. size[m])
          OBVIOUS
        <5> HIDE DEF Pairs
        <5> QED
          <6>1. CutInParts(DOMAIN files[k], mails, Owner, part, size, Pairs)
            BY <3>1, <4>1, <4>2, <5>1, <5>2 DEF CutInParts
          <6> QED
            BY ONLY <6>1, CountedByParts
      <4>4. Pairs = UNION {{m} \X (1 .. Cardinality(Of(m))) : m \in mails}
        <5> HIDE DEF Of
        <5> QED
          OBVIOUS
      <4> QED
        BY <4>3, <4>4
    <3>3. ASSUME NEW m \in mails
          PROVE  FilesFrom(k, m)' = Cardinality(Of(m))
      <4>1. HandledOf(k, m) = Of(m)
        BY <2>2 DEF HandledOf
      <4>2. ReportsOf(k, m)' = LocalReportsOf(k, m)
        BY <1>5 DEF ReportsOf, LocalReportsOf
      <4>3. Cardinality(LocalReportsOf(k, m)) + Len(duplicates[k][m]) + failures[k][m]
              = Cardinality(HandledOf(k, m))
        BY <1>2 DEF LocalInv, KindInv, CountsInv
      <4> HIDE DEF Of
      <4> QED
        BY <1>5, <4>1, <4>2, <4>3 DEF FilesFrom
    <3>4. CountedFiles(k)' = UNION {{m} \X (1 .. Cardinality(Of(m))) : m \in mails}
      <4> HIDE DEF Of
      <4>1. CountedFiles(k)' = UNION {{m} \X (1 .. FilesFrom(k, m)') : m \in mails}
        BY <1>5 DEF CountedFiles
      <4> QED
        BY <3>3, <4>1
    <3> HIDE DEF Of
    <3> QED
      BY <1>5, <3>2, <3>4 DEF AppTotals
  <2> QED
    BY <2>3, <2>4, <2>5
<1>8. AppErrors'
  BY <1>2, <1>5 DEF AppErrors, LocalInv, ErrorsInv, Kind
<1>9. JustPublished'
  BY <1>1, <1>3 DEF JustPublished
<1> QED
  BY <1>3, <1>4, <1>6, <1>7, <1>8, <1>9 DEF HInv, AppInv

(* So every step keeps the invariant. *)
LEMMA HInvStep == HInv /\ [HistoryNext]_historyVars => HInv'
<1> SUFFICES ASSUME HInv, [HistoryNext]_historyVars PROVE HInv'
  OBVIOUS
<1>1. CASE Work
  BY <1>1, WorkStep
<1>2. CASE Publish
  BY <1>2, PublishStep
<1>3. CASE NextUpdate
  BY <1>3, NextUpdateStep
<1>4. CASE UNCHANGED historyVars
  <2>1. UNCHANGED <<vars, appVars>> /\ UNCHANGED fixed /\ UNCHANGED <<pc, todo, files, found>>
    BY <1>4 DEF historyVars, vars
  <2>2. MailTypes' /\ \A m, k : OfKind(m, k)' = OfKind(m, k)
    BY <2>1, SameFiles DEF HInv
  <2>3. UNCHANGED <<pending, reports, firstOf, duplicates, failures, errors, setup, digest, content,
                    mails, missing, app, read, updates>>
    BY <1>4 DEF historyVars, vars, appVars, fixed
  <2>4. LocalInv'
    <3>1. ASSUME NEW k \in Kind PROVE KindInv(k)'
      BY <2>1, <2>3, OtherKind DEF HInv, LocalInv, Handled
    <3>2. LocalTypes' /\ Phases' /\ ErrorsInv'
      BY <2>1, <2>3 DEF HInv, LocalInv, LocalTypes, Phases, ErrorsInv
    <3> QED
      BY <3>1, <3>2 DEF LocalInv
  <2>5. /\ \A m, k, d : Has(m, k, d)' <=> Has(m, k, d)
        /\ Watched(setup)' = Watched(setup) /\ Read' = Read
    BY <2>1, <2>3, SameContent, SameFiles
  <2>6. AppTypes' /\ AppErrors' /\ JustPublished'
    BY <2>1, <2>3, <2>5 DEF HInv, AppInv, AppTypes, AppErrors, JustPublished
  <2>7. ASSUME NEW k \in Kind PROVE AppReports(k)' /\ AppMails(k)' /\ AppTotals(k)'
    <3>1. AppReports(k)'
      BY <2>3, <2>5, <2>7 DEF HInv, AppInv, AppReports, ReportHash, FileHash
    <3>2. AppMails(k)'
      BY <2>3, <2>7 DEF HInv, AppInv, AppMails, ReportsOf
    <3>3. AppTotals(k)'
      BY <2>3, <2>7, SameTotals DEF HInv, AppInv
    <3> QED
      BY <3>1, <3>2, <3>3
  <2> QED
    BY <2>2, <2>4, <2>6, <2>7 DEF HInv, AppInv
<1> QED
  BY <1>1, <1>2, <1>3, <1>4 DEF HistoryNext

(* The invariant holds throughout. *)
LEMMA HInvHolds == HistorySpec => []HInv
BY HInvInit, HInvStep, PTL DEF HistorySpec

-----------------------------------------------------------------------------
(***************************************************************************)
(* Theorems.                                                               *)
(***************************************************************************)
(* The local variables of the updates and AppState have their types. *)
THEOREM HistoryTypesHold == HistorySpec => []HistoryTypeOK
<1>1. HInv => HistoryTypeOK
  <2> SUFFICES ASSUME HInv PROVE HistoryTypeOK
    OBVIOUS
  <2>1. ASSUME NEW k \in Kind, NEW h \in DOMAIN files[k]
        PROVE  files[k][h] \in [mail : mails, data : Data]
    <3>1. files[k][h] \in [mail : Read, data : Data]
      BY <2>1, FileFacts DEF HInv, LocalInv, KindInv
    <3>2. Read \subseteq mails
      BY DEF Read
    <3> QED
      BY <3>1, <3>2
  <2>2. ASSUME NEW k \in Kind, NEW h \in DOMAIN reports[k]
        PROVE  reports[k][h] \in [mail : mails, data : Valid]
    <3>1. /\ reports[k][h] \in [mail : Read, data : Data]
          /\ reports[k][h].data \in Valid
      BY <2>2, ReportFacts DEF HInv, LocalInv, KindInv
    <3>2. Read \subseteq mails
      BY DEF Read
    <3> QED
      BY <3>1, <3>2
  <2>3. pending \in [Kind -> SUBSET UNION {DOMAIN files[k] : k \in Kind}]
    <3>1. \A k \in Kind : pending[k] \subseteq DOMAIN files[k]
      BY DEF HInv, LocalInv, KindInv, OrderInv
    <3>2. \E S : pending \in [Kind -> S]
      BY DEF HInv, LocalInv, LocalTypes
    <3> QED
      BY <3>1, <3>2
  <2>4. pc # "published" => TypeOK
    BY <2>1, <2>2, <2>3 DEF HInv, LocalInv, MailTypes, LocalTypes, TypeOK
  <2> QED
    BY <2>4 DEF HInv, AppInv, AppTypes, HistoryTypeOK
<1> QED
  BY <1>1, HInvHolds, PTL

(* Each file of a mail that is read is in the map of files, with its mail. *)
THEOREM FilesAreNotReplaced == HistorySpec => []NoFileIsReplaced
<1>1. HInv => NoFileIsReplaced
  <2> SUFFICES ASSUME HInv, pc # "extract", NEW m \in mails, NEW p \in DOMAIN FilesOf(m)
               PROVE  \E h \in DOMAIN files[FilesOf(m)[p].kind] :
                        files[FilesOf(m)[p].kind][h] = [mail |-> m, data |-> FilesOf(m)[p].data]
    BY DEF NoFileIsReplaced
  <2>1. m \in Read
    BY FilesAreRead
  <2>2. Has(m, FilesOf(m)[p].kind, FilesOf(m)[p].data)
    BY <2>1, FilesAreHad
  <2>3. FilesOf(m)[p].kind \in Kind
    BY <2>1, <2>2, HasTypes DEF HInv
  <2> QED
    BY <2>1, <2>2, <2>3, AllIsInTheMap DEF HInv
<1> QED
  BY <1>1, HInvHolds, PTL

(* The report of a file stands at its hash. *)
LEMMA ReportOfFile ==
    ASSUME HInv, NEW k \in Kind, NEW h \in DOMAIN files[k],
           ReportHash(files[k][h]) \in DOMAIN reports[k]
    PROVE  reports[k][ReportHash(files[k][h])] = files[k][h]
<1> DEFINE r == ReportHash(files[k][h])
           report == reports[k][r]
           file == files[k][h]
<1>1. /\ r = ReportHash(report) /\ report \in [mail : Read, data : Data]
      /\ file \in [mail : Read, data : Data]
  BY ReportFacts, FileFacts DEF HInv, LocalInv, KindInv
<1>2. r = ReportHash(file)
  OBVIOUS
<1> HIDE DEF r, report, file
<1>3. report.mail = file.mail /\ report.data = file.data
  BY <1>1, <1>2 DEF ReportHash
<1>4. report = file
  BY <1>1, <1>3
<1> QED
  BY <1>4 DEF report, file, r

(* The filter keeps one report of each key, and without it every file that *)
(* parses is a report.                                                     *)
THEOREM EveryKeyIsShown == HistorySpec => []EveryKeyIsShownOnce
<1>1. HInv => EveryKeyIsShownOnce
  <2> SUFFICES ASSUME HInv, NEW k \in Kind, NEW h \in Handled(k), files[k][h].data \in Valid
               PROVE  LET SameKey == {r \in DOMAIN reports[k] :
                                DuplicateKey(reports[k][r].data) = DuplicateKey(files[k][h].data)}
                      IN  IF setup.filter THEN Cardinality(SameKey) = 1
                          ELSE files[k][h] \in {reports[k][r] : r \in SameKey}
    BY DEF EveryKeyIsShownOnce
  <2> DEFINE SameKey == {r \in DOMAIN reports[k] :
                           DuplicateKey(reports[k][r].data) = DuplicateKey(files[k][h].data)}
  <2>1. ReportsInv(k) /\ FilterInv(k) /\ h \in DOMAIN files[k]
    BY DEF HInv, LocalInv, KindInv, Handled
  <2>2. CASE setup.filter
    <3> DEFINE key == DuplicateKey(files[k][h].data)
    <3>1. SameKey = {firstOf[k][key]}
      <4>1. key \in DOMAIN firstOf[k]
        BY <2>1, <2>2 DEF FilterInv
      <4>2. firstOf[k][key] \in SameKey
        BY <2>1, <2>2, <4>1 DEF FilterInv
      <4>3. \A r \in SameKey : r = firstOf[k][key]
        BY <2>1, <2>2 DEF FilterInv
      <4> QED
        BY <4>2, <4>3
    <3>2. Cardinality(SameKey) = 1
      BY <3>1, FS_Singleton
    <3> QED
      BY <2>2, <3>2
  <2>3. CASE ~setup.filter
    <3>1. ReportHash(files[k][h]) \in DOMAIN reports[k]
      BY <2>1, <2>3 DEF ReportsInv
    <3>2. reports[k][ReportHash(files[k][h])] = files[k][h]
      BY <2>1, <3>1, ReportOfFile
    <3>3. ReportHash(files[k][h]) \in SameKey
      BY <3>1, <3>2
    <3> QED
      BY <2>3, <3>2, <3>3
  <2> QED
    BY <2>2, <2>3
<1> QED
  BY <1>1, HInvHolds, PTL

(* Each file of a mail is one of its reports, duplicates or errors. *)
THEOREM AllFilesAreAccountedFor == HistorySpec => []FilesAreAccountedFor
<1>1. HInv => FilesAreAccountedFor
  <2> SUFFICES ASSUME HInv PROVE FilesAreAccountedFor
    OBVIOUS
  <2>1. ASSUME NEW m \in app.mails
        PROVE  ErrorsHandler(m).body = app.failures["xml"][m] + app.failures["json"][m]
    <3>1. ErrorsHandler(m).body = app.errors[m]
      BY <2>1 DEF ErrorsHandler, Answer
    <3> QED
      BY <3>1 DEF HInv, AppInv, AppErrors
  <2>2. ASSUME pc = "published", NEW k \in Kind, NEW m \in app.mails
        PROVE  FilesFrom(k, m) = Cardinality({h \in DOMAIN files[k] : files[k][h].mail = m})
    <3>1. /\ app.mails = mails /\ app.reports = reports /\ app.duplicates = duplicates
          /\ app.failures = failures
      BY <2>2 DEF HInv, AppInv, JustPublished
    <3>2. HandledOf(k, m) = {h \in DOMAIN files[k] : files[k][h].mail = m}
      BY <2>2, AllIsHandled DEF HInv, HandledOf
    <3>3. Cardinality(LocalReportsOf(k, m)) + Len(duplicates[k][m]) + failures[k][m]
            = Cardinality(HandledOf(k, m))
      BY <2>2, <3>1 DEF HInv, LocalInv, KindInv, CountsInv
    <3>4. ReportsOf(k, m) = LocalReportsOf(k, m)
      BY <3>1 DEF ReportsOf, LocalReportsOf
    <3> QED
      BY <3>1, <3>2, <3>3, <3>4 DEF FilesFrom
  <2>3. ASSUME NEW k \in Kind
        PROVE  Totals.files[k] = Cardinality(CountedFiles(k)) /\ Totals.reports[k] <= Totals.files[k]
    BY <2>3 DEF Totals, HInv, AppInv, AppReports, AppTotals
  <2> QED
    BY <2>1, <2>2, <2>3 DEF FilesAreAccountedFor
<1> QED
  BY <1>1, HInvHolds, PTL

(* Every link from a report to its mail, and from a mail to the report     *)
(* that made its own a duplicate, leads somewhere.                         *)
THEOREM LinksLeadSomewhere == HistorySpec => []LinksWork
<1>1. HInv => LinksWork
  <2> SUFFICES ASSUME HInv PROVE LinksWork
    OBVIOUS
  <2>1. \A x : Answer(x) # NotFound /\ Answer(x).body = x
    BY DEF Answer, NotFound
  <2>2. ASSUME NEW k \in Kind, NEW h \in DOMAIN app.reports[k]
        PROVE  MailHandler(app.reports[k][h].mail) # NotFound
    <3>1. app.reports[k][h].mail \in app.mails
      BY <2>2 DEF HInv, AppInv, AppReports, AppTypes
    <3> QED
      BY <2>1, <3>1 DEF MailHandler
  <2>3. ASSUME NEW k \in Kind, NEW m \in app.mails, NEW i \in DOMAIN app.duplicates[k][m]
        PROVE  LET link == app.duplicates[k][m][i]
               IN  /\ ReportHandler(k, link) # NotFound
                   /\ pc = "published" => \E h \in DOMAIN files[k] :
                        /\ files[k][h].mail = m
                        /\ DuplicateKey(files[k][h].data) =
                            DuplicateKey(ReportHandler(k, link).body.data)
    <3> DEFINE link == app.duplicates[k][m][i]
    <3>1. link \in DOMAIN app.reports[k]
      BY <2>3 DEF HInv, AppInv, AppMails
    <3>2. ReportHandler(k, link) # NotFound /\ ReportHandler(k, link).body = app.reports[k][link]
      BY <2>1, <3>1 DEF ReportHandler
    <3>3. ASSUME pc = "published"
          PROVE  \E h \in DOMAIN files[k] :
                   /\ files[k][h].mail = m
                   /\ DuplicateKey(files[k][h].data) = DuplicateKey(app.reports[k][link].data)
      <4>1. app.mails = mails /\ app.reports = reports /\ app.duplicates = duplicates
        BY <3>3 DEF HInv, AppInv, JustPublished
      <4>2. Handled(k) = DOMAIN files[k]
        BY <3>3, AllIsHandled DEF HInv
      <4> QED
        BY <2>3, <4>1, <4>2 DEF HInv, LocalInv, KindInv, DuplicatesInv
    <3> QED
      BY <3>2, <3>3
  <2> QED
    BY <2>2, <2>3 DEF LinksWork
<1> QED
  BY <1>1, HInvHolds, PTL

(* A report that was shown is found under its URL after the next update,   *)
(* unless its mail is gone or unread, or a newly read mail replaces it.    *)
THEOREM LinksDoSurvive == HistorySpec => LinksSurvive
<1>1. HInv /\ [HistoryNext]_historyVars => [Survives]_historyVars
  <2> SUFFICES ASSUME HInv, [HistoryNext]_historyVars, app' # app,
                      NEW k \in Kind, NEW h \in DOMAIN app.reports[k],
                      app.reports[k][h].mail \in Read,
                      ~Replaceable(k, app.reports[k][h].data)
               PROVE  h \in DOMAIN app.reports'[k]
    BY DEF Survives
  <2> DEFINE report == app.reports[k][h]
             g == FileHash(report.mail, report.data)
  <2>1. pc = "done" /\ app'.reports = reports
    BY DEF HistoryNext, Work, Publish, NextUpdate, appVars, historyVars
  <2>2. /\ MailTypes /\ LocalInv /\ AppReports(k)
        /\ FilesInv(k) /\ ReportsInv(k) /\ FilterInv(k)
        /\ Handled(k) = DOMAIN files[k]
    BY <2>1, AllIsHandled DEF HInv, AppInv, LocalInv, KindInv
  <2>3. /\ h = ReportHash(report) /\ report.mail \in read /\ report.mail \in Read
        /\ report.data \in Valid /\ Has(report.mail, k, report.data)
    BY <2>2 DEF AppReports
  <2>4. g \in DOMAIN files[k] /\ files[k][g] = [mail |-> report.mail, data |-> report.data]
    BY <2>1, <2>2, <2>3, AllIsInTheMap
  <2>5. files[k][g].mail = report.mail /\ files[k][g].data = report.data
    BY <2>4
  <2>6. CASE ~setup.filter
    <3>1. ReportHash(files[k][g]) = h
      BY <2>3, <2>5 DEF ReportHash
    <3>2. ReportHash(files[k][g]) \in DOMAIN reports[k]
      BY <2>2, <2>3, <2>4, <2>5, <2>6 DEF ReportsInv
    <3> QED
      BY <2>1, <3>1, <3>2
  <2>7. CASE setup.filter
    <3>1. PICK r \in DOMAIN reports[k] : DuplicateKey(reports[k][r].data) = DuplicateKey(report.data)
      <4>1. DuplicateKey(report.data) \in DOMAIN firstOf[k]
        BY <2>2, <2>3, <2>4, <2>5, <2>7 DEF FilterInv
      <4> QED
        BY <2>2, <2>7, <4>1 DEF FilterInv
    <3> DEFINE n == reports[k][r].mail
               e == reports[k][r].data
    <3>2. /\ r = ReportHash(reports[k][r]) /\ n \in Read /\ e \in Valid /\ Has(n, k, e)
      BY <2>2, ReportFacts
    <3>3. digest[FileHash(n, e)] <= digest[g]
      BY <2>2, <2>3, <2>4, <2>5, <2>7, <3>1 DEF FilterInv
    <3>4. n \in read
      <4> SUFFICES ASSUME n \notin read PROVE FALSE
        OBVIOUS
      <4>1. PICK p \in DOMAIN FilesOf(n) : FilesOf(n)[p].kind = k /\ FilesOf(n)[p].data = e
        BY <3>2, FilesAreHad
      <4> QED
        BY <2>7, <3>1, <3>2, <4>1 DEF Replaceable
    <3>5. digest[g] <= digest[FileHash(n, e)]
      BY <2>2, <2>7, <3>1, <3>2, <3>4 DEF AppReports
    <3>6. /\ report.mail \in Mail /\ report.data \in Data /\ n \in Mail /\ e \in Data
      BY <2>2, <2>3, <3>2, HasTypes
    <3>7. digest[g] = digest[FileHash(n, e)]
      <4>1. digest[g] \in Nat /\ digest[FileHash(n, e)] \in Nat
        BY <2>2, <3>6, DigestsTellApart
      <4> QED
        BY <3>3, <3>5, <4>1
    <3>8. FileHash(report.mail, report.data) = FileHash(n, e)
      BY <2>2, <3>6, <3>7, DigestsTellApart
    <3>9. report.mail = n /\ report.data = e
      BY <2>2, <2>3, <3>2, <3>8, HashesTellApart
    <3>10. r = h
      BY <2>3, <3>2, <3>9 DEF ReportHash
    <3> QED
      BY <2>1, <3>10
  <2> QED
    BY <2>6, <2>7
<1> QED
  BY <1>1, HInvHolds, PTL DEF HistorySpec, LinksSurvive

-----------------------------------------------------------------------------
(***************************************************************************)
(* The pages of the mails.                                                 *)
(***************************************************************************)
(* What the buttons of the page of mails ask for. *)
LEMMA Buttons ==
    /\ OversizedMails = {m \in app.mails : content[m] = Oversized}
    /\ WithDmarc = {m \in app.mails : content[m] # Oversized /\ app.found["xml"][m] > 0}
    /\ WithTls = {m \in app.mails : content[m] # Oversized /\ app.found["json"][m] > 0}
    /\ WithoutFiles = {m \in app.mails : content[m] # Oversized /\ \A k \in Kind : app.found[k][m] = 0}
    /\ WithDuplicates = {m \in app.mails : \E k \in Kind : app.duplicates[k][m] # <<>>}
    /\ WithErrors = {m \in app.mails : \E k \in Kind : app.failures[k][m] > 0}
<1>1. OversizedMails = {m \in app.mails : content[m] = Oversized}
  BY DEF OversizedMails, MailList
<1>2. WithDmarc = {m \in app.mails : content[m] # Oversized /\ app.found["xml"][m] > 0}
  BY DEF WithDmarc, MailList, HasAttachment
<1>3. WithTls = {m \in app.mails : content[m] # Oversized /\ app.found["json"][m] > 0}
  BY DEF WithTls, MailList, HasAttachment
<1>4. WithoutFiles = {m \in app.mails : content[m] # Oversized /\ \A k \in Kind : app.found[k][m] = 0}
  BY DEF WithoutFiles, MailList, HasAttachment
<1>5. WithDuplicates = {m \in app.mails : \E k \in Kind : app.duplicates[k][m] # <<>>}
  BY DEF WithDuplicates, MailList
<1>6. WithErrors = {m \in app.mails : \E k \in Kind : app.failures[k][m] > 0}
  BY DEF WithErrors, MailList
<1> QED
  BY <1>1, <1>2, <1>3, <1>4, <1>5, <1>6

(* What the page of a mail says about reports. *)
LEMMA PageOfMail ==
    ASSUME NEW m \in app.mails
    PROVE  /\ SaysNoReports(m) <=>
                \A k \in Kind : ReportsOf(k, m) = {} /\ app.duplicates[k][m] = <<>>
           /\ ErrorsHandler(m).body = app.errors[m]
<1>1. \A k \in Kind : MailHandler(m).body.duplicates[k] = app.duplicates[k][m]
  BY DEF MailHandler, Answer
<1> QED
  BY <1>1 DEF SaysNoReports, ErrorsHandler, Answer

(* Just after an update, it says there are none if no file was valid. *)
LEMMA NoReportsMeansNoneValid ==
    ASSUME HInv, pc = "published", NEW m \in app.mails
    PROVE  (\A k \in Kind : ReportsOf(k, m) = {} /\ app.duplicates[k][m] = <<>>)
             <=> \A p \in DOMAIN FilesOf(m) : FilesOf(m)[p].data \notin Valid
<1>1. /\ app.mails = mails /\ app.reports = reports /\ app.duplicates = duplicates
      /\ MailTypes /\ LocalInv
      /\ \A k \in Kind : FilesInv(k) /\ ReportsInv(k) /\ DuplicatesInv(k)
      /\ \A k \in Kind : Handled(k) = DOMAIN files[k]
  BY AllIsHandled DEF HInv, AppInv, JustPublished, LocalInv, KindInv
<1>2. ASSUME \A k \in Kind : ReportsOf(k, m) = {} /\ app.duplicates[k][m] = <<>>,
             NEW p \in DOMAIN FilesOf(m), FilesOf(m)[p].data \in Valid
      PROVE  FALSE
  <2> DEFINE k == FilesOf(m)[p].kind
             d == FilesOf(m)[p].data
             h == FileHash(m, d)
  <2>1. m \in Read /\ Has(m, k, d)
    BY <1>2, FilesAreRead, FilesAreHad
  <2>2. k \in Kind
    BY <1>1, <2>1, HasTypes
  <2>3. h \in DOMAIN files[k] /\ files[k][h] = [mail |-> m, data |-> d]
    BY <1>1, <1>2, <2>1, <2>2, AllIsInTheMap
  <2>4. files[k][h].mail = m /\ files[k][h].data = d
    BY <2>3
  <2>5. ReportHash(files[k][h]) \in DOMAIN reports[k] \/ duplicates[k][m] # <<>>
    BY <1>1, <1>2, <2>2, <2>3, <2>4 DEF DuplicatesInv
  <2>6. ReportHash(files[k][h]) \in DOMAIN reports[k]
    BY <1>1, <1>2, <2>2, <2>5
  <2>7. reports[k][ReportHash(files[k][h])].mail = m
    BY <2>2, <2>3, <2>4, <2>6, ReportOfFile
  <2>8. ReportHash(files[k][h]) \in ReportsOf(k, m)
    BY <1>1, <2>6, <2>7 DEF ReportsOf
  <2> QED
    BY <1>2, <2>2, <2>8
<1>3. ASSUME \A p \in DOMAIN FilesOf(m) : FilesOf(m)[p].data \notin Valid, NEW k \in Kind
      PROVE  ReportsOf(k, m) = {} /\ app.duplicates[k][m] = <<>>
  <2>1. ASSUME NEW d \in Valid, Has(m, k, d), m \in Read
        PROVE  FALSE
    BY <1>3, <2>1, FilesAreHad
  <2>2. ASSUME NEW r \in ReportsOf(k, m)
        PROVE  FALSE
    <3>1. r \in DOMAIN reports[k] /\ reports[k][r].mail = m
      BY <1>1 DEF ReportsOf
    <3>2. /\ reports[k][r] \in [mail : Read, data : Data] /\ reports[k][r].data \in Valid
          /\ Has(reports[k][r].mail, k, reports[k][r].data)
      BY <1>1, <3>1, ReportFacts
    <3> QED
      BY <2>1, <3>1, <3>2
  <2>3. duplicates[k][m] = <<>>
    <3> SUFFICES ASSUME duplicates[k][m] # <<>> PROVE FALSE
      OBVIOUS
    <3>1. duplicates[k][m] \in Seq(Data \X mails)
      BY <1>1 DEF LocalInv, LocalTypes
    <3>2. 1 \in DOMAIN duplicates[k][m]
      <4>1. Len(duplicates[k][m]) \in Nat /\ Len(duplicates[k][m]) # 0
        BY <3>1, EmptySeq, LenProperties
      <4>2. DOMAIN duplicates[k][m] = 1 .. Len(duplicates[k][m])
        BY <3>1, LenProperties
      <4> QED
        BY <4>1, <4>2
    <3>3. PICK h \in DOMAIN files[k] : files[k][h].mail = m /\ files[k][h].data \in Valid
      BY <1>1, <3>2 DEF DuplicatesInv
    <3>4. m \in Read /\ Has(m, k, files[k][h].data)
      BY <1>1, <3>3, FileFacts DEF FilesInv
    <3> QED
      BY <2>1, <3>3, <3>4
  <2> QED
    BY <1>1, <2>2, <2>3
<1> QED
  BY <1>2, <1>3

(* The buttons of the page of mails and the pages of the mails agree. *)
THEOREM PagesOfMailsAgree == HistorySpec => []MailPagesAgree
<1>1. HInv => MailPagesAgree
  <2> SUFFICES ASSUME HInv, NEW m \in app.mails
      PROVE  /\ m \in OversizedMails \cup WithDmarc \cup WithTls \cup WithoutFiles
             /\ m \in OversizedMails \cup WithoutFiles => SaysNoReports(m) /\ m \notin WithErrors
             /\ m \in OversizedMails => m \notin WithDmarc \cup WithTls \cup WithoutFiles
             /\ m \in WithErrors <=> ErrorsHandler(m).body > 0
             /\ m \in WithDuplicates => ~SaysNoReports(m)
             /\ pc = "published" =>
                 (SaysNoReports(m) <=> \A p \in DOMAIN FilesOf(m) : FilesOf(m)[p].data \notin Valid)
             /\ LinkedMails(SenderLink(m)) = {n \in app.mails : Lower[Sender[n]] = Lower[Sender[m]]}
    BY DEF MailPagesAgree
  <2>1. \A k \in Kind : app.found[k][m] \in Nat /\ app.failures[k][m] \in Nat
    BY DEF HInv, AppInv, AppTypes
  <2>2. \A k \in Kind :
          /\ content[m] = Oversized => app.found[k][m] = 0
          /\ app.found[k][m] = 0 =>
               ReportsOf(k, m) = {} /\ app.duplicates[k][m] = <<>> /\ app.failures[k][m] = 0
    BY DEF HInv, AppInv, AppMails
  <2>3. m \in OversizedMails \cup WithDmarc \cup WithTls \cup WithoutFiles
    BY <2>1, Buttons DEF Kind
  <2>4. m \in OversizedMails \cup WithoutFiles => \A k \in Kind : app.found[k][m] = 0
    BY <2>2, Buttons
  <2>5. m \in OversizedMails \cup WithoutFiles => SaysNoReports(m) /\ m \notin WithErrors
    BY <2>2, <2>4, Buttons, PageOfMail
  <2>6. m \in OversizedMails => m \notin WithDmarc \cup WithTls \cup WithoutFiles
    BY Buttons
  <2>7. m \in WithErrors <=> ErrorsHandler(m).body > 0
    <3>1. ErrorsHandler(m).body = app.failures["xml"][m] + app.failures["json"][m]
      BY PageOfMail DEF HInv, AppInv, AppErrors
    <3>2. m \in WithErrors <=> app.failures["xml"][m] > 0 \/ app.failures["json"][m] > 0
      BY Buttons DEF Kind
    <3>3. app.failures["xml"][m] \in Nat /\ app.failures["json"][m] \in Nat
      BY <2>1 DEF Kind
    <3> QED
      BY <3>1, <3>2, <3>3
  <2>8. m \in WithDuplicates => ~SaysNoReports(m)
    BY Buttons, PageOfMail
  <2>9. pc = "published" =>
          (SaysNoReports(m) <=> \A p \in DOMAIN FilesOf(m) : FilesOf(m)[p].data \notin Valid)
    BY PageOfMail, NoReportsMeansNoneValid
  <2>10. LinkedMails(SenderLink(m)) = {n \in app.mails : Lower[Sender[n]] = Lower[Sender[m]]}
    <3> DEFINE query == Encode[Encode[Sender[m]]]
    <3>1. m \in Mail
      BY DEF HInv, AppInv, AppTypes, Watched
    <3>2. Decode[Decode[query]] = Sender[m]
      BY <3>1, EncodingAssumption
    <3> HIDE DEF query
    <3>3. MailList([sender |-> query])
            = {n \in app.mails : Lower[Sender[n]] = Lower[Decode[Decode[query]]]}
      BY DEF MailList
    <3> QED
      BY <3>2, <3>3 DEF LinkedMails, SenderLink, query
  <2> QED
    BY <2>3, <2>5, <2>6, <2>7, <2>8, <2>9, <2>10
<1> QED
  BY <1>1, HInvHolds, PTL

(* What is said of duplicates holds if the duplicate keys are not          *)
(* ambiguous: concatenating name and ID without a separator is the only    *)
(* reason why a report could be filtered because of another one.           *)
THEOREM DuplicatesAreTheSame ==
    ASSUME \A d, e \in Valid : DuplicateKey(d) = DuplicateKey(e)
                                 => Org[d] = Org[e] /\ ReportId[d] = ReportId[e]
    PROVE  HistorySpec => []OnlySameReportsAreDuplicates
<1>1. HInv => OnlySameReportsAreDuplicates
  <2> SUFFICES ASSUME HInv, NEW k \in Kind, NEW h \in Handled(k), files[k][h].data \in Valid
               PROVE  \E r \in DOMAIN reports[k] :
                        /\ Org[reports[k][r].data] = Org[files[k][h].data]
                        /\ ReportId[reports[k][r].data] = ReportId[files[k][h].data]
    BY DEF OnlySameReportsAreDuplicates
  <2>1. ReportsInv(k) /\ FilterInv(k) /\ h \in DOMAIN files[k]
    BY DEF HInv, LocalInv, KindInv, Handled
  <2>2. \E r \in DOMAIN reports[k] :
          DuplicateKey(reports[k][r].data) = DuplicateKey(files[k][h].data)
    <3>1. CASE setup.filter
      BY <2>1, <3>1 DEF FilterInv
    <3>2. CASE ~setup.filter
      <4>1. ReportHash(files[k][h]) \in DOMAIN reports[k]
        BY <2>1, <3>2 DEF ReportsInv
      <4>2. reports[k][ReportHash(files[k][h])] = files[k][h]
        BY <2>1, <4>1, ReportOfFile
      <4> QED
        BY <4>1, <4>2
    <3> QED
      BY <3>1, <3>2
  <2>3. \A r \in DOMAIN reports[k] : reports[k][r].data \in Valid
    BY <2>1 DEF ReportsInv
  <2> QED
    BY <2>2, <2>3
<1> QED
  BY <1>1, HInvHolds, PTL

(* The web hook is told how many reports are in a mail (web_hook.rs:97),   *)
(* unless some of them are duplicates.                                     *)
HookCountsMail(m) ==
    OfMail(reports["xml"], m)
      = Cardinality({h \in DOMAIN files["xml"] :
                       files["xml"][h].mail = m /\ files["xml"][h].data \in Valid})

(* Filtered reports are the only ones missing in the count: it is right    *)
(* for every mail that has no duplicates, whatever other mails have.       *)
THEOREM HookCountIsRightWithoutDuplicates ==
    HistorySpec => [](pc = "done" =>
        \A m \in mails : duplicates["xml"][m] = <<>> => HookCountsMail(m))
<1>1. HInv => (pc = "done" => \A m \in mails : duplicates["xml"][m] = <<>> => HookCountsMail(m))
  <2> SUFFICES ASSUME HInv, pc = "done", NEW m \in mails, duplicates["xml"][m] = <<>>
               PROVE  HookCountsMail(m)
    OBVIOUS
  <2> DEFINE k == "xml"
             valid == {h \in DOMAIN files[k] : files[k][h].mail = m /\ files[k][h].data \in Valid}
             shown == {r \in DOMAIN reports[k] : reports[k][r].mail = m}
             f == [h \in valid |-> ReportHash(files[k][h])]
  <2>1. /\ k \in Kind /\ Handled(k) = DOMAIN files[k]
        /\ FilesInv(k) /\ ReportsInv(k) /\ DuplicatesInv(k)
    BY DEF HInv, LocalInv, Phases, KindInv, Kind, Handled
  <2> HIDE DEF k
  <2>2. ASSUME NEW h \in valid
        PROVE  f[h] \in shown /\ reports[k][f[h]] = files[k][h]
    <3>1. h \in DOMAIN files[k] /\ files[k][h].mail = m /\ files[k][h].data \in Valid
      OBVIOUS
    <3>2. ReportHash(files[k][h]) \in DOMAIN reports[k]
      BY <2>1, <3>1 DEF DuplicatesInv, k
    <3>3. reports[k][ReportHash(files[k][h])] = files[k][h]
      BY <2>1, <3>1, <3>2, ReportOfFile
    <3> QED
      BY <3>1, <3>2, <3>3
  <2>3. ASSUME NEW g \in valid, NEW h \in valid, f[g] = f[h] PROVE g = h
    <3>1. files[k][g] = files[k][h]
      <4>1. reports[k][f[g]] = files[k][g] /\ reports[k][f[h]] = files[k][h]
        BY <2>2
      <4> HIDE DEF f
      <4> QED
        BY <2>3, <4>1
    <3>2. /\ g = FileHash(files[k][g].mail, files[k][g].data)
          /\ h = FileHash(files[k][h].mail, files[k][h].data)
      BY <2>1 DEF FilesInv
    <3> QED
      BY <3>1, <3>2
  <2>4. ASSUME NEW r \in shown PROVE \E h \in valid : f[h] = r
    <3>1. PICK h \in DOMAIN files[k] : files[k][h] = reports[k][r]
      BY <2>1 DEF ReportsInv
    <3>2. r = ReportHash(reports[k][r]) /\ reports[k][r].data \in Valid /\ reports[k][r].mail = m
      BY <2>1 DEF ReportsInv
    <3>3. h \in valid
      BY <3>1, <3>2
    <3>4. f[h] = ReportHash(files[k][h])
      BY <3>3
    <3> QED
      BY <3>1, <3>2, <3>3, <3>4
  <2>5. f \in [valid -> shown]
    BY <2>2
  <2>6. IsFiniteSet(valid)
    <3>1. IsFiniteSet(DOMAIN files[k]) /\ valid \subseteq DOMAIN files[k]
      BY <2>1 DEF FilesInv
    <3> HIDE DEF valid
    <3> QED
      BY <3>1, FS_Subset
  <2> HIDE DEF f, valid, shown
  <2>7. f \in Bijection(valid, shown)
    BY <2>3, <2>4, <2>5 DEF Bijection, Injection, IsInjective, Surjection
  <2>8. ExistsBijection(valid, shown)
    BY <2>7 DEF ExistsBijection
  <2>9. Cardinality(valid) = Cardinality(shown)
    BY <2>6, <2>8, FS_Bijection
  <2> QED
    BY <2>9 DEF HookCountsMail, OfMail, valid, shown, k
<1> QED
  BY <1>1, HInvHolds, PTL
=============================================================================
