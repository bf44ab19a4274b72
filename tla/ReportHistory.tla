--------------------------- MODULE ReportHistory ---------------------------
(***************************************************************************)
(* One update after the other: each works through its mails as             *)
(* ReportPipeline says, on local variables, and publishes them in AppState *)
(* under its lock (src/src/background.rs:282-301).  In between mails       *)
(* arrive and leave, and bodies come that did not come before.             *)
(*                                                                         *)
(* Whoever asks the web server sees AppState only: the handlers of mails   *)
(* and of single reports are operators of it, and so are the pages made of *)
(* their answers.                                                          *)
(***************************************************************************)
EXTENDS ReportPipeline, TLC

CONSTANTS
    MaxUpdates,     \* bound: updates
    MaxChanges,     \* bound: mails that change between two updates
    Sender, Date,   \* mail -> what the envelope says
    Lower,          \* sender -> sender in lower case
    Encode,         \* encodeURIComponent: text -> text with escapes
    Decode          \* text -> text without escapes; there may have been none

ASSUME HistoryAssumption == MaxUpdates \in Nat \ {0} /\ MaxChanges \in Nat

(* What was encoded is what it was after one decoding, also a sender that  *)
(* looks encoded itself; and what was encoded can be encoded again.        *)
ASSUME EncodingAssumption ==
    /\ \A text \in DOMAIN Encode : Decode[Encode[text]] = text
    /\ \A m \in Mail : Sender[m] \in DOMAIN Encode /\ Encode[Sender[m]] \in DOMAIN Encode

VARIABLES
    app,            \* AppState
    read,           \* history: the mails that the update in app has read
    updates         \* updates begun

appVars == <<app, read, updates>>
historyVars == <<vars, appVars>>

HistoryInit ==
    /\ Init
    /\ app = [mails |-> {}, files |-> [k \in Kind |-> 0], found |-> [k \in Kind |-> Empty],
              reports |-> [k \in Kind |-> Empty], duplicates |-> [k \in Kind |-> Empty],
              failures |-> [k \in Kind |-> Empty], errors |-> Empty]
    /\ read = {}
    /\ updates = 1

Work == Next /\ UNCHANGED appVars

(* Mutant: the reports published are added to those already there. *)
PublishAdds ==
    /\ pc = "done"
    /\ pc' = "published"
    /\ app' = [mails |-> mails, files |-> [k \in Kind |-> Cardinality(DOMAIN files[k])],
               found |-> found, reports |-> [k \in Kind |-> reports[k] @@ app.reports[k]],
               duplicates |-> duplicates, failures |-> failures, errors |-> errors]
    /\ read' = Read
    /\ UNCHANGED <<fixed, todo, files, found, pending, reports, firstOf, duplicates, failures,
                   errors, updates>>

(* All of it is replaced under the lock. *)
Publish ==
    /\ pc = "done"
    /\ pc' = "published"
    /\ app' = [mails |-> mails, files |-> [k \in Kind |-> Cardinality(DOMAIN files[k])],
               found |-> found, reports |-> reports, duplicates |-> duplicates,
               failures |-> failures, errors |-> errors]
    /\ read' = Read
    /\ UNCHANGED <<fixed, todo, files, found, pending, reports, firstOf, duplicates, failures,
                   errors, updates>>

(* The mails that are not in the same state in both downloads. *)
Changed(ms, gone) == (ms \ mails) \cup (mails \ ms) \cup (gone \ missing) \cup (missing \ gone)

(* The next download, for which bg_update() starts with empty variables. *)
NextUpdate ==
    /\ pc = "published"
    /\ updates < MaxUpdates
    /\ \E ms \in SUBSET Watched(setup) : \E gone \in SUBSET ms :
         /\ Yields(ms, gone)
         /\ Cardinality(Changed(ms, gone)) <= MaxChanges
         /\ mails' = ms
         /\ missing' = gone
         /\ todo' = ms
         /\ found' = [k \in Kind |-> [m \in ms |-> 0]]
         /\ duplicates' = [k \in Kind |-> [m \in ms |-> <<>>]]
         /\ failures' = [k \in Kind |-> [m \in ms |-> 0]]
         /\ errors' = [m \in ms |-> 0]
    /\ pc' = "extract"
    /\ files' = [k \in Kind |-> Empty]
    /\ pending' = [k \in Kind |-> {}]
    /\ reports' = [k \in Kind |-> Empty]
    /\ firstOf' = [k \in Kind |-> Empty]
    /\ updates' = updates + 1
    /\ UNCHANGED <<setup, digest, content, app, read>>

HistoryNext == Work \/ Publish \/ NextUpdate

HistorySpec == HistoryInit /\ [][HistoryNext]_historyVars

-----------------------------------------------------------------------------
(***************************************************************************)
(* The handlers.  A filter has a field for each parameter of the query.    *)
(***************************************************************************)
NotFound == [status |-> 404]
Answer(x) == [status |-> 200, body |-> x]

(* http/mails.rs:12-31.  A mail is sent with its counters and duplicates. *)
MailHandler(m) ==
    IF m \notin app.mails THEN NotFound
    ELSE Answer([mail |-> m,
                 duplicates |-> [k \in Kind |-> app.duplicates[k][m]],
                 failures |-> [k \in Kind |-> app.failures[k][m]]])

(* http/mails.rs:33-54.  The number of errors stands for their list. *)
ErrorsHandler(m) == IF m \notin app.mails THEN NotFound ELSE Answer(app.errors[m])

(* single_handler, json_handler and xml_handler of a kind of report. *)
ReportHandler(k, h) == IF h \in DOMAIN app.reports[k] THEN Answer(app.reports[k][h]) ELSE NotFound

(* list_handler of a kind of report, with the ID of a mail. *)
ReportsOf(k, m) == {h \in DOMAIN app.reports[k] : app.reports[k][h].mail = m}

(* Mutant: a mail without files of one kind counts as one without files. *)
HasAttachmentEither(m, attachment) ==
    CASE attachment = "dmarc" -> app.found["xml"][m] > 0
      [] attachment = "tls"   -> app.found["json"][m] > 0
      [] attachment = "none"  -> \E k \in Kind : app.found[k][m] = 0

HasAttachment(m, attachment) ==
    CASE attachment = "dmarc" -> app.found["xml"][m] > 0
      [] attachment = "tls"   -> app.found["json"][m] > 0
      [] attachment = "none"  -> \A k \in Kind : app.found[k][m] = 0

(* http/mails.rs:85-147.  The sender of a query is decoded by the extractor *)
(* of queries, and again by the handler, which then puts it in lower case  *)
(* (mails.rs:76-82).                                                       *)
MailList(filter) ==
    LET Asked(name) == name \in DOMAIN filter
    IN  {m \in app.mails :
          /\ Asked("sender") => Lower[Sender[m]] = Lower[Decode[Decode[filter.sender]]]
          /\ Asked("oversized") => (content[m] = Oversized) = filter.oversized
          /\ Asked("attachment") => HasAttachment(m, filter.attachment)
          /\ Asked("errors") => (\E k \in Kind : app.failures[k][m] > 0) = filter.errors
          /\ Asked("duplicates") =>
               (\E k \in Kind : app.duplicates[k][m] # <<>>) = filter.duplicates
          /\ Asked("begin") => Date[m] >= filter.begin
          /\ Asked("end") => Date[m] <= filter.end}

(* The totals that summary.rs and metrics.rs take from AppState. *)
Totals == [mails |-> Cardinality(app.mails), files |-> app.files,
           reports |-> [k \in Kind |-> Cardinality(DOMAIN app.reports[k])]]

-----------------------------------------------------------------------------
(***************************************************************************)
(* The web interface.                                                      *)
(***************************************************************************)
(* The page of a mail says "No reports found!" (mail.js:109-110). *)
SaysNoReports(m) ==
    /\ \A k \in Kind : ReportsOf(k, m) = {}
    /\ \A k \in Kind : MailHandler(m).body.duplicates[k] = <<>>

(* The buttons of the page of mails (mails.js:129-134). *)
OversizedMails  == MailList([oversized |-> TRUE])
WithDmarc       == MailList([attachment |-> "dmarc", oversized |-> FALSE])
WithTls         == MailList([attachment |-> "tls", oversized |-> FALSE])
WithoutFiles    == MailList([attachment |-> "none", oversized |-> FALSE])
WithDuplicates  == MailList([duplicates |-> TRUE])
WithErrors      == MailList([errors |-> TRUE])

(* The link of a sender encodes it (mail.js:98, mail-table.js:154).  The   *)
(* page takes the parameter from the location as it is (app.js:91-96) and  *)
(* encodes it again for its query (mails.js:68-70).                        *)
SenderLink(m) == Encode[Sender[m]]
LinkedMails(parameter) == MailList([sender |-> Encode[parameter]])

-----------------------------------------------------------------------------
(***************************************************************************)
(* Properties.                                                             *)
(***************************************************************************)
(* The local variables have their types, and so have those of AppState,    *)
(* which belong together: all are about the same mails.                    *)
HistoryTypeOK ==
    /\ pc # "published" => TypeOK
    /\ updates \in 1 .. MaxUpdates
    /\ read \subseteq app.mails /\ app.mails \subseteq Watched(setup)
    /\ \A k \in Kind :
         /\ app.files[k] \in Nat
         /\ app.found[k] \in [app.mails -> Nat]
         /\ app.failures[k] \in [app.mails -> Nat]
         /\ app.duplicates[k] \in [app.mails -> Seq(Data \X Mail)]
    /\ app.errors \in [app.mails -> Nat]

(* What the page of a mail counts: its reports, duplicates and errors. *)
FilesFrom(k, m) == Cardinality(ReportsOf(k, m)) + Len(app.duplicates[k][m]) + app.failures[k][m]

(* All that the pages of the mails count, each with its mail and number. *)
CountedFiles(k) == UNION {{m} \X (1 .. FilesFrom(k, m)) : m \in app.mails}

(* Nothing gets lost and nothing is counted twice: each file of a mail is  *)
(* one of its reports, one of its duplicates or one of its errors; the     *)
(* error list of a mail is as long as its counters say.  The totals of the *)
(* dashboard and the metrics are the sums of what the pages of mails show. *)
FilesAreAccountedFor ==
    /\ \A m \in app.mails :
         ErrorsHandler(m).body = app.failures["xml"][m] + app.failures["json"][m]
    /\ pc = "published" => \A k \in Kind, m \in app.mails :
         FilesFrom(k, m) = Cardinality({h \in DOMAIN files[k] : files[k][h].mail = m})
    /\ \A k \in Kind : /\ Totals.files[k] = Cardinality(CountedFiles(k))
                       /\ Totals.reports[k] <= Totals.files[k]

(* Every link of the pages leads somewhere: from a report to its mail      *)
(* ("Show Mail"), and from a mail to the report that made its own report a *)
(* duplicate, which is one with the same duplicate key as a file of it.    *)
LinksWork ==
    /\ \A k \in Kind : \A h \in DOMAIN app.reports[k] :
         MailHandler(app.reports[k][h].mail) # NotFound
    /\ \A k \in Kind, m \in app.mails : \A i \in DOMAIN app.duplicates[k][m] :
         LET link == app.duplicates[k][m][i]
         IN  /\ ReportHandler(k, link) # NotFound
             /\ pc = "published" => \E h \in DOMAIN files[k] :
                  /\ files[k][h].mail = m
                  /\ DuplicateKey(files[k][h].data) =
                      DuplicateKey(ReportHandler(k, link).body.data)

(* A page of a report, once shown, is found under its URL after the next   *)
(* update, too, as long as its mail is there and was read; only a mail     *)
(* that is newly read and has a file with the same duplicate key may take  *)
(* its place.  This rests on the order of the BTreeMap of files, which is  *)
(* the same in each update.                                                *)
Replaceable(k, data) == setup.filter /\ \E m \in Read \ read : \E p \in DOMAIN FilesOf(m) :
    LET f == FilesOf(m)[p]
    IN  f.kind = k /\ f.data \in Valid /\ DuplicateKey(f.data) = DuplicateKey(data)

Survives ==
    app' # app => \A k \in Kind : \A h \in DOMAIN app.reports[k] :
        LET report == app.reports[k][h]
        IN  report.mail \in Read /\ ~Replaceable(k, report.data) => h \in DOMAIN app.reports'[k]

LinksSurvive == [][Survives]_historyVars

(* The pages agree on a mail.  It is behind one of the buttons for what it *)
(* has, and it is behind "Without Files" or "Oversized Mails" only if its  *)
(* page then shows neither reports nor errors.  The page says "No reports  *)
(* found!" just when no file of the mail could be parsed, however many of  *)
(* its reports were filtered as duplicates.  "Parsing Errors" and "With    *)
(* Duplicates" lead to pages that have some.  The link of a sender lists   *)
(* the mails of this sender, in whatever case, and no others, although the *)
(* sender is encoded and decoded by two parts of the program each: one     *)
(* more or less of these, and a sender that looks encoded is another one.  *)
MailPagesAgree == \A m \in app.mails :
    /\ m \in OversizedMails \cup WithDmarc \cup WithTls \cup WithoutFiles
    /\ m \in OversizedMails \cup WithoutFiles => SaysNoReports(m) /\ m \notin WithErrors
    /\ m \in OversizedMails => m \notin WithDmarc \cup WithTls \cup WithoutFiles
    /\ m \in WithErrors <=> ErrorsHandler(m).body > 0
    /\ m \in WithDuplicates => ~SaysNoReports(m)
    /\ pc = "published" =>
        (SaysNoReports(m) <=> \A p \in DOMAIN FilesOf(m) : FilesOf(m)[p].data \notin Valid)
    /\ LinkedMails(SenderLink(m)) = {n \in app.mails : Lower[Sender[n]] = Lower[Sender[m]]}
=============================================================================
