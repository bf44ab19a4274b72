--------------------------- MODULE ReportPipeline ---------------------------
(***************************************************************************)
(* What one update does with the mails it has downloaded                   *)
(* (src/src/background.rs:109-280): it extracts the report files of each   *)
(* mail (src/src/unpack.rs), parses the XML files as DMARC reports and     *)
(* then the JSON files as SMTP TLS reports, and filters duplicates.  It    *)
(* works on local variables only; UpdateCycle models their publication.    *)
(*                                                                         *)
(* Maps that the code keys by a SHA-256 hash are keyed here by what is     *)
(* hashed.  The loops run in the order of the hashes, which is arbitrary.  *)
(***************************************************************************)
EXTENDS Naturals, FiniteSets, Sequences

CONSTANTS
    Setups,       \* configurations, [dmarc, tls, filter]: --imap-folder-dmarc and
                  \* --imap-folder-tls, or NoFolder, and not --disable-duplicate-filter
    NoFolder,
    Inbox,        \* --imap-folder
    Mail,         \* the mails there may be, [folder, uid]
    MaxMissing,   \* bound: mails whose body the server does not send
    Contents,     \* what a mail may contain: sequences of parts, or Oversized
    Oversized,    \* a mail too large to be downloaded
    Data,         \* contents of files
    Valid,        \* data that parse
    Org, ReportId,\* data -> name of the organization and report ID, as sequences
    Digests       \* what SHA-256 may be: injective functions of file hashes to numbers

Kind == {"xml", "json"}

(* A part of a mail is [form, ok, files]: form is "zip" for an archive of  *)
(* files of both kinds, or the kind of the single file of the part, plain  *)
(* or compressed with gzip; ok says that it can be decompressed.           *)
ReportFile == [kind : Kind, data : Data]
Part == [form : Kind \cup {"zip"}, ok : BOOLEAN, files : Seq(ReportFile)]

ASSUME PipelineAssumption ==
    /\ \A s \in Setups : s.filter \in BOOLEAN
    /\ \A m, n \in Mail : m.folder = n.folder /\ m.uid = n.uid => m = n
    /\ \A c \in Contents : c = Oversized \/ c \in Seq(Part)
    /\ Valid \subseteq Data
    /\ MaxMissing \in Nat
    /\ \A d \in Digests : \A g, h \in Data \X {m.uid : m \in Mail} :
         d[g] \in Nat /\ (d[g] = d[h] => g = h)

VARIABLES
    setup,        \* the configuration
    digest,       \* the order of the BTreeMaps, the same in each update
    content,      \* watched mail -> parts, or Oversized
    mails,        \* the downloaded mails
    missing,      \* those of them that came without a body
    pc,           \* "extract", "xml", "json", "done"
    todo,         \* mails not yet extracted
    files,        \* kind -> file hash -> [mail, data]: xml_files, json_files
    found,        \* kind -> mail -> xml_files, json_files of the mail
    pending,      \* kind -> hashes of the files not yet parsed
    reports,      \* kind -> report hash -> [mail, data]: dmarc_reports, tls_reports
    firstOf,      \* kind -> duplicate key -> report hash: the duplication map
    duplicates,   \* kind -> mail -> report hashes: dmarc_duplicates, tls_duplicates
    failures,     \* kind -> mail -> xml_parsing_errors, json_parsing_errors
    errors        \* mail -> number of its parsing_errors

fixed == <<setup, digest, content, mails, missing>>
vars == <<fixed, pc, todo, files, found, pending, reports, firstOf, duplicates, failures, errors>>

Empty == [x \in {} |-> x]

(* The mails of the folders that are read: the specific ones, if any. *)
Watched(s) ==
    {m \in Mail : m.folder \in IF s.dmarc = NoFolder /\ s.tls = NoFolder
                               THEN {Inbox} ELSE {s.dmarc, s.tls}}

(* What a download may yield: ms are listed, gone of them come without a body. *)
Yields(ms, gone) ==
    /\ gone \subseteq {m \in ms : content[m] # Oversized}
    /\ Cardinality(gone) <= MaxMissing

Init ==
    /\ setup \in Setups
    /\ digest \in Digests
    /\ content \in [Watched(setup) -> Contents]
    /\ mails \in SUBSET Watched(setup)
    /\ missing \in SUBSET mails
    /\ Yields(mails, missing)
    /\ pc = "extract"
    /\ todo = mails
    /\ files = [k \in Kind |-> Empty]
    /\ found = [k \in Kind |-> [m \in mails |-> 0]]
    /\ pending = [k \in Kind |-> {}]
    /\ reports = [k \in Kind |-> Empty]
    /\ firstOf = [k \in Kind |-> Empty]
    /\ duplicates = [k \in Kind |-> [m \in mails |-> <<>>]]
    /\ failures = [k \in Kind |-> [m \in mails |-> 0]]
    /\ errors = [m \in mails |-> 0]

-----------------------------------------------------------------------------
(***************************************************************************)
(* Extraction (unpack.rs:115-244).                                         *)
(***************************************************************************)
(* Mutant: every mail may hold files of both kinds. *)
ExpectsAll(m, kind) == TRUE

(* The kinds of files a mail is searched for: its folder decides, if there *)
(* are specific folders.                                                   *)
Expects(m, kind) ==
    \/ setup.dmarc = NoFolder /\ setup.tls = NoFolder
    \/ kind = "xml" /\ m.folder = setup.dmarc
    \/ kind = "json" /\ m.folder = setup.tls

(* An archive is opened in any case, another part only if it is expected. *)
Opened(m, part) == part.form = "zip" \/ Expects(m, part.form)

(* One part that cannot be opened makes the extraction of the mail fail. *)
Broken(m) == \E i \in DOMAIN content[m] : Opened(m, content[m][i]) /\ ~content[m][i].ok

(* The mails with a body. *)
Read == {m \in mails \ missing : content[m] # Oversized}

(* Where a mail has files: which part, and which file in it. *)
Places(m) == UNION {{i} \X DOMAIN content[m][i].files : i \in DOMAIN content[m]}
FileAt(m, p) == content[m][p[1]].files[p[2]]

Taken(m) == {p \in Places(m) : Opened(m, content[m][p[1]]) /\ Expects(m, FileAt(m, p).kind)}

FilesOf(m) == IF m \in Read /\ ~Broken(m) THEN [p \in Taken(m) |-> FileAt(m, p)] ELSE Empty

(* The hash of a file covers its data and the UID of the mail. *)
FileHash(m, data) == <<data, m.uid>>

OfKind(m, k) == {p \in DOMAIN FilesOf(m) : FilesOf(m)[p].kind = k}
HashesOf(m, k) == {FileHash(m, FilesOf(m)[p].data) : p \in OfKind(m, k)}

(* background.rs:112-140.  The files go into the map of their kind, where  *)
(* a file with the same hash is replaced; the mail counts all of them.     *)
(* When the extraction fails nothing of the mail is kept.                  *)
Extract ==
    /\ pc = "extract"
    /\ \E m \in todo :
        /\ todo' = todo \ {m}
        /\ files' = [k \in Kind |->
             [h \in DOMAIN files[k] \cup HashesOf(m, k) |->
                IF h \in HashesOf(m, k) THEN [mail |-> m, data |-> h[1]] ELSE files[k][h]]]
        /\ found' = [k \in Kind |-> [found[k] EXCEPT ![m] = @ + Cardinality(OfKind(m, k))]]
    /\ UNCHANGED <<fixed, pc, pending, reports, firstOf, duplicates, failures, errors>>

AllExtracted ==
    /\ pc = "extract"
    /\ todo = {}
    /\ pc' = "xml"
    /\ pending' = [k \in Kind |-> DOMAIN files[k]]
    /\ UNCHANGED <<fixed, todo, files, found, reports, firstOf, duplicates, failures, errors>>

-----------------------------------------------------------------------------
(***************************************************************************)
(* Parsing: the XML files (background.rs:152-211), then the JSON files     *)
(* (213-267), by two loops that do the same.                               *)
(***************************************************************************)
(* format!("{}{}", org_name, report_id) *)
DuplicateKey(data) == Org[data] \o ReportId[data]

(* The hash of a report covers its data and the ID of the mail. *)
ReportHash(file) == <<file.data, file.mail>>

Put(f, key, value) == [x \in DOMAIN f \cup {key} |-> IF x = key THEN value ELSE f[x]]

(* Mutant: the files are in a HashMap, whose order differs each time. *)
NextFileAny(k, h) ==
    /\ pc = k
    /\ h \in pending[k]
    /\ pending' = [pending EXCEPT ![k] = @ \ {h}]

(* Takes the next file out of the loop over the files of kind k. *)
NextFile(k, h) ==
    /\ pc = k
    /\ h \in pending[k]
    /\ \A g \in pending[k] : digest[h] <= digest[g]
    /\ pending' = [pending EXCEPT ![k] = @ \ {h}]

FailToParse(k, h) ==
    LET file == files[k][h]
    IN  /\ NextFile(k, h)
        /\ file.data \notin Valid
        /\ errors' = [errors EXCEPT ![file.mail] = @ + 1]
        /\ failures' = [failures EXCEPT ![k][file.mail] = @ + 1]
        /\ UNCHANGED <<fixed, pc, todo, files, found, reports, firstOf, duplicates>>

IsDuplicate(k, file) == setup.filter /\ DuplicateKey(file.data) \in DOMAIN firstOf[k]

(* Mutant: a duplicate leaves no trace in its mail. *)
SkipDuplicateForgotten(k, h) ==
    LET file == files[k][h]
    IN  /\ NextFile(k, h)
        /\ file.data \in Valid
        /\ IsDuplicate(k, file)
        /\ UNCHANGED <<fixed, pc, todo, files, found, reports, firstOf, duplicates, failures, errors>>

(* The mail of a duplicate remembers the report that was kept. *)
SkipDuplicate(k, h) ==
    LET file == files[k][h]
        kept == firstOf[k][DuplicateKey(file.data)]
    IN  /\ NextFile(k, h)
        /\ file.data \in Valid
        /\ IsDuplicate(k, file)
        /\ duplicates' = [duplicates EXCEPT ![k][file.mail] = Append(@, kept)]
        /\ UNCHANGED <<fixed, pc, todo, files, found, reports, firstOf, failures, errors>>

(* Mutant: a file that does not parse is kept, too. *)
KeepReportUnparsed(k, h) ==
    LET file == files[k][h]
    IN  /\ NextFile(k, h)
        /\ ~IsDuplicate(k, file)
        /\ reports' = [reports EXCEPT ![k] = Put(@, ReportHash(file), file)]
        /\ UNCHANGED <<fixed, pc, todo, files, found, firstOf, duplicates, failures, errors>>

(* Mutant: with the filter a report only gets into the duplication map. *)
KeepReportUnlessFiltered(k, h) ==
    LET file == files[k][h]
    IN  /\ NextFile(k, h)
        /\ file.data \in Valid
        /\ ~IsDuplicate(k, file)
        /\ IF setup.filter
           THEN /\ firstOf' = [firstOf EXCEPT ![k] =
                                  Put(@, DuplicateKey(file.data), ReportHash(file))]
                /\ UNCHANGED reports
           ELSE /\ reports' = [reports EXCEPT ![k] = Put(@, ReportHash(file), file)]
                /\ UNCHANGED firstOf
        /\ UNCHANGED <<fixed, pc, todo, files, found, duplicates, failures, errors>>

KeepReport(k, h) ==
    LET file == files[k][h]
    IN  /\ NextFile(k, h)
        /\ file.data \in Valid
        /\ ~IsDuplicate(k, file)
        /\ reports' = [reports EXCEPT ![k] = Put(@, ReportHash(file), file)]
        /\ firstOf' = IF setup.filter
             THEN [firstOf EXCEPT ![k] = Put(@, DuplicateKey(file.data), ReportHash(file))]
             ELSE firstOf
        /\ UNCHANGED <<fixed, pc, todo, files, found, duplicates, failures, errors>>

EndLoop ==
    /\ pc \in Kind
    /\ pending[pc] = {}
    /\ pc' = IF pc = "xml" THEN "json" ELSE "done"
    /\ UNCHANGED <<fixed, todo, files, found, pending, reports, firstOf, duplicates, failures,
                   errors>>

Parse(k) == \E h \in DOMAIN files[k] : FailToParse(k, h) \/ SkipDuplicate(k, h) \/ KeepReport(k, h)

Next == Extract \/ AllExtracted \/ EndLoop \/ \E k \in Kind : Parse(k)

Spec == Init /\ [][Next]_vars

-----------------------------------------------------------------------------
(***************************************************************************)
(* Properties.                                                             *)
(***************************************************************************)
(* The files that were parsed already. *)
Handled(k) == IF pc = "extract" THEN {} ELSE DOMAIN files[k] \ pending[k]

(* Every variable that counts or maps something maps what it should. *)
TypeOK ==
    /\ setup \in Setups /\ digest \in Digests
    /\ mails \subseteq Watched(setup) /\ missing \subseteq mails
    /\ pc \in Kind \cup {"extract", "done"}
    /\ todo \subseteq mails
    /\ DOMAIN files = Kind /\ DOMAIN reports = Kind /\ DOMAIN firstOf = Kind
    /\ \A k \in Kind :
         /\ \A h \in DOMAIN files[k] : files[k][h] \in [mail : mails, data : Data]
         /\ \A h \in DOMAIN reports[k] : reports[k][h] \in [mail : mails, data : Valid]
    /\ found \in [Kind -> [mails -> Nat]]
    /\ pending \in [Kind -> SUBSET UNION {DOMAIN files[k] : k \in Kind}]
    /\ duplicates \in [Kind -> [mails -> Seq(Data \X mails)]]
    /\ failures \in [Kind -> [mails -> Nat]]
    /\ errors \in [mails -> Nat]

(* Filtering loses no report for good: whatever was parsed is still shown, *)
(* or another one with its duplicate key is, which no third one shares.    *)
(* Without the filter every parsed file of a mail is shown as a report of  *)
(* that mail.                                                              *)
EveryKeyIsShownOnce ==
    \A k \in Kind : \A h \in Handled(k) : files[k][h].data \in Valid =>
        LET SameKey == {r \in DOMAIN reports[k] :
                         DuplicateKey(reports[k][r].data) = DuplicateKey(files[k][h].data)}
        IN  IF setup.filter THEN Cardinality(SameKey) = 1
            ELSE files[k][h] \in {reports[k][r] : r \in SameKey}

(* Files of different mails never replace each other in the map of files,  *)
(* although their hash does not cover the folder: UIDs repeat only across  *)
(* folders, and those hold files of different kinds (unpack.rs:28-29).     *)
NoFileIsReplaced ==
    pc # "extract" => \A m \in mails : \A p \in DOMAIN FilesOf(m) :
        LET f == FilesOf(m)[p]
        IN  \E h \in DOMAIN files[f.kind] : files[f.kind][h] = [mail |-> m, data |-> f.data]

-----------------------------------------------------------------------------
(***************************************************************************)
(* What is said about the program and does not hold.                       *)
(***************************************************************************)
(* "Duplicates are detected if the orgnaization name and report ID are the *)
(* same." (CHANGELOG.md:23): reports that differ in one are all shown.     *)
OnlySameReportsAreDuplicates ==
    \A k \in Kind : \A h \in Handled(k) : files[k][h].data \in Valid =>
        \E r \in DOMAIN reports[k] :
            /\ Org[reports[k][r].data] = Org[files[k][h].data]
            /\ ReportId[reports[k][r].data] = ReportId[files[k][h].data]

OfMail(f, m) == Cardinality({x \in DOMAIN f : f[x].mail = m})

(* "`[dmarc_reports]` Number of DMARC reports in the mail" (config.rs:184) *)
(* is what web_hook.rs:97-101 counts.                                      *)
HookCountsReportsInMail ==
    pc = "done" => \A m \in mails :
        OfMail(reports["xml"], m)
          = Cardinality({h \in DOMAIN files["xml"] :
                           files["xml"][h].mail = m /\ files["xml"][h].data \in Valid})
=============================================================================
