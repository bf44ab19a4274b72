# A TLA+ model of the DMARC report viewer

The program polls an IMAP account, extracts DMARC (XML) and SMTP TLS (JSON)
reports from the mails, keeps everything in memory, and serves it over HTTP. It
has no database: after a restart it starts from nothing. This directory holds
TLA+ modules for the parts of it that have state, TLC configurations that check
them on small instances, and TLAPS proofs of the most important properties for
all instances. Paths below are relative to `src/src/`, those
of the web interface to `src/`.

## Inventory

| part | state | operations | what makes it correct |
|---|---|---|---|
| background task, `background.rs` | local variables of one update; where it is in its loop | update, publish, call the web hook, plan the next update, stop | a failed update changes nothing; a good one loses no mail and resurrects none; each new mail is announced once; no failure ends the task |
| IMAP download, `imap.rs` | connection, encryption, mails of a folder | connect, log in, list, fetch chunks of bodies, log out | consistent in spite of mails that come and go meanwhile, servers that give no size or no body, a zero chunk size; never logs in unencrypted unasked |
| shared state, `state.rs` | mails, reports, errors, counters, `first_update`, `next_update`, two caches | replaced under one lock | a reader never sees half an update; links between mails and reports work |
| web hook, `web_hook.rs` | none | look up the mail in the state, send one request | the mail is still there; the numbers sent are right |
| start and shutdown, `main.rs`, `http.rs` | stop channel, handle of the task | signal, stop, join | the process ends, cleanly |
| extraction, `unpack.rs` | none | open the parts of a mail, hash their files | files of two mails do not collide |
| parsing and duplicates, `background.rs:143-267` | maps of reports, duplication maps, counters | parse, filter, link, count | each file is accounted for; a duplicate leads to the report that was kept |
| cache, `cache_map.rs` | map of stamped entries, counter | get, insert with pruning | bounded; the oldest entry goes first |
| DNS client and its cache, `dns_client.rs`, `dns_client_cached.rs` | next message ID, cache | query, match the answer, time out, store | a name is only given for the IP it belongs to |
| DNS handlers, `http/ips.rs` | one task per IP | spawn, join in order | the whole batch is answered, in order |
| location, whois, `http/ips.rs`, `geolocate.rs`, `http_client.rs`, `whois.rs` | location cache | one request or a chain of referrals | a chain ends, at its last server; the cache holds the answer for its key; a silent server holds up nobody else |
| login, `http.rs` | none | compare the credentials of each request | exactly the configured user and password open all routes but `/health` |
| queries, `http/{mails,dmarc_reports,tls_reports,sources,summary,metrics}.rs` | none | filter and aggregate under one lock | lists and summaries agree; links lead somewhere, also after the next update |
| parsers, `dmarc.rs`, `tls.rs`, subjects, `mail.rs` | none | deserialize, decode | total |
| page of sources, `ui/components/sources.js` | the filter, the list shown, calls that wait for answers | load, filter, ask for names in chunks | the list obeys the filter; a name stands at its own IP |
| page of mails and page of a mail, `ui/components/{mails,mail}.js` | none of their own | buttons with filters, four requests for one mail | they say what is true of the mail |
| other pages, configuration, static files, health check, ACME | none here | | |

How they interact: the background task is the only writer of mails and reports;
it holds the lock of the state only to publish an update, to read the details of
a mail for the web hook, and to note the time of the next update. HTTP handlers
run concurrently and hold the lock while they read; lookups of IPs release it
while they wait for the network. Pages in the browser fetch lists and names from the
handlers with asynchronous calls, several of which may wait at once. `main` talks to the background task over a
channel of capacity one.

What is hard here: the mailbox changes while it is downloaded in several steps;
an update can fail at any of them; "new" is defined by the difference between
two updates and nothing else remembers mails; the stop signal is only looked for
between two updates; the order of the parse loops is that of SHA-256 hashes; UDP
answers come late or twice; two lookups of one IP race; servers fall silent in the
middle of a conversation, or refer to each other in circles; pages link to what
the next update replaces; several handlers and pages repeat the same conditions; two calls of a page work on one list. `PROJECT.json` lists
these hazards by line, with the properties that cover each one.

## Modules

* **`MailWatch`** is the abstract specification of the background task: a set of
  shown mails, refreshed at once; what is still in the mailbox stays, what
  disappeared never returns, the first refresh is the baseline, each mail added
  later is announced exactly once before the next refresh.
* **`UpdateCycle`** is the code: `start_bg_task`, `bg_update`, `get_mails`, the
  published part of `AppState`, the web hook calls, `main`. Actions map to code
  as follows: `ListFolder` (connect to listing), `ListingPanics` (a subject the
  decoder panics on), `FetchChunk` (one `uid_fetch`), `FolderDone` (logout, and
  `mails.extend`), `FetchFails` (any `?` in `get_mails`), `Publish` (the locked
  block at the end of `bg_update`), `StartHook`/`HookReturns` (one web hook
  call), `Schedule` (`next_update`), `StartUpdate`/`Stop` (the two branches of
  `select!`), `Signalled`/`ServerFails`/`SendStop`/`JoinBackground` (`main`). The
  IMAP server is the environment: `Deliver`, `Expunge`, `GoUpOrDown`. The last
  five variables are history variables that only properties read.
* **`ImapSession`** is the download command by command, on top of `UpdateCycle`: what
  that takes as one step (`ListFolder`: connection, encryption, login, selection,
  listing; `FetchChunk`: request and all answers) is a conversation here, in which
  each command waits for its answer (`step`), mails come and go between any two, and
  the server goes down or falls silent (`silent`). It implements `UpdateCycle`, with
  the same variables as the mapping: `ListFolder` happens at `List` (`Select` when the
  folder is empty), `FetchChunk` at `EndChunk`, `FolderDone` at `LoggedOut`. This is
  why `ListFolder` may miss mails that came after the selection (`Listings`).
* **`ReportPipeline`** is what one update does with downloaded mails: extraction
  (`Extract`), then a loop over XML and one over JSON files (`FailToParse`,
  `SkipDuplicate`, `KeepReport`, `EndLoop`). Maps keyed by a SHA-256 hash are
  keyed by what is hashed, so hashes do not collide; `digest` is the order of the
  hashes, which may be any but is the same in each update. It works on local
  variables of the task, so nothing interferes.
* **`ReportHistory`** has one update after the other: `Work` is a step of
  `ReportPipeline`, `Publish` the locked block at the end of `bg_update`, `NextUpdate`
  a later download, for which some mail came, left, or got its body. The
  handlers of mails and single reports are operators of `app`, the published state,
  and so are the pages made of their answers.
* **`CacheMap`** is `cache_map.rs`; **`BoundedFifo`** its abstract specification,
  a queue of distinct keys; **`CacheMapFifo`** maps one to the other: the queue has the
  entries by stamp.
* **`IpRequests`** has the requests for locations and whois entries, which run
  concurrently on the cache of locations (it extends `CacheMap`, whose keys are the
  IPs), behind the login of `http.rs` (`Arrive`). A location request looks into the
  cache, asks the service without a timeout, and stores; a whois request follows
  referrals (`SendQuery`, `ReceiveText`) until none is left or `max_follows` is
  reached, or fails.
* **`DnsLookup`** composes the batch handler, single requests beside it, the cache
  (an instance of `CacheMap`) and the UDP client. `asked` holds the queries that
  reached the server; any of them may be answered at any time, any number of times,
  in three ways, to whichever task has its port now.
* **`ReportQueries`** is what the HTTP handlers answer. Each handler reads the state
  once under its lock, so its answer is an operator over the published reports
  `dmarc` and `tls`: `DmarcList` and `TlsList` (the lists with all filters),
  `Summary` (the dashboard), `Sources`, `DmarcPerDomain` and `TlsPerDomain` (the
  metrics). A report is known by its place in the order of the hashes, which is the
  order in which handlers walk through the maps. The only action is `Publish`.
* **`SourcesPage`** is the page of sources in the browser, on top of `ReportQueries`:
  `Visit` (a link is followed, `app.js`, and `updated()` calls `updateSources()`),
  `ServerAnswers` (the handler, at its own time), `ShowSources` (until the first
  request for names), `ShowNames` (one round of the loop), `RequestFails`. A call
  runs from one `await` to the next without interruption; between them other
  calls run, and the server publishes (`Update`).
* **`UpdateCycle_proofs`**, **`ImapSession_proofs`**, **`ReportHistory_proofs`**,
  **`CacheMap_proofs`**, **`IpRequests_proofs`**, **`DnsLookup_proofs`** and
  **`ReportQueries_proofs`** (also for `SourcesPage`) hold theorems and proofs,
  **`Counting`** lemmas about finite sets that several of them need.
* **`MCUpdateCycle`**, **`MCImapSession`**, **`MCReportPipeline`**, **`MCReportHistory`**,
  **`MCIpRequests`**, **`MCDnsLookup`**, **`MCReportQueries`**, **`MCSourcesPage`** give
  values to constants.

Operators commented "Mutant" are not part of the specification: each is what a
plausible mistake would make of the definition after it, and is used to see that
a property would notice.

## What the runs check

| run | question | size |
|---|---|---|
| `two_folders` | safety of the update cycle, also when a subject ends the task, and that it implements `MailWatch` | 1.3 million states |
| `live` | progress of updates, hooks and shutdown, also with a mail or a chunk size that makes updates fail | 138 thousand |
| `imap_session` | the conversation with the IMAP server implements the steps of `UpdateCycle`, and is encrypted | 319 thousand |
| `history` | two updates: files, duplicates, links, pages | 0.9 million |
| `ip_requests` | login, locations, whois, and that the cache is a queue | 260 thousand |
| `dns` | names match IPs, all lookups are answered | 30 thousand |
| `queries` | lists, dashboard, sources and metrics agree | 128 |
| `sources_page` | filter and names of the page of sources | 25 thousand |
| `subject_panics`, `same_reports`, `hook_count`, `names_mixup` | findings, below | |

**Bounds.** `MaxUid` bounds the mails that ever reach a folder; with two folders
the constraint `UpToThreeMails` bounds them together. Two mails in one folder
and one in the other are enough for a chunk boundary inside a folder, a UID that
occurs in both folders, and a mail that arrives or leaves at each point of an
update; and one mail of each kind of oversize (stated by the server, or found
with the body). The number of updates, failures and hook calls is not bounded.
The proofs remove the bounds on mails. `live` has two mails over two folders, of which
one may have no metadata (`Malformed`): while it is there every update fails. The chunk
size is one or zero there and in `imap_session` (`ChunkSizes`); with zero, each update
that has a body to ask for fails (`imap.rs:96-99`).
`imap_session` has two mails over two folders, which may be good, oversized, without
metadata or with a subject the decoder panics on, and each of the
three ways to connect; nobody stops the viewer in it. In `history` up to three mails of one folder, or one of each
specific folder with the same UID, draw their
contents from six sequences of parts: too large, single files, an archive with both
kinds, equal attachments, a corrupt part, and four data files of which two have
the same organization and ID and one has the same concatenation of both; at most one
body is missing (`MaxMissing`), one mail changes between the two updates (`MaxUpdates`,
`MaxChanges`), and the hashes have one of two orders, by UID or across mails. Links are
compared from one update to the next, so two updates are enough, and a report, a
duplicate of it and a newcomer make three mails.
`ip_requests` has two location requests for one IP, one for another, with room for
both in the cache (so that a replacement meets a full one), a whois request with
two servers, all kinds of referrals and two follows, and a health check; accounts
have a plain password, one with a colon, or none. The
DNS model has three lookups, of which two ask for the same IP, on two ports, so
that a port is used again and one lookup may find none, and three message IDs,
so that the ID wraps around; a name server that answers everything it was ever
asked, again and again; and a batch that is too long. The queries are checked for all
128 sets of up to four
DMARC and three TLS reports (`MCReportQueries`), chosen so that policies and checks
pass, fail and are missing, periods meet at their ends, a domain is spelled in two
ways, a report has several domains, and one IP is in reports of both kinds. A second
has two instants there and an hour four (`Second`, `Hour`); a request reads the clock
twice, at instants that are equal or not and in the same second or not (`Clock`), TLS
reports end at the beginning and in the middle of seconds, and spans are all numbers
below `Wrap`, some too long to be subtracted (`MaxHours`), some negative as `i64`, some
reaching back before 1970. Senders of mails in `history` are spelled in two ways, or look
as if they were encoded. The
page has three sources, chunks of two, four links and two visits (`MaxVisits`),
which is what it takes for two chunks and an overlap.

**Fairness** (`FairSpec` of `UpdateCycle`): the background task and `main` take
their next step when they can, because tokio polls tasks that are ready. `Stop` is
strongly fair, because `select!` polls its branches in random order: a task that
pauses again and again with the signal in the channel takes it in the end. That
an IMAP or web hook request ends at all is an assumption of `UpdateCycle`: the code
has a timeout only for the TCP connect, so a server that goes silent afterwards
blocks updates and shutdown. `ImapSession` makes this precise: there a step waits for
an answer, only those that need none are fair, and `UpdateCycle`'s fairness is
implemented under the condition that the server is not silent for ever. Nothing else
is assumed of the server: it may go down and up for
ever, and the properties that need it up, or a chunk size other than zero, say so
(`Undisturbed`). In
`DnsLookup` every lookup takes its next step because the timer of `recv` fires, and in
`IpRequests` because the timers of whois do; the location service need never answer. In
`SourcesPage` every call goes on: a request is answered or fails, and the browser
runs what can go on; users need not do anything.

**Properties.** `UpdateIsComplete` and `UpdateIsCurrent` say what an
update publishes relative to what was in the folders before and during it;
`HookAtMostOnce`, `HookFindsMail` and
`EventuallyAnnounced` are about the web hook; `StopIsHeard`, `ShutdownCompletes`
and `UpdatesGoOn` (updates begin and pauses are reached for ever) about the loop and its end; `EventuallyShown` and
`EventuallyGone` about the viewer catching up with the mailbox.
`ImplementsUpdateCycle` carries all of them over to the conversation with the
server; `LoginIsEncrypted` says that no failure of STARTTLS falls back to plain text.
Of the history, `NoFileIsReplaced` justifies the file hash, which lacks the folder;
`FilesAreAccountedFor` is conservation (reports, duplicates and errors of a mail
add up to its files; a total of the dashboard or the metrics is the number of pairs of a
mail and a number up to what its page shows, which says "sum" without a recursion);
`EveryKeyIsShownOnce` describes the filter in any order of the hashes; `LinksWork`
says that published links resolve, `LinksSurvive` when the URL of a report
may disappear with an update: only if its mail left or lost its body, or a newly read
mail holds the same report; it rests on the loops going through sorted maps.
`MailPagesAgree` compares the buttons, which filter by counters, with the page of a
mail, which is put together from reports, duplicates and errors, and says that the link
of a sender, which is encoded by two pages and decoded twice by the server, leads to
the mails of this sender. `LoginIsExact`,
`LocationsMatchIps` and `WhoisIsFinal` say what answers are worth;
`RequestsAreAnswered` that only a silent location service holds up a request.
Of the queries,
each property compares two pieces of code that must agree without sharing a line:
charts with the lists they link to (`ChartsLeadToReports`), results with flags
(`ChartsAgreeWithFlags`), issues with flags (`FlaggedReportsHaveSources`), links
with lists (`BadgesLeadToReports`), the dashboard's time spans with ranges of the
list, and the thresholds for DMARC and for TLS reports with each other (`TimeSpansAgree`:
they are made in two ways, one cut to seconds, from two readings of the clock, and agree
up to just that), the metrics with the dashboard (`MetricsAgree`, which adds up in the
same way).
`PageObeysFilter` holds for overlapping visits, because the filter is read late;
`UndisturbedNamesAreRight` only without overlap, see below; `NamesArrive` always.

## Findings

* `subject_panics`: `q_decode` (`mail.rs:74`) slices a `&str` by one byte and
  panics on a character of several bytes. One mail with a raw non-ASCII
  character in a Q-encoded subject word ends the background task; the web server
  goes on with old data, and `main` panics at shutdown (`main.rs:90`).
* `same_reports`: the duplicate key `format!("{}{}", org_name, report_id)`
  (`background.rs:158`) is ambiguous; reports that differ in both can be taken for
  duplicates, other than `CHANGELOG.md:23` says.
* `hook_count`: a mail whose report was filtered is announced with a count of
  zero, other than `config.rs:184` says.
* `names_mixup`: while the page of sources waits for names, a visit with another
  filter replaces the list, and the names are stored into it by position
  (`sources.js:95`): a source shows the host name of another IP, other than
  `CHANGELOG.md:65` says. A later answer of the newer visit may repair it.

Two smaller disagreements are in the models, but no run shows them; theorems say how
far they go. The threshold for DMARC reports is a timestamp `as u64` (`summary.rs:203`):
with a time span that reaches back before 1970 it is a huge number, and the dashboard
counts no DMARC report, though all TLS reports, where `summary.rs:16-17` excludes only
what is older (`SpansSince1970AreComplete`: not so after 1970). And a full cache makes room
before it looks whether the key is there already (`cache_map.rs:39`): the second of two
requests for one IP that both missed the cache drops the location of another IP and
adds none, where `cache_map.rs:9-10` speaks of new entries (`OnlyTheOldestGoes`: it drops
the oldest one).

## What is proved

`UpdateCycle_proofs` proves, for every configuration, chunk size, set of
oversized or undecodable mails and number of mails (`ConfigAssumption` says only
that the constants have their types): `TypeCorrect`, `NoMailIsAnnouncedTwice`,
`KnownMailsAreNotAnnounced`, `HookDetailsExist`, `ShownMailsStayVisible`,
`UpdatesAreComplete`, `UpdatesAreCurrent`, `CycleImplementsMailWatch`; and
`StopSignalIsDelivered` under the assumption that every subject can be decoded.

None of these is inductive. The invariant `IInv` adds to the types:
`OnlyDelivered` (what anybody knows was delivered, so a new UID is unknown to
all), `Phases` (which local variables are in use at which place of the loop),
`NothingMissed` (a folder already downloaded lacks no mail that is still there
and was shown, or present at the start: mails only leave, and a new one is not
owed), `NoReturn` (a mail once shown and now not shown is neither in the mailbox
nor in anything gathered; this is why a set difference suffices to announce each
mail once), `GoneStaysGone`, `Announcements` (requests so far, outstanding and
baseline mails do not overlap), and `Shutdown`. Each holds initially and is kept
by each action; the theorems follow from it, those about steps and about
`MailWatch` by looking at `Publish` and `StartHook`.

`ImapSession_proofs` proves that the conversation with the server does what `UpdateCycle`
says of a download (`SessionsAreDownloads`), hence what `MailWatch` says of the viewer
(`SessionsImplementMailWatch`), and that no password travels in the clear
(`NoPasswordInTheClear`), for every configuration, mode and number of mails. To the
invariant of `UpdateCycle`, which holds in the mapped state, `SInv` adds: a session
that is to be encrypted and is not gets no further than the handshake (`Encryption`);
where the session is when the task is in "fetch" or "bodies" (`SessionPhases`); between
selection and listing, what was in the folder when the update began is listed, or
gone (`NoneOverlooked`), which is what `ListFolder` asks of a listing; and a chunk that
is under way is one that `FetchChunk` may take (`ChunkInHand`). Each command is then
the step it is mapped to, or a stutter.

`ReportHistory_proofs` proves everything the run `history` checks, for any mails, contents,
order of the hashes, configuration and number of updates: `HistoryTypesHold`,
`FilesAreNotReplaced`, `EveryKeyIsShown`, `AllFilesAreAccountedFor`, `LinksLeadSomewhere`,
`PagesOfMailsAgree`, `LinksDoSurvive`. The assumptions (`PipelineAssumption`,
`HistoryAssumption`, `EncodingAssumption`) are that constants have their types, that folder
and UID make a mail, that different hashed things have different hashes, and that
decoding undoes one encoding (of texts that may themselves look encoded). The invariant
`HInv` has three parts. `MailTypes` is about the download. `LocalInv` is about the maps
of the update, for each kind of file: `FilesInv` (the map of files has exactly the files
of the mails extracted so far, each at its hash: this needs that mails whose files
share a map share a folder), `OrderInv` (files are parsed by hash), `ReportsInv`,
`FilterInv` (the duplication map leads from each key met to the only report with it,
and no parsed file with this key has a smaller hash), `DuplicatesInv`, and `CountsInv`
(each parsed file counts once with its mail, in all three steps of the loop).
`AppInv` is what of this is kept in `AppState` when the local variables are gone and
the next update has begun; in particular that a report has the least hash of
all files of its key in the mails that were read (`AppReports`), from which
`LinksDoSurvive` follows by comparing the two updates at `Publish`. A total is the sum of
what its parts are by `CountedByParts` of `Counting`: a set that is cut into parts
has as many elements as there are pairs of a part and a number up to its size.
Two more theorems say what the findings `same_reports` and `hook_count` come from, and
that they come from nothing else: `DuplicatesAreTheSame` (no report is filtered because
of another one if `DuplicateKey` tells them apart) and `HookCountIsRightWithoutDuplicates`
(the count is right for each mail none of whose reports was filtered).

`CacheMap_proofs` proves `CacheStaysBounded`, that the cache keeps to its size and its
stamps stay unique, `OnlyTheOldestGoes`, that an entry leaves it only when it is full and
only if all others are younger, and `CacheIsFifo`, that it is a queue, for all keys, values and sizes.
The argument for the latter does without induction over the queue: the place of an entry
in it is how many entries are older (`PlaceByAge`), so there is one queue that
represents a map (`OneQueue`); dropping its head, removing a key from it and adding
one at its end each represent what `insert()` does to the map. That such a queue exists at
all is `InOrder` of `Counting`. The lemmas about one insertion are used by the two
modules that have a cache.

`IpRequests_proofs` proves, for any requests, servers, limits and logins that
`RequestsAssumption` allows (constants have their types, a colon is a symbol):
`RequestTypesHold`, `LoginWorks`, `LocationsAreRight`, `WhoisChainsEnd`, and
`CacheOfLocationsIsFifo`. The
invariant `Inv` says which places belong to which route (`Routes`), that a location
under way fits the IP it will be stored for (`Located`), that queries and referrals
left add up to the limit (`Chain`), and who was refused (`Refusals`). The login rests
on two lemmas about sequences: a text is what it was split into, put together
(`SplitThenJoin`), and a user without a colon, a colon and any password split into
the two (`JoinThenSplit`).

`DnsLookup_proofs` proves, for any batch, ports, cache size and number of message IDs
that is not below the number of lookups (`LookupAssumption`): `LookupTypesHold`,
`NamesAreRight` and `CacheOfNamesIsFifo`. The point is that a late answer at a reused
port is told apart by its ID. The invariant says that the queries so far carry the first
`n` IDs while enough are left for those who have not sent yet (`IdsUsed`), so that the
ID of a new query is fresh, and a query with the ID of a waiting task is its own
(`IdsMatch`); then names fit IPs in tasks and cache (`Found`) and in the answer
(`Joined`).

`ReportQueries_proofs` proves everything the run `queries` checks, for all reports, clocks and
widths of integers that `ReportsAssumption` allows (finitely many reports, records, policies
and failures; records have an IP; a domain has a spelling in lower case, which is
its own; times of DMARC reports are unsigned; the clock is after 1970 and not set back
during a request; TLS failures and DMARC issues have
different names): `BadgesAreRight`, `FlaggedReportsAreRight`, `TimeSpansAreRight`,
`SpansSince1970AreComplete`, `RangesAreRight`, `ChartsAreFlagged`, `ChartsAreRight`, `MetricsAreRight`. The invariant
is only that published reports exist (`Known`); the work is in lemmas that say
what each handler's answer contains (`DmarcFromRecords`, `TlsFromDetails`,
`IssuesOfSource`, `FlaggedLists`), from which two answers are compared. The
dashboard's time spans need a few facts about whole and cut seconds (`SecondOf`,
`ThresholdInRange`): for a span that begins after 1970 the threshold is the second in which it
begins (`CountedInSpan`), and a DMARC report that is left out ended before it (`EndsInSpan`).
`SpansSince1970AreComplete` says that no report is missing from such a span. Metrics count a report
under the domain as spelled, the dashboard under the lower case one, so the reports of
a domain are cut into parts by spelling (`CountedByParts` again).

The same module proves of `SourcesPage`, for any reports, filters, sizes of chunks and
limits, and any number of visits: `FilterIsObeyed` and `UndisturbedNamesFit`. The
invariant `PInv` says, beyond types, that while calls do not overlap only the last one runs, and a
chunk it waits for is still what stands in its place in the list (`ChunkFits` in `Alone`):
this is what an overlapping visit breaks, see `names_mixup`.

Only model-checked: everything about liveness (the properties of `live`,
`LookupsAreAnswered`, `RequestsAreAnswered`, `NamesArrive`, and `SessionsEnd`, the part of
`ImplementsUpdateCycle` about fairness), which the prover cannot do. Every safety property
that a run checks and that holds is the subject of a theorem. To make this possible,
lists in a given order and sums are stated without recursion: as the sequence that is
sorted (`Filtered`, `ByAge`), and as a number of pairs (`MetricsAgree`, `CountedFiles`).

## Not modelled

* Times (`last_update`, schedules: the pause is just a step), templates of the web
  hook, recognition of content types and file names in `unpack.rs`, contents of
  reports, encoding of DNS names: data no property here depends on.
* `dmarc.rs`, `tls.rs` and `mail.rs` (but for its panic) are deserialization and
  decoding without state, `static_files.rs` is a table, `config.rs` a declarative
  command line, `health_check.rs` one request of another process.
* The start of the HTTP or HTTPS server in `http.rs`, where ACME is a library that
  renews certificates on its own. `acme_listener.rs` is not part of the program: no
  module includes it.
* In `ReportQueries`, decoding of query parameters (an unreadable one is dropped and
  filters nothing), and grouping of small parts of charts. Links and pages together
  encode as often as the server decodes (the dashboard encodes its domain only once,
  `dashboard.js:186`, and the page of sources never decodes it, `sources.js:69`: no
  difference for a domain that has nothing to encode). How often is
  modelled for the sender of mails (`SenderLink`, `LinkedMails`, `MailList`).
* The other lists of the web interface, whose answers may come in the wrong order
  (`dmarc-reports.js:120`), and the four answers of the page of a mail, which may be
  of two updates. Rendering.

Assumptions: the server never reuses a UID within a folder; both specific folders are
different in `UpdateCycle`; hashes do not collide; requests of the web hook end; domains
have nothing to encode. With a domain filter, a TLS report
of several domains counts with the policies of all of them in the dashboard
(`TlsSummary`), and a source has the domain of its first report only (`SourceDomain`):
both are modelled as they are, and no property says that they should be.

## Plan

Done, in this order: `UpdateCycle` and `MailWatch` with proofs, `CacheMap` with
proofs, `DnsLookup`, `ReportPipeline`, `ReportQueries` with proofs, `SourcesPage`,
`ImapSession`, `IpRequests`, `ReportHistory`, proofs of `IpRequests` and `DnsLookup`, proofs
of `ImapSession`, `ReportHistory`, `SourcesPage` and of the rest of `ReportQueries`, and of
the cache as a queue. Next:

1. Further theorems about single steps that no run asks for yet, as
   `ShownMailsStayVisible` of `UpdateCycle_proofs`: which mails an update announces,
   what an answer that comes late changes.
2. How many queries and requests an update or a batch can cost at most.
