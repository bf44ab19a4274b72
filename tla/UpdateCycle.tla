----------------------------- MODULE UpdateCycle -----------------------------
(***************************************************************************)
(* The background task of the viewer (src/src/background.rs), the download *)
(* of an IMAP folder it calls (src/src/imap.rs), the part of the shared    *)
(* AppState it writes (src/src/state.rs), the web hook it calls for new    *)
(* mails (src/src/web_hook.rs), and the start and shutdown of the process  *)
(* around it (src/src/main.rs).                                            *)
(*                                                                         *)
(* The task runs concurrently with the IMAP server, where mails arrive and *)
(* are expunged at any time, also between the downloads of two folders and *)
(* between the listing of a folder and the download of its mails; and with *)
(* the main task, which stops it over a channel of capacity one.           *)
(*                                                                         *)
(* A mail is identified by folder and UID: the code hashes UID, account    *)
(* and folder (imap.rs:312) and there is one account.  The server never    *)
(* uses a UID twice in a folder (UIDVALIDITY does not change).  What is in *)
(* a mail is the subject of module ReportPipeline; here a mail is "read"   *)
(* (body downloaded), "oversized", or "empty" (listed, body never came).   *)
(***************************************************************************)
EXTENDS Naturals, FiniteSets

CONSTANTS
    DmarcFolder,  \* --imap-folder-dmarc is given
    TlsFolder,    \* --imap-folder-tls is given
    WebHook,      \* --mail-web-hook-url is given
    ChunkSizes,   \* what --imap-chunk-size may be
    Big,          \* mails whose real size exceeds --max-mail-size
    Unsized,      \* mails the server lists without a size
    Undecodable,  \* mails whose subject makes decode_subject() panic
    Malformed,    \* mails the server describes without UID, envelope or date
    MaxUid        \* bound: the highest UID the server hands out in a folder

ASSUME ConfigAssumption ==
    /\ DmarcFolder \in BOOLEAN
    /\ TlsFolder \in BOOLEAN
    /\ WebHook \in BOOLEAN
    /\ ChunkSizes \subseteq Nat
    /\ MaxUid \in Nat

(* The folders an update reads: the specific ones that are configured, the *)
(* general one only when neither is.                                       *)
Watched ==
    IF DmarcFolder \/ TlsFolder
    THEN {f \in {"dmarc", "tls"} : IF f = "dmarc" THEN DmarcFolder ELSE TlsFolder}
    ELSE {"inbox"}

Uid == 1 .. MaxUid
MailId == [folder : Watched, uid : Uid]
Status == {"read", "oversized", "empty"}

VARIABLES
    \* the command line and the IMAP server (environment)
    chunkSize,    \* --imap-chunk-size, which never changes
    box,          \* folder -> UIDs of the mails in it
    uidNext,      \* folder -> the UID the next mail will get
    up,           \* the server accepts and answers requests
    \* local variables of the background task
    pc,           \* where the task is
    left,         \* folders this update still has to download
    found,        \* get_mails: mails of the current folder, id -> status
    wanted,       \* get_mails: ids whose body is still to be requested
    gathered,     \* bg_update: mails of the folders downloaded so far
    new,          \* new_mails whose web hook call is outstanding
    \* AppState
    mails,        \* id -> status
    firstUpdate,  \* first_update
    planned,      \* next_update is not zero
    \* main
    main,         \* where the main task is
    stopSignal,   \* messages in the stop channel
    \* history variables, read by properties only
    attempts,     \* id -> number of web hook requests
    baseline,     \* mails of the first published update
    seen,         \* mails that were ever in AppState
    atStart,      \* mails in the watched folders when the update began
    goneAtStart   \* mails that had left them by then

server   == <<chunkSize, box, uidNext, up>>
download == <<left, found, wanted, gathered>>
state    == <<mails, firstUpdate, planned>>
control  == <<main, stopSignal>>
history  == <<attempts, baseline, seen, atStart, goneAtStart>>
vars == <<server, pc, download, new, state, control, history>>

NoMails == [id \in {} |-> "empty"]

MailsIn(f) == {id \in MailId : id.folder = f /\ id.uid \in box[f]}
Present == UNION {MailsIn(f) : f \in Watched}
Delivered == {id \in MailId : id.uid < uidNext[id.folder]}

Init ==
    /\ chunkSize \in ChunkSizes
    /\ uidNext \in [Watched -> 1 .. MaxUid + 1]
    /\ box \in [Watched -> SUBSET Uid]
    /\ \A f \in Watched : \A u \in box[f] : u < uidNext[f]
    /\ up = TRUE
    /\ pc = "fetch"
    /\ left = Watched
    /\ found = NoMails
    /\ wanted = {}
    /\ gathered = NoMails
    /\ new = {}
    /\ mails = NoMails
    /\ firstUpdate = TRUE
    /\ planned = FALSE
    /\ main = "serving"
    /\ stopSignal = 0
    /\ attempts = [id \in MailId |-> 0]
    /\ baseline = {}
    /\ seen = {}
    /\ atStart = Present
    /\ goneAtStart = Delivered \ Present

-----------------------------------------------------------------------------
(***************************************************************************)
(* The IMAP server.                                                        *)
(***************************************************************************)
Deliver ==
    \E f \in Watched :
        /\ uidNext[f] <= MaxUid
        /\ box' = [box EXCEPT ![f] = @ \cup {uidNext[f]}]
        /\ uidNext' = [uidNext EXCEPT ![f] = @ + 1]
        /\ UNCHANGED <<chunkSize, up, pc, download, new, state, control, history>>

Expunge ==
    \E f \in Watched : \E u \in box[f] :
        /\ box' = [box EXCEPT ![f] = @ \ {u}]
        /\ UNCHANGED <<chunkSize, uidNext, up, pc, download, new, state, control, history>>

GoUpOrDown ==
    /\ up' = ~up
    /\ UNCHANGED <<chunkSize, box, uidNext, pc, download, new, state, control, history>>

Environment == Deliver \/ Expunge \/ GoUpOrDown

-----------------------------------------------------------------------------
(***************************************************************************)
(* One update: get_mails for each watched folder, in the order DMARC, TLS. *)
(* found, wanted and gathered are local to the update: whatever fails, `?` *)
(* drops them and AppState stays as it was.                                *)
(***************************************************************************)
Current == IF "dmarc" \in left THEN "dmarc" ELSE IF "tls" \in left THEN "tls" ELSE "inbox"

(* imap.rs:27-92.  Connect, log in, select the folder and list the mails   *)
(* it held when it was selected: later ones may be missing.  A mail is     *)
(* oversized by the size the server states, 0 when it states none; the     *)
(* others are the ones to download.  ImapSession has the single steps.     *)
ListedStatus(id) == IF id \in Big \ Unsized THEN "oversized" ELSE "empty"

Listings(f) == {S \in SUBSET MailsIn(f) : MailsIn(f) \cap atStart \subseteq S}

ListFolder ==
    /\ pc = "fetch"
    /\ up
    /\ \E listed \in Listings(Current) :
        /\ listed \cap (Undecodable \cup Malformed) = {}
        /\ found' = [id \in listed |-> ListedStatus(id)]
        /\ wanted' = {id \in listed : ListedStatus(id) # "oversized"}
    /\ pc' = "bodies"
    /\ UNCHANGED <<server, left, gathered, new, state, control, history>>

(* mail.rs:52-78: the Q decoder cuts the first byte off a text that starts *)
(* with a character of several bytes, and panics, unless the listing fails *)
(* at another mail before.  tokio ends the task and drops its half of the  *)
(* stop channel; the process goes on.                                      *)
ListingPanics ==
    /\ pc = "fetch"
    /\ up
    /\ MailsIn(Current) \cap (Undecodable \ Malformed) # {}
    /\ pc' = "panicked"
    /\ left' = {}
    /\ gathered' = NoMails
    /\ UNCHANGED <<server, found, wanted, new, state, control, history>>

(* imap.rs:100-166.  One chunk is requested by UID.  A mail of the chunk   *)
(* may be expunged before its body is sent, and the server may leave out   *)
(* others: both are only logged.  The size is checked again with the real  *)
(* body, and an oversized body is dropped.                                 *)
IsChunk(c) ==
    /\ c # {}
    /\ Cardinality(c) <= chunkSize
    /\ Cardinality(c) = chunkSize \/ c = wanted

FetchChunk ==
    /\ pc = "bodies"
    /\ up
    /\ \E c \in SUBSET wanted :
        /\ IsChunk(c)
        /\ \E got \in SUBSET c :
            found' = [id \in DOMAIN found |->
                        IF id \in got THEN IF id \in Big THEN "oversized" ELSE "read"
                                      ELSE found[id]]
        /\ wanted' = wanted \ c
    /\ UNCHANGED <<server, pc, left, gathered, new, state, control, history>>

(* Mutant: the second folder replaces the mails of the first. *)
FolderDoneOverwrites ==
    /\ pc = "bodies"
    /\ wanted = {}
    /\ gathered' = found
    /\ found' = NoMails
    /\ left' = left \ {Current}
    /\ pc' = IF left' = {} THEN "publish" ELSE "fetch"
    /\ UNCHANGED <<server, wanted, new, state, control, history>>

(* imap.rs:171-177: log out, whose failure is only logged, and hand the    *)
(* mails to bg_update, which adds them to those of the other folder        *)
(* (background.rs:86-107).                                                 *)
FolderDone ==
    /\ pc = "bodies"
    /\ wanted = {}
    /\ gathered' = [id \in DOMAIN found \cup DOMAIN gathered |->
                       IF id \in DOMAIN found THEN found[id] ELSE gathered[id]]
    /\ found' = NoMails
    /\ left' = left \ {Current}
    /\ pc' = IF left' = {} THEN "publish" ELSE "fetch"
    /\ UNCHANGED <<server, wanted, new, state, control, history>>

(* Mutant: nobody looks whether the chunk size is zero. *)
CannotFetchUnchecked ==
    \/ pc \in {"fetch", "bodies"} /\ ~up
    \/ pc = "fetch" /\ MailsIn(Current) \cap Malformed # {}

CannotFetch ==
    \/ pc \in {"fetch", "bodies"} /\ ~up
    \/ pc = "fetch" /\ MailsIn(Current) \cap Malformed # {}
    \/ pc = "bodies" /\ wanted # {} /\ chunkSize = 0

(* Mutant: a failed folder is skipped and the others are published. *)
FetchFailsPublishesRest ==
    /\ CannotFetch
    /\ found' = NoMails
    /\ wanted' = {}
    /\ left' = {}
    /\ pc' = "publish"
    /\ UNCHANGED <<server, gathered, new, state, control, history>>

(* Mutant: what was downloaded before the failure is kept for the retry. *)
FetchFailsKeepsGathered ==
    /\ CannotFetch
    /\ found' = NoMails
    /\ wanted' = {}
    /\ left' = {}
    /\ pc' = "schedule"
    /\ UNCHANGED <<server, gathered, new, state, control, history>>

(* Mutant: the error also ends the loop of the task. *)
FetchFailsEndsTask ==
    /\ CannotFetch
    /\ found' = NoMails
    /\ wanted' = {}
    /\ gathered' = NoMails
    /\ left' = {}
    /\ pc' = "stopped"
    /\ UNCHANGED <<server, new, state, control, history>>

(* Any step of get_mails fails: the server does not answer or answers with *)
(* an error, it describes a mail without UID, envelope or date             *)
(* (imap.rs:289-302), or the chunk size is zero (imap.rs:96-99).  The      *)
(* error ends bg_update and is logged (background.rs:50).                  *)
FetchFails ==
    /\ CannotFetch
    /\ found' = NoMails
    /\ wanted' = {}
    /\ gathered' = NoMails
    /\ left' = {}
    /\ pc' = "schedule"
    /\ UNCHANGED <<server, new, state, control, history>>

(* Mutant: the difference is taken the wrong way round. *)
NewMailsReversed == IF firstUpdate THEN {} ELSE DOMAIN mails \ DOMAIN gathered

(* Mutant: nothing is subtracted. *)
NewMailsAll == IF firstUpdate THEN {} ELSE DOMAIN gathered

(* Mutant: mails are compared by UID, which is not unique across folders. *)
NewMailsByUid ==
    IF firstUpdate THEN {}
    ELSE {id \in DOMAIN gathered : \A old \in DOMAIN mails : old.uid # id.uid}

(* Mutant: the update adds to the mails in AppState instead of replacing them. *)
PublishMerged ==
    /\ pc = "publish"
    /\ mails' = [id \in DOMAIN gathered \cup DOMAIN mails |->
                    IF id \in DOMAIN gathered THEN gathered[id] ELSE mails[id]]
    /\ firstUpdate' = FALSE
    /\ new' = {}
    /\ pc' = "schedule"
    /\ gathered' = NoMails
    /\ UNCHANGED <<server, left, found, wanted, planned, control, history>>

(* background.rs:287-316: all of AppState is replaced under one lock, and  *)
(* the mails that were not in it before are the new ones, except in the    *)
(* first update that gets here.                                            *)
NewMails == IF firstUpdate THEN {} ELSE DOMAIN gathered \ DOMAIN mails

Publish ==
    /\ pc = "publish"
    /\ mails' = gathered
    /\ firstUpdate' = FALSE
    /\ new' = IF WebHook THEN NewMails ELSE {}
    /\ pc' = IF new' = {} THEN "schedule" ELSE "hook"
    /\ gathered' = NoMails
    /\ baseline' = IF firstUpdate THEN DOMAIN gathered ELSE baseline
    /\ seen' = seen \cup DOMAIN gathered
    /\ UNCHANGED <<server, left, found, wanted, planned, control,
                   attempts, atStart, goneAtStart>>

-----------------------------------------------------------------------------
(***************************************************************************)
(* The web hook, one call after the other (background.rs:40-48).           *)
(***************************************************************************)
(* web_hook.rs:17-19, 88-118: under the lock, look up the mail in AppState *)
(* to fill in the request.  A mail that is not there gets no request.  An  *)
(* attempt counts also when no request can be made of the templates        *)
(* (web_hook.rs:20-40), which ends it like a request that fails.           *)
StartHook ==
    /\ pc = "hook"
    /\ \E id \in new :
        /\ new' = new \ {id}
        /\ IF id \in DOMAIN mails
           THEN /\ attempts' = [attempts EXCEPT ![id] = @ + 1]
                /\ pc' = "calling"
           ELSE /\ pc' = IF new' = {} THEN "schedule" ELSE "hook"
                /\ UNCHANGED attempts
    /\ UNCHANGED <<server, download, state, control, baseline, seen, atStart, goneAtStart>>

(* web_hook.rs:55-67: the request was answered or failed.  Either way the  *)
(* task goes on to the next mail and never comes back to this one.         *)
HookReturns ==
    /\ pc = "calling"
    /\ pc' = IF new = {} THEN "schedule" ELSE "hook"
    /\ UNCHANGED <<server, download, new, state, control, history>>

-----------------------------------------------------------------------------
(***************************************************************************)
(* Between two updates (background.rs:53-75).  The pause is an interval or *)
(* what a schedule says, and may be zero; so when the stop signal is in    *)
(* the channel, select! may still pick the timer.  The signal is looked    *)
(* for nowhere else.                                                       *)
(***************************************************************************)
Schedule ==
    /\ pc = "schedule"
    /\ planned' = TRUE
    /\ pc' = "pause"
    /\ UNCHANGED <<server, download, new, mails, firstUpdate, control, history>>

StartUpdate ==
    /\ pc = "pause"
    /\ pc' = "fetch"
    /\ left' = Watched
    /\ atStart' = Present
    /\ goneAtStart' = Delivered \ Present
    /\ UNCHANGED <<server, found, wanted, gathered, new, state, control,
                   attempts, baseline, seen>>

(* Mutant: the task takes the signal for granted. *)
StopUnasked ==
    /\ pc = "pause"
    /\ stopSignal' = stopSignal - 1
    /\ pc' = "stopped"
    /\ UNCHANGED <<server, download, new, state, main, history>>

Stop ==
    /\ pc = "pause"
    /\ stopSignal > 0
    /\ stopSignal' = stopSignal - 1
    /\ pc' = "stopped"
    /\ UNCHANGED <<server, download, new, state, main, history>>

BackgroundTask ==
    \/ ListFolder \/ ListingPanics \/ FetchChunk \/ FolderDone \/ FetchFails \/ Publish
    \/ StartHook \/ HookReturns \/ Schedule \/ StartUpdate \/ Stop

-----------------------------------------------------------------------------
(***************************************************************************)
(* The main task (main.rs:75-94).                                          *)
(***************************************************************************)
(* SIGINT or SIGTERM ends the HTTP server without an error.                *)
Signalled ==
    /\ main = "serving"
    /\ main' = "stopping"
    /\ UNCHANGED <<server, pc, download, new, state, stopSignal, history>>

(* The HTTP server cannot start: main returns the error, and the runtime   *)
(* drops the background task where it is.                                  *)
ServerFails ==
    /\ main = "serving"
    /\ main' = "failed"
    /\ pc' = "dropped"
    /\ UNCHANGED <<server, download, new, state, stopSignal, history>>

(* Mutant: main waits for the task without having sent the signal. *)
SendStopForgotten ==
    /\ main = "stopping"
    /\ main' = "joining"
    /\ UNCHANGED <<server, pc, download, new, state, stopSignal, history>>

(* stop_sender.send().await: waits for room in the channel, and panics     *)
(* when the receiver is gone, that is when the background task has ended.  *)
SendStop ==
    /\ main = "stopping"
    /\ IF pc \in {"stopped", "panicked"}
       THEN main' = "panicked" /\ UNCHANGED stopSignal
       ELSE /\ stopSignal < 1
            /\ stopSignal' = stopSignal + 1
            /\ main' = "joining"
    /\ UNCHANGED <<server, pc, download, new, state, history>>

(* bg_handle.await: panics when the task did. *)
JoinBackground ==
    /\ main = "joining"
    /\ pc \in {"stopped", "panicked"}
    /\ main' = IF pc = "stopped" THEN "exited" ELSE "panicked"
    /\ UNCHANGED <<server, pc, download, new, state, stopSignal, history>>

MainTask == Signalled \/ ServerFails \/ SendStop \/ JoinBackground

Next == Environment \/ BackgroundTask \/ MainTask

Spec == Init /\ [][Next]_vars

(***************************************************************************)
(* Fairness.  tokio polls a task that can go on, so the background task    *)
(* and main take their next step; that a request to the IMAP server or to  *)
(* the web hook ends, with an answer or an error, is an assumption (the    *)
(* code has no timeout there).  Stop is strongly fair because select!      *)
(* polls its branches in random order.                                     *)
(***************************************************************************)
Fairness ==
    /\ WF_vars(BackgroundTask)
    /\ SF_vars(Stop)
    /\ WF_vars(SendStop)
    /\ WF_vars(JoinBackground)

FairSpec == Spec /\ Fairness

-----------------------------------------------------------------------------
(***************************************************************************)
(* Properties.                                                             *)
(***************************************************************************)
MailMap == UNION {[S -> Status] : S \in SUBSET MailId}

(* Every variable has the type the code gives it. *)
TypeOK ==
    /\ chunkSize \in ChunkSizes
    /\ box \in [Watched -> SUBSET Uid]
    /\ uidNext \in [Watched -> 1 .. MaxUid + 1]
    /\ up \in BOOLEAN
    /\ pc \in {"fetch", "bodies", "publish", "hook", "calling", "schedule", "pause",
               "stopped", "panicked", "dropped"}
    /\ left \in SUBSET Watched
    /\ {found, gathered, mails} \subseteq MailMap
    /\ wanted \in SUBSET MailId
    /\ new \in SUBSET MailId
    /\ firstUpdate \in BOOLEAN
    /\ planned \in BOOLEAN
    /\ main \in {"serving", "stopping", "joining", "exited", "failed", "panicked"}
    /\ stopSignal \in 0 .. 1
    /\ attempts \in [MailId -> Nat]
    /\ baseline \in SUBSET MailId
    /\ seen \in SUBSET MailId
    /\ atStart \in SUBSET MailId
    /\ goneAtStart \in SUBSET MailId

(* The web hook is called at most once for a mail, however many updates    *)
(* fail half way, and although nothing but the previous contents of        *)
(* AppState tells which mails are new (background.rs:290-315).             *)
HookAtMostOnce == \A id \in MailId : attempts[id] <= 1

(* Mails that were there when the first update succeeded are known mails   *)
(* and never reach the web hook (config.rs:154-155), also when they leave  *)
(* the mailbox and when updates fail.                                      *)
BaselineNotAnnounced == \A id \in baseline : attempts[id] = 0

(* When the web hook is called for a mail, AppState still holds the mail:  *)
(* "Failed to find details for new mail" (web_hook.rs:96) cannot happen.   *)
HookFindsMail == new \subseteq DOMAIN mails

(* A mail that is shown stays visible as long as it stays in its folder:   *)
(* no update drops it, whichever folder failed and whatever else arrived   *)
(* or left meanwhile.                                                      *)
StaysVisible == [][\A id \in DOMAIN mails : id \in Present => id \in DOMAIN mails']_vars

Publishing == pc = "publish" /\ pc' \in {"hook", "schedule"}

(* A published update misses no mail that was in a watched folder from the *)
(* beginning of the update to its end.                                     *)
UpdateIsComplete == [][Publishing => (atStart \cap Present) \subseteq DOMAIN mails']_vars

(* A published update holds no mail that had left its folder before the    *)
(* update began: nothing survives from an earlier, failed attempt.         *)
UpdateIsCurrent == [][Publishing => DOMAIN mails' \cap goneAtStart = {}]_vars

(* The stop signal always finds the background task listening, so neither  *)
(* expect() of main (main.rs:87-91) ever panics: no failure of an update   *)
(* or of a web hook call ends the task.  A panic in it does: this holds    *)
(* only as long as every subject can be decoded.                           *)
StopIsHeard == main # "panicked"

(* The update cycle implements the abstract MailWatch.                     *)
Watch == INSTANCE MailWatch WITH
    Announcing  <- WebHook,
    present     <- Present,
    delivered   <- Delivered,
    shown       <- DOMAIN mails,
    started     <- ~firstUpdate,
    unannounced <- new,
    announced   <- {id \in MailId : attempts[id] > 0}

(* Every behaviour of the task is one that MailWatch allows: a refresh     *)
(* keeps what is still in the mailbox, resurrects nothing, takes the first *)
(* one as baseline and announces each later mail one time.                 *)
ImplementsMailWatch == Watch!WatchSpec

Undisturbed ==
    /\ chunkSize > 0
    /\ <>[]up
    /\ <>[](Present \cap Malformed = {})
    /\ [](main = "serving")

(* While bodies can be asked for, the server stays up, no malformed mail   *)
(* stays in any of the folders, and nobody stops the viewer, a mail that   *)
(* stays in its folder is shown in the end.                                *)
EventuallyShown == Undisturbed =>
    \A id \in MailId : (id \in Present) ~> (id \in DOMAIN mails \/ id \notin Present)

(* Under the same premise, a mail that leaves its folder disappears from   *)
(* the viewer in the end.                                                  *)
EventuallyGone == Undisturbed =>
    \A id \in MailId : (id \in Delivered \ Present) ~> (id \notin DOMAIN mails)

(* Under the same premise, the web hook hears of each mail that arrives    *)
(* after the first update, unless the mail leaves first.                   *)
EventuallyAnnounced == Undisturbed =>
    \A id \in MailId :
        (~firstUpdate /\ id \in Present \ seen) ~> (attempts[id] > 0 \/ id \notin Present)

(* As long as nobody stops the viewer, every update comes to its end and   *)
(* another one follows: also while the server is down, and with a chunk    *)
(* size of zero, where each update that has a body to ask for fails        *)
(* (imap.rs:96-99).                                                        *)
UpdatesGoOn == [](main = "serving") => []<>(pc = "fetch") /\ []<>(pc = "pause")

(* A signal ends the process, whatever the background task is doing and    *)
(* whether or not the server is up.                                        *)
ShutdownCompletes == (main = "stopping") ~> (main = "exited")
=============================================================================
