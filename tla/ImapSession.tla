----------------------------- MODULE ImapSession -----------------------------
(***************************************************************************)
(* The download of a folder, get_mails (src/src/imap.rs), command by       *)
(* command.  UpdateCycle takes connection, login, selection and listing as *)
(* one step, and the request of a chunk with all its answers as another;   *)
(* here each command is sent in one step and answered in a later one, and  *)
(* mails arrive and leave between any two.                                 *)
(*                                                                         *)
(* The server fails in two ways: it is down, which makes every command     *)
(* fail (up, of UpdateCycle), or it keeps the connection and stays silent. *)
(* Only the TCP connection has a timeout (imap.rs:192).                    *)
(***************************************************************************)
EXTENDS UpdateCycle

VARIABLES
    mode,         \* "starttls" or "plain" when --imap-starttls or
                  \* --imap-disable-tls is given, which exclude each other; else "tls"
    silent,       \* the server accepts connections and commands, and answers none
    step,         \* what the session waits for; "connect" when there is none
    stream,       \* "tcp" or "tls"
    clear,        \* commands of this session that were sent unencrypted
    selected,     \* mails of the folder when it was selected
    batch,        \* mails of the chunk that is being downloaded
    received      \* those whose body has come

chunk   == <<batch, received>>
session == <<mode, silent, step, stream, clear, selected, chunk>>
allVars == <<vars, session>>

SessionInit ==
    /\ Init
    /\ mode \in {"tls", "starttls", "plain"}
    /\ silent = FALSE
    /\ step = "connect"
    /\ stream = "tcp"
    /\ clear = {}
    /\ selected = {}
    /\ batch = {}
    /\ received = {}

Answers == up /\ ~silent

(* What the session waits for comes. *)
Answered(s) == pc \in {"fetch", "bodies"} /\ step = s /\ Answers

(* The variables of a session end with it. *)
Close ==
    /\ step' = "connect"
    /\ stream' = "tcp"
    /\ clear' = {}
    /\ selected' = {}
    /\ batch' = {} /\ received' = {}
    /\ UNCHANGED <<mode, silent>>

(* The command goes out over the stream that is open by now. *)
Send(command) == clear' = IF stream' = "tls" THEN clear ELSE clear \cup {command}

WaitFor(next, command) ==
    /\ step' = next
    /\ Send(command)
    /\ UNCHANGED <<vars, mode, silent>>

-----------------------------------------------------------------------------
(***************************************************************************)
(* create_client (imap.rs:181-236).                                        *)
(***************************************************************************)
(* The address is resolved and TCP connects, before the timeout. *)
Connect ==
    /\ pc = "fetch" /\ step = "connect" /\ up
    /\ stream' = "tcp"
    /\ CASE mode = "starttls" -> step' = "greeting"  /\ clear' = {}
         [] mode = "plain"    -> step' = "login"     /\ clear' = {"LOGIN"}
         [] mode = "tls"      -> step' = "handshake" /\ clear' = {}
    /\ UNCHANGED <<vars, mode, silent, selected, chunk>>

(* Mutant: a server that does not greet is talked to without encryption. *)
GreetingOptional ==
    /\ Answered("greeting")
    /\ UNCHANGED stream
    /\ \/ WaitFor("starttls", "STARTTLS")
       \/ WaitFor("login", "LOGIN")
    /\ UNCHANGED <<selected, chunk>>

Greeting ==
    /\ Answered("greeting")
    /\ UNCHANGED stream
    /\ WaitFor("starttls", "STARTTLS")
    /\ UNCHANGED <<selected, chunk>>

StartTls ==
    /\ Answered("starttls")
    /\ step' = "handshake"
    /\ UNCHANGED <<vars, mode, silent, stream, clear, selected, chunk>>

(* create_tls_stream (imap.rs:238-286), then the login of get_mails. *)
Handshake ==
    /\ Answered("handshake")
    /\ stream' = "tls"
    /\ WaitFor("login", "LOGIN")
    /\ UNCHANGED <<selected, chunk>>

-----------------------------------------------------------------------------
(***************************************************************************)
(* get_mails (imap.rs:23-178).                                             *)
(***************************************************************************)
Login ==
    /\ Answered("login")
    /\ UNCHANGED stream
    /\ WaitFor("select", "SELECT")
    /\ UNCHANGED <<selected, chunk>>

(* The answer says how many mails there are.  An empty folder is not       *)
(* listed.                                                                 *)
Select ==
    /\ Answered("select")
    /\ selected' = MailsIn(Current)
    /\ UNCHANGED stream
    /\ IF selected' # {}
       THEN WaitFor("list", "FETCH")
       ELSE /\ step' = "chunk"
            /\ found' = NoMails
            /\ wanted' = {}
            /\ pc' = "bodies"
            /\ UNCHANGED <<server, left, gathered, new, state, control, history,
                           mode, silent, clear>>
    /\ UNCHANGED chunk

(* The mails 1 to `exists`, without those that left since. *)
Listed == MailsIn(Current) \cap selected

List ==
    /\ Answered("list")
    /\ Listed \cap (Undecodable \cup Malformed) = {}
    /\ found' = [id \in Listed |-> ListedStatus(id)]
    /\ wanted' = {id \in Listed : ListedStatus(id) # "oversized"}
    /\ pc' = "bodies"
    /\ step' = "chunk"
    /\ selected' = {}
    /\ UNCHANGED <<server, left, gathered, new, state, control, history,
                   mode, silent, stream, clear, chunk>>

ListPanics ==
    /\ Answered("list")
    /\ Listed \cap (Undecodable \ Malformed) # {}
    /\ ListingPanics
    /\ Close

(* The next chunk of the ids, in the order of a hash map. *)
RequestChunk ==
    /\ pc = "bodies" /\ step = "chunk"
    /\ \E c \in SUBSET wanted :
        /\ IsChunk(c)
        /\ batch' = c
    /\ UNCHANGED stream
    /\ WaitFor("bodies", "UID FETCH")
    /\ UNCHANGED <<selected, received>>

(* One message of the answer.  One that is not of this chunk, or that has  *)
(* no body, is only logged (imap.rs:130-141).                              *)
ReceiveBody ==
    /\ Answered("bodies")
    /\ \E id \in MailsIn(Current) \cup batch :
        received' = received \cup ({id} \cap batch)
    /\ UNCHANGED <<vars, mode, silent, step, stream, clear, selected, batch>>

(* Mutant: the rest of the mails is given up when one of a chunk is missing. *)
EndChunkStops ==
    /\ Answered("bodies")
    /\ found' = [id \in DOMAIN found |->
                   IF id \in received THEN IF id \in Big THEN "oversized" ELSE "read"
                                      ELSE found[id]]
    /\ wanted' = IF received = batch THEN wanted \ batch ELSE {}
    /\ step' = "chunk"
    /\ batch' = {} /\ received' = {}
    /\ UNCHANGED <<server, pc, left, gathered, new, state, control, history,
                   mode, silent, stream, clear, selected>>

(* The answer ends, with whatever bodies it brought. *)
EndChunk ==
    /\ Answered("bodies")
    /\ found' = [id \in DOMAIN found |->
                   IF id \in received THEN IF id \in Big THEN "oversized" ELSE "read"
                                      ELSE found[id]]
    /\ wanted' = wanted \ batch
    /\ step' = "chunk"
    /\ batch' = {} /\ received' = {}
    /\ UNCHANGED <<server, pc, left, gathered, new, state, control, history,
                   mode, silent, stream, clear, selected>>

LogOut ==
    /\ pc = "bodies" /\ step = "chunk"
    /\ wanted = {}
    /\ UNCHANGED stream
    /\ WaitFor("logout", "LOGOUT")
    /\ UNCHANGED <<selected, chunk>>

(* Whatever becomes of the logout, the mails are handed over; but an       *)
(* answer or the end of the connection has to come.                        *)
LoggedOut ==
    /\ pc = "bodies" /\ step = "logout"
    /\ Answers \/ ~up
    /\ FolderDone
    /\ Close

(* `?` at any of the steps above, and `ensure!` before the first chunk. *)
SessionFails ==
    /\ \/ pc = "fetch" /\ ~up
       \/ pc = "bodies" /\ step = "bodies" /\ ~up
       \/ Answered("list") /\ Listed \cap Malformed # {}
       \/ step = "chunk" /\ pc = "bodies" /\ wanted # {} /\ chunkSize = 0
    /\ FetchFails
    /\ Close

Download ==
    \/ Connect \/ Greeting \/ StartTls \/ Handshake \/ Login \/ Select \/ List \/ ListPanics
    \/ RequestChunk \/ ReceiveBody \/ EndChunk \/ LogOut \/ LoggedOut \/ SessionFails

-----------------------------------------------------------------------------
(* Everything that is not a download is as in UpdateCycle. *)
Elsewhere ==
    \/ Environment \/ MainTask
    \/ Publish \/ StartHook \/ HookReturns \/ Schedule \/ StartUpdate \/ Stop

(* The server falls silent or speaks again. *)
TurnSilent ==
    /\ silent' = ~silent
    /\ UNCHANGED <<vars, mode, step, stream, clear, selected, chunk>>

SessionNext ==
    \/ Download
    \/ Elsewhere /\ UNCHANGED session
    \/ TurnSilent

(* The task goes on whenever what it waits for has come. *)
SessionFairness ==
    /\ WF_allVars(Download)
    /\ WF_allVars(BackgroundTask /\ ~(pc \in {"fetch", "bodies"}) /\ UNCHANGED session)
    /\ SF_allVars(Stop /\ UNCHANGED session)
    /\ WF_allVars(SendStop /\ UNCHANGED session)
    /\ WF_allVars(JoinBackground /\ UNCHANGED session)

SessionSpec == SessionInit /\ [][SessionNext]_allVars /\ SessionFairness

-----------------------------------------------------------------------------
(***************************************************************************)
(* Properties.                                                             *)
(***************************************************************************)
(* Whatever the server does, user, password and mails only travel          *)
(* unencrypted when TLS is disabled: no failure falls back to plain text   *)
(* (imap.rs:204-230).                                                      *)
LoginIsEncrypted == mode # "plain" => clear \subseteq {"STARTTLS"}

(* The session does what UpdateCycle says of get_mails, however mails come *)
(* and go between two commands.  It comes to an end as the fairness of     *)
(* UpdateCycle says, unless the server stays silent: from then on nothing  *)
(* else happens, since no command has a timeout.                           *)
SessionsDownload == Spec
SessionsEnd == <>[]~silent => Fairness
ImplementsUpdateCycle == SessionsDownload /\ SessionsEnd
=============================================================================
