------------------------- MODULE ImapSession_proofs -------------------------
(***************************************************************************)
(* Proofs about ImapSession for every configuration, every number of mails *)
(* and every mode of the connection: passwords are not sent in the clear,  *)
(* and a session, command by command, does what UpdateCycle and so         *)
(* MailWatch say of a download.                                            *)
(***************************************************************************)
EXTENDS ImapSession, UpdateCycle_proofs

-----------------------------------------------------------------------------
(***************************************************************************)
(* The invariant of a session, in named parts.                             *)
(***************************************************************************)
Opening == {"connect", "greeting", "starttls", "handshake", "login", "select", "list"}
Fetching == {"chunk", "bodies", "logout"}

SessionTypes ==
    /\ mode \in {"tls", "starttls", "plain"}
    /\ silent \in BOOLEAN
    /\ step \in Opening \cup Fetching
    /\ stream \in {"tcp", "tls"}

(* A session that is to be encrypted and is not yet gets no further than   *)
(* the handshake.                                                          *)
Encryption ==
    /\ mode # "plain" /\ stream = "tcp" =>
           step \in {"connect", "greeting", "starttls", "handshake"}
    /\ mode = "tls" => step \notin {"greeting", "starttls"}
    /\ mode # "plain" => clear \subseteq {"STARTTLS"}

(* The session is as far as the task is; one that was dropped stays where  *)
(* it was.                                                                 *)
SessionPhases ==
    /\ pc = "fetch" => step \in Opening
    /\ pc = "bodies" => step \in Fetching
    /\ pc \notin {"fetch", "bodies", "dropped"} => step = "connect"

(* What was in the folder when the update began is still listed, unless it *)
(* left.                                                                   *)
NoneOverlooked == step = "list" => MailsIn(Current) \cap atStart \subseteq selected

(* The bodies that come are some of those that were requested.             *)
ChunkInHand ==
    /\ received \subseteq batch
    /\ IF step = "bodies" THEN batch \subseteq wanted /\ IsChunk(batch) ELSE batch = {}

SInv ==
    /\ SessionTypes
    /\ Encryption
    /\ SessionPhases
    /\ NoneOverlooked
    /\ ChunkInHand

(* It holds before the first session. *)
LEMMA SessionInvInit == SessionInit => SInv
BY DEF SessionInit, Init, SInv, SessionTypes, Encryption, SessionPhases, NoneOverlooked, ChunkInHand,
   Opening, Fetching

-----------------------------------------------------------------------------
(***************************************************************************)
(* The commands of a session are steps of UpdateCycle, or none.            *)
(***************************************************************************)
(* Selecting an empty folder is a listing without mails. *)
LEMMA SelectIsListing ==
    ASSUME IInv, SInv, Select
    PROVE  ListFolder \/ UNCHANGED vars
<1>1. pc = "fetch" /\ up
  BY DEF Select, Answered, Answers, SInv, SessionPhases, Fetching
<1>2. CASE selected' # {}
  BY <1>2 DEF Select, WaitFor
<1>3. CASE selected' = {}
  <2>1. {} \in Listings(Current)
    BY <1>3 DEF Select, Listings
  <2>2. found' = [id \in {} |-> ListedStatus(id)]
    BY <1>3 DEF Select, NoMails
  <2>3. wanted' = {id \in {} : ListedStatus(id) # "oversized"}
    BY <1>3 DEF Select
  <2> QED
    BY <1>1, <1>3, <2>1, <2>2, <2>3 DEF Select, ListFolder
<1> QED
  BY <1>2, <1>3

(* A listing has no mail that came after the selection, and all that were  *)
(* there when the update began.                                            *)
LEMMA ListIsListing ==
    ASSUME IInv, SInv, List
    PROVE  ListFolder
<1>1. pc = "fetch" /\ up
  BY DEF List, Answered, Answers, SInv, SessionPhases, Fetching
<1>2. Listed \in Listings(Current)
  BY DEF List, Answered, Listed, Listings, SInv, NoneOverlooked
<1> QED
  BY <1>1, <1>2 DEF List, ListFolder

(* The end of an answer completes a chunk. *)
LEMMA EndChunkIsChunk ==
    ASSUME IInv, SInv, EndChunk
    PROVE  FetchChunk
<1>1. pc = "bodies" /\ up
  BY DEF EndChunk, Answered, Answers, SInv, SessionPhases, Opening
<1>2. /\ batch \in SUBSET wanted /\ IsChunk(batch)
      /\ received \in SUBSET batch
  BY DEF EndChunk, Answered, SInv, ChunkInHand
<1> QED
  BY <1>1, <1>2 DEF EndChunk, FetchChunk

(* No step of a session is anything else than a step of UpdateCycle. *)
LEMMA SessionStepIsStep ==
    ASSUME IInv, SInv, [SessionNext]_allVars
    PROVE  [Next]_vars
<1>1. CASE Download
  <2>1. Connect \/ Greeting \/ StartTls \/ Handshake \/ Login \/ RequestChunk \/ ReceiveBody \/ LogOut
           => UNCHANGED vars
    BY DEF Connect, Greeting, StartTls, Handshake, Login, RequestChunk, ReceiveBody, LogOut, WaitFor
  <2>2. ListPanics => ListingPanics
    BY DEF ListPanics
  <2>3. LoggedOut => FolderDone
    BY DEF LoggedOut
  <2>4. SessionFails => FetchFails
    BY DEF SessionFails
  <2> QED
    BY <1>1, <2>1, <2>2, <2>3, <2>4, SelectIsListing, ListIsListing, EndChunkIsChunk
       DEF Download, Next, BackgroundTask
<1>2. CASE Elsewhere /\ UNCHANGED session
  BY <1>2 DEF Elsewhere, Next, BackgroundTask
<1>3. CASE TurnSilent \/ UNCHANGED allVars
  BY <1>3 DEF TurnSilent, allVars
<1> QED
  BY <1>1, <1>2, <1>3 DEF SessionNext

-----------------------------------------------------------------------------
(***************************************************************************)
(* Each step keeps the invariant of the session.                           *)
(***************************************************************************)
(* A session that ends leaves nothing behind for the next one. *)
LEMMA CloseKeepsInv ==
    ASSUME SInv, Close, pc' # "bodies"
    PROVE  SInv'
BY DEF Close, SInv, SessionTypes, Encryption, SessionPhases, NoneOverlooked, ChunkInHand, Opening, Fetching

(* The commands that open a session, up to the listing. *)
LEMMA OpeningKeepsInv ==
    ASSUME IInv, SInv, Connect \/ Greeting \/ StartTls \/ Handshake \/ Login
    PROVE  SInv'
<1>1. UNCHANGED vars /\ UNCHANGED <<selected, batch, received, mode, silent>>
  BY DEF Connect, Greeting, StartTls, Handshake, Login, WaitFor, chunk
<1>2. SessionTypes' /\ Encryption'
  <2>1. CASE Connect
    BY <2>1 DEF Connect, SInv, SessionTypes, Encryption, Opening, Fetching
  <2>2. CASE Greeting \/ StartTls
    BY <2>2 DEF Greeting, StartTls, Answered, WaitFor, Send, SInv, SessionTypes, Encryption, Opening, Fetching
  <2>3. CASE Handshake \/ Login
    BY <2>3 DEF Handshake, Login, Answered, WaitFor, Send, SInv, SessionTypes, Encryption, Opening, Fetching
  <2> QED
    BY <2>1, <2>2, <2>3
<1>3. pc' = "fetch" /\ step' \in Opening /\ step' # "list"
  BY <1>1 DEF Connect, Greeting, StartTls, Handshake, Login, Answered, WaitFor,
     SInv, SessionTypes, SessionPhases, Opening, Fetching, vars
<1>4. SessionPhases' /\ NoneOverlooked'
  BY <1>3 DEF SessionPhases, NoneOverlooked
<1>5. step # "bodies"
  BY DEF Connect, Greeting, StartTls, Handshake, Login, Answered
<1>6. ChunkInHand'
  <2>1. batch = {} /\ received = {}
    BY <1>5 DEF ChunkInHand, SInv
  <2>2. batch' = {} /\ received' = {} /\ step' # "bodies"
    BY <1>1, <1>3, <2>1 DEF Opening
  <2> QED
    BY <2>2 DEF ChunkInHand
<1> QED
  BY <1>2, <1>4, <1>6 DEF SInv

(* The selection knows every mail that is there at that moment. *)
LEMMA SelectKeepsInv ==
    ASSUME IInv, SInv, Select
    PROVE  SInv'
<1>1. /\ pc = "fetch" /\ step = "select" /\ UNCHANGED <<server, left, history, mode, silent, stream, batch, received>>
      /\ IF selected' # {} THEN pc' = "fetch" /\ step' = "list"
                           ELSE pc' = "bodies" /\ step' = "chunk"
  BY DEF Select, Answered, WaitFor, vars, chunk, download, SInv, SessionPhases, Fetching
<1>2. mode # "plain" => stream = "tls"
  BY <1>1 DEF SInv, Encryption, SessionTypes
<1>3. mode # "plain" => clear' = clear
  BY <1>1, <1>2 DEF Select, WaitFor, Send
<1>4. SessionTypes' /\ Encryption'
  BY <1>1, <1>2, <1>3 DEF SInv, SessionTypes, Encryption, Opening, Fetching
<1>5. SessionPhases'
  BY <1>1 DEF SessionPhases, Opening, Fetching
<1>6. NoneOverlooked'
  <2>1. MailsIn(Current)' = MailsIn(Current)
    BY <1>1 DEF MailsIn, Current, server
  <2>2. selected' = MailsIn(Current)
    BY DEF Select
  <2> QED
    BY <2>1, <2>2 DEF NoneOverlooked
<1>7. ChunkInHand'
  BY <1>1 DEF ChunkInHand, SInv
<1> QED
  BY <1>4, <1>5, <1>6, <1>7 DEF SInv

(* Listing, chunks and logout. *)
LEMMA FetchingKeepsInv ==
    ASSUME IInv, SInv, List \/ RequestChunk \/ ReceiveBody \/ EndChunk \/ LogOut
    PROVE  SInv'
<1>1. UNCHANGED <<mode, silent, stream>> /\ pc' = "bodies" /\ step' \in Fetching
  BY DEF List, RequestChunk, ReceiveBody, EndChunk, LogOut, Answered, WaitFor, vars, Fetching,
     SInv, SessionPhases, Opening
<1>2. step \notin {"connect", "greeting", "starttls", "handshake"}
  BY DEF List, RequestChunk, ReceiveBody, EndChunk, LogOut, Answered
<1>3. mode # "plain" => stream = "tls"
  BY <1>2 DEF SInv, Encryption, SessionTypes
<1>4. mode # "plain" => clear' = clear
  BY <1>1, <1>3 DEF List, RequestChunk, ReceiveBody, EndChunk, LogOut, WaitFor, Send
<1>5. SessionTypes' /\ Encryption'
  BY <1>1, <1>3, <1>4 DEF SInv, SessionTypes, Encryption, Opening, Fetching
<1>6. SessionPhases' /\ NoneOverlooked'
  BY <1>1 DEF SessionPhases, NoneOverlooked, Fetching
<1>7. ChunkInHand'
  <2>1. CASE List \/ LogOut
    BY <2>1 DEF List, LogOut, Answered, WaitFor, chunk, SInv, ChunkInHand
  <2>2. CASE RequestChunk
    BY <2>2 DEF RequestChunk, WaitFor, vars, server, download, SInv, ChunkInHand, IsChunk
  <2>3. CASE ReceiveBody
    BY <2>3 DEF ReceiveBody, vars, server, download, Answered, SInv, ChunkInHand, IsChunk
  <2>4. CASE EndChunk
    BY <2>4 DEF EndChunk, ChunkInHand
  <2> QED
    BY <2>1, <2>2, <2>3, <2>4
<1> QED
  BY <1>5, <1>6, <1>7 DEF SInv

(* Mails that arrive while a session runs were not there when the update   *)
(* began.                                                                  *)
LEMMA ElsewhereKeepsInv ==
    ASSUME IInv, SInv, Elsewhere, UNCHANGED session
    PROVE  SInv'
<1>1. SessionTypes' /\ Encryption'
  BY DEF session, SInv, SessionTypes, Encryption
<1>2. wanted' = wanted /\ chunkSize' = chunkSize
  BY DEF Elsewhere, server, Environment, MainTask, Deliver, Expunge, GoUpOrDown, Publish, StartHook, HookReturns,
     Schedule, StartUpdate, Stop, Signalled, ServerFails, SendStop, JoinBackground, download
<1>3. ChunkInHand'
  BY <1>2 DEF session, chunk, SInv, ChunkInHand, IsChunk
<1>4. SessionPhases'
  BY DEF Elsewhere, Environment, MainTask, Deliver, Expunge, GoUpOrDown, Publish, StartHook, HookReturns,
     Schedule, StartUpdate, Stop, Signalled, ServerFails, SendStop, JoinBackground, session,
     SInv, SessionPhases, Opening
<1>5. NoneOverlooked'
  <2> SUFFICES ASSUME step = "list" PROVE (MailsIn(Current) \cap atStart)' \subseteq selected
    BY DEF NoneOverlooked, session
  <2>1. pc \in {"fetch", "dropped"}
    BY DEF SInv, SessionPhases, Fetching
  <2>2. UNCHANGED <<left, atStart, selected>>
    BY <2>1 DEF Elsewhere, Environment, MainTask, Deliver, Expunge, GoUpOrDown, Publish, StartHook,
       HookReturns, Schedule, StartUpdate, Stop, Signalled, ServerFails, SendStop, JoinBackground,
       download, history, session
  <2>3. Present' \cap atStart \subseteq Present
    <3>1. CASE Environment
      BY <3>1, EnvironmentStep DEF IInv, OnlyDelivered
    <3>2. CASE ~Environment
      BY <3>2, SameMailbox DEF Elsewhere, MainTask, Publish, StartHook, HookReturns, Schedule, StartUpdate,
         Stop, Signalled, ServerFails, SendStop, JoinBackground
    <3> QED
      BY <3>1, <3>2
  <2>4. \A id \in MailsIn(Current)' : id.folder = Current /\ id \in Present'
    BY <2>2, PresentIs DEF MailsIn, Current, MailId
  <2>5. \A id \in Present : id.folder = Current => id \in MailsIn(Current)
    BY PresentIs DEF MailsIn
  <2> QED
    BY <2>2, <2>3, <2>4, <2>5 DEF SInv, NoneOverlooked
<1> QED
  BY <1>1, <1>3, <1>4, <1>5 DEF SInv

(* Every step of a session keeps it. *)
LEMMA SessionInvStep ==
    ASSUME IInv, SInv, [SessionNext]_allVars
    PROVE  SInv'
<1>1. CASE ListPanics \/ LoggedOut \/ SessionFails
  <2>1. Close /\ pc' # "bodies"
    BY <1>1 DEF ListPanics, ListingPanics, LoggedOut, FolderDone, SessionFails, FetchFails
  <2> QED
    BY <2>1, CloseKeepsInv
<1>2. CASE TurnSilent \/ UNCHANGED allVars
  BY <1>2 DEF TurnSilent, allVars, session, chunk, vars, server, download, history,
     SInv, SessionTypes, Encryption, SessionPhases, NoneOverlooked, ChunkInHand, IsChunk, MailsIn, Current
<1> QED
  BY <1>1, <1>2, OpeningKeepsInv, SelectKeepsInv, FetchingKeepsInv, ElsewhereKeepsInv
     DEF SessionNext, Download

(* Both invariants hold together: that of UpdateCycle because the steps of *)
(* a session are its steps.                                                *)
LEMMA SessionInvariance == SessionSpec => [](IInv /\ SInv)
<1>1. SessionInit => IInv /\ SInv
  BY InvInit, SessionInvInit DEF SessionInit
<1>2. IInv /\ SInv /\ [SessionNext]_allVars => (IInv /\ SInv)'
  BY SessionStepIsStep, InvStep, SessionInvStep
<1> QED
  BY <1>1, <1>2, PTL DEF SessionSpec

-----------------------------------------------------------------------------
(***************************************************************************)
(* Results.                                                                *)
(***************************************************************************)
(* With TLS or STARTTLS, the user, the password and the mails never travel *)
(* unencrypted, at whatever command the server fails or falls silent.      *)
THEOREM NoPasswordInTheClear == SessionSpec => []LoginIsEncrypted
<1>1. SInv => LoginIsEncrypted
  BY DEF SInv, Encryption, LoginIsEncrypted
<1> QED
  BY <1>1, SessionInvariance, PTL

(* The commands of get_mails, with mails that come and go between them, do *)
(* no more than the two steps UpdateCycle makes of them.                   *)
THEOREM SessionsAreDownloads == SessionSpec => SessionsDownload
<1>1. SessionInit => Init
  BY DEF SessionInit
<1>2. IInv /\ SInv /\ [SessionNext]_allVars => [Next]_vars
  BY SessionStepIsStep
<1> QED
  BY <1>1, <1>2, SessionInvariance, PTL DEF SessionSpec, Spec, SessionsDownload

(* So the viewer with its single IMAP commands implements MailWatch: it    *)
(* drops, resurrects and announces mails as that says.                     *)
THEOREM SessionsImplementMailWatch == SessionSpec => ImplementsMailWatch
BY SessionsAreDownloads, CycleImplementsMailWatch, PTL DEF SessionsDownload
=============================================================================
