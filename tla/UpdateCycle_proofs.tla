------------------------- MODULE UpdateCycle_proofs -------------------------
(***************************************************************************)
(* Proofs about UpdateCycle for every configuration, every number of mails *)
(* and every size of chunks: its invariants, what an update may not do,    *)
(* and that it implements MailWatch.                                       *)
(***************************************************************************)
EXTENDS UpdateCycle, TLAPS

-----------------------------------------------------------------------------
(***************************************************************************)
(* Mail maps and folders.                                                  *)
(***************************************************************************)
(* A function from mail ids to statuses is a mail map. *)
LEMMA MailMapIntro ==
    ASSUME NEW S \in SUBSET MailId, NEW m \in [S -> Status]
    PROVE  m \in MailMap
BY DEF MailMap

(* What a mail map maps, and to what. *)
LEMMA MailMapElim ==
    ASSUME NEW m \in MailMap
    PROVE  /\ DOMAIN m \subseteq MailId
           /\ m \in [DOMAIN m -> Status]
BY DEF MailMap

(* The empty map. *)
LEMMA NoMailsType == NoMails \in MailMap /\ DOMAIN NoMails = {}
<1>1. NoMails \in [{} -> Status]
  BY DEF NoMails, Status
<1>2. {} \in SUBSET MailId
  OBVIOUS
<1> QED
  BY <1>1, <1>2, MailMapIntro DEF NoMails

(* A mail is present when its UID is in its folder. *)
LEMMA PresentIs ==
    /\ Present = {id \in MailId : id.uid \in box[id.folder]}
    /\ Present' = {id \in MailId : id.uid \in box'[id.folder]}
    /\ \A f \in Watched : MailsIn(f) = {id \in Present : id.folder = f}
BY DEF Present, MailsIn, MailId

(* There is always a folder to watch. *)
LEMMA WatchedNotEmpty == Watched # {}
<1>1. CASE DmarcFolder
  <2>1. "dmarc" \in Watched
    BY <1>1 DEF Watched
  <2> QED
    BY <2>1
<1>2. CASE ~DmarcFolder /\ TlsFolder
  <2>1. "tls" \in Watched
    BY <1>2 DEF Watched
  <2> QED
    BY <2>1
<1>3. CASE ~DmarcFolder /\ ~TlsFolder
  BY <1>3 DEF Watched
<1> QED
  BY <1>1, <1>2, <1>3

(* get_mails works on a folder that is still to be downloaded. *)
LEMMA CurrentIsLeft ==
    ASSUME left \in SUBSET Watched, left # {}
    PROVE  Current \in left
BY DEF Current, Watched

-----------------------------------------------------------------------------
(* Initially every variable has its type. *)
LEMMA TypeInit == Init => TypeOK
<1> SUFFICES ASSUME Init PROVE TypeOK
  OBVIOUS
<1>1. {found, gathered, mails} \subseteq MailMap
  BY NoMailsType DEF Init
<1>2. attempts \in [MailId -> Nat]
  BY DEF Init
<1>3. atStart \in SUBSET MailId /\ goneAtStart \in SUBSET MailId
  BY DEF Init, Present, MailsIn, Delivered
<1>4. /\ box \in [Watched -> SUBSET Uid]
      /\ uidNext \in [Watched -> 1 .. MaxUid + 1]
  BY DEF Init
<1>5. /\ wanted = {} /\ new = {} /\ baseline = {} /\ seen = {}
      /\ left = Watched
      /\ pc = "fetch" /\ main = "serving" /\ stopSignal = 0
      /\ up \in BOOLEAN /\ firstUpdate \in BOOLEAN /\ planned \in BOOLEAN
      /\ chunkSize \in ChunkSizes
  BY DEF Init
<1> QED
  BY <1>1, <1>2, <1>3, <1>4, <1>5 DEF TypeOK

(* Each step keeps the types: a UID is only given out up to the bound, the *)
(* channel never holds more than one signal, and the three mail maps hold  *)
(* only mails and statuses.                                                *)
LEMMA TypeStep == TypeOK /\ [Next]_vars => TypeOK'
<1> SUFFICES ASSUME TypeOK, [Next]_vars PROVE TypeOK'
  OBVIOUS
<1> USE DEF TypeOK
<1>1. CASE Deliver
  BY <1>1, ConfigAssumption DEF Deliver, download, state, control, history, Uid
<1>2. CASE Expunge
  BY <1>2 DEF Expunge, download, state, control, history
<1>3. CASE GoUpOrDown
  BY <1>3 DEF GoUpOrDown, download, state, control, history
<1>4. CASE ListFolder
  <2>1. PICK listed \in Listings(Current) :
          /\ found' = [id \in listed |-> ListedStatus(id)]
          /\ wanted' = {id \in listed : ListedStatus(id) # "oversized"}
    BY <1>4 DEF ListFolder
  <2>1a. listed \in SUBSET MailId
    BY DEF Listings, MailsIn
  <2>2. found' \in [listed -> Status]
    BY <2>1 DEF ListedStatus, Status
  <2>3. found' \in MailMap
    BY <2>1a, <2>2, MailMapIntro
  <2> QED
    BY <1>4, <2>1, <2>1a, <2>3 DEF ListFolder, server, state, control, history
<1>4a. CASE ListingPanics
  BY <1>4a, NoMailsType DEF ListingPanics, server, state, control, history
<1>5. CASE FetchChunk
  <2>1. found' \in [DOMAIN found -> Status]
    BY <1>5, MailMapElim DEF FetchChunk, Status
  <2>2. found' \in MailMap
    BY <2>1, MailMapElim, MailMapIntro
  <2> QED
    BY <1>5, <2>2 DEF FetchChunk, server, state, control, history
<1>6. CASE FolderDone
  <2>1. gathered' \in [DOMAIN found \cup DOMAIN gathered -> Status]
    BY <1>6, MailMapElim DEF FolderDone
  <2>2. DOMAIN found \cup DOMAIN gathered \in SUBSET MailId
    BY MailMapElim
  <2>3. gathered' \in MailMap
    BY <2>1, <2>2, MailMapIntro
  <2> QED
    BY <1>6, <2>3, NoMailsType DEF FolderDone, server, state, control, history
<1>7. CASE FetchFails
  BY <1>7, NoMailsType DEF FetchFails, server, state, control, history
<1>8. CASE Publish
  <2>1. DOMAIN gathered \in SUBSET MailId
    BY MailMapElim
  <2> QED
    BY <1>8, <2>1, NoMailsType DEF Publish, NewMails, server, control
<1>9. CASE StartHook
  BY <1>9 DEF StartHook, server, download, state, control
<1>10. CASE HookReturns
  BY <1>10 DEF HookReturns, server, download, state, control, history
<1>11. CASE Schedule
  BY <1>11 DEF Schedule, server, download, control, history
<1>12. CASE StartUpdate
  BY <1>12 DEF StartUpdate, server, state, control, Present, MailsIn, Delivered
<1>13. CASE Stop
  BY <1>13 DEF Stop, server, download, state, history
<1>14. CASE MainTask
  BY <1>14 DEF MainTask, Signalled, ServerFails, SendStop, JoinBackground,
     server, download, state, history
<1>15. CASE UNCHANGED vars
  BY <1>15 DEF vars, server, download, state, control, history
<1> QED
  BY <1>1, <1>2, <1>3, <1>4, <1>4a, <1>5, <1>6, <1>7, <1>8, <1>9, <1>10, <1>11, <1>12, <1>13,
     <1>14, <1>15 DEF Next, Environment, BackgroundTask

(* Every variable of the background task, of AppState and of main has its  *)
(* type in every reachable state of every configuration.                   *)
THEOREM TypeCorrect == Spec => []TypeOK
BY TypeInit, TypeStep, PTL DEF Spec

-----------------------------------------------------------------------------
(***************************************************************************)
(* The inductive invariant, in named parts.                                *)
(***************************************************************************)
(* What is known was delivered before; a UID below uidNext is never given  *)
(* to a mail again.                                                        *)
OnlyDelivered ==
    /\ Present \subseteq Delivered
    /\ seen \subseteq Delivered
    /\ DOMAIN found \subseteq Delivered
    /\ DOMAIN gathered \subseteq Delivered
    /\ atStart \subseteq Delivered
    /\ goneAtStart \subseteq Delivered

(* Where the task is determines which of its local variables are in use. *)
Phases ==
    /\ pc \in {"fetch", "bodies"} => left # {}
    /\ pc = "publish" => left = {}
    /\ pc \notin {"bodies", "dropped"} => DOMAIN found = {}
    /\ pc \notin {"fetch", "bodies", "publish", "dropped"} => DOMAIN gathered = {}
    /\ pc \notin {"hook", "calling", "dropped"} => new = {}

(* The mails that a completed update must contain if they are still there. *)
Owed == DOMAIN mails \cup atStart

(* What is shown and still present was there when the update began, so     *)
(* every listing has it; and no folder that was downloaded has lost a mail *)
(* it owes.                                                                *)
NothingMissed ==
    /\ pc \in {"fetch", "bodies", "publish"} => DOMAIN mails \cap Present \subseteq atStart
    /\ pc \in {"fetch", "bodies", "publish"} =>
         \A id \in Owed \cap Present : id.folder \notin left => id \in DOMAIN gathered
    /\ pc = "bodies" =>
         \A id \in Owed \cap Present : id.folder = Current => id \in DOMAIN found

(* A mail that disappeared from AppState is nowhere any more. *)
NoReturn ==
    /\ DOMAIN mails \subseteq seen
    /\ (seen \ DOMAIN mails) \cap Present = {}
    /\ (seen \ DOMAIN mails) \cap DOMAIN found = {}
    /\ (seen \ DOMAIN mails) \cap DOMAIN gathered = {}

(* Nor is a mail that was gone when the update began. *)
GoneStaysGone ==
    /\ goneAtStart \cap Present = {}
    /\ goneAtStart \cap DOMAIN found = {}
    /\ goneAtStart \cap DOMAIN gathered = {}

(* A web hook request is owed to new mails only, and once. *)
Announcements ==
    /\ firstUpdate => seen = {}
    /\ baseline \subseteq seen
    /\ new \subseteq DOMAIN mails \ baseline
    /\ \A id \in MailId : attempts[id] > 0 => id \in seen \ (baseline \cup new)
    /\ \A id \in MailId : attempts[id] <= 1

(* The task ends only when it has taken the signal that main sent, or when *)
(* a subject made it panic.                                                *)
Shutdown ==
    /\ stopSignal > 0 => main \in {"joining", "panicked"}
    /\ pc = "stopped" => main \in {"joining", "exited"} /\ stopSignal = 0
    /\ pc = "panicked" => Undecodable # {}
    /\ main = "panicked" => pc = "panicked"

IInv ==
    /\ TypeOK
    /\ OnlyDelivered
    /\ Phases
    /\ NothingMissed
    /\ NoReturn
    /\ GoneStaysGone
    /\ Announcements
    /\ Shutdown

-----------------------------------------------------------------------------
(* The inductive invariant holds initially. *)
LEMMA InvInit == Init => IInv
<1> SUFFICES ASSUME Init PROVE IInv
  OBVIOUS
<1>1. TypeOK
  BY TypeInit
<1>2. DOMAIN found = {} /\ DOMAIN gathered = {} /\ DOMAIN mails = {}
  BY NoMailsType DEF Init
<1>3. Present \subseteq Delivered
  BY PresentIs DEF Init, Delivered, MailId
<1>4. left # {}
  BY WatchedNotEmpty DEF Init
<1>5. OnlyDelivered
  BY <1>2, <1>3 DEF OnlyDelivered, Init
<1>6. Phases
  BY <1>2, <1>4 DEF Phases, Init
<1>7. NothingMissed
  BY <1>1, <1>2, PresentIs DEF NothingMissed, Init, TypeOK, MailId
<1>8. NoReturn /\ GoneStaysGone
  BY <1>2 DEF NoReturn, GoneStaysGone, Init
<1>9. Announcements /\ Shutdown
  BY <1>2 DEF Announcements, Shutdown, Init
<1> QED
  BY <1>1, <1>5, <1>6, <1>7, <1>8, <1>9 DEF IInv

(* What the server does changes no variable of the task, takes no UID that *)
(* was ever given out, and forgets none.                                   *)
LEMMA EnvironmentStep ==
    ASSUME TypeOK, OnlyDelivered, Environment
    PROVE  /\ Present' \subseteq Present \cup (MailId \ Delivered)
           /\ Delivered \subseteq Delivered'
           /\ Present' \subseteq Delivered'
           /\ UNCHANGED <<pc, download, new, state, control, history>>
<1>1. CASE Deliver
  <2>1. PICK f \in Watched :
          /\ uidNext[f] <= MaxUid
          /\ box' = [box EXCEPT ![f] = @ \cup {uidNext[f]}]
          /\ uidNext' = [uidNext EXCEPT ![f] = @ + 1]
    BY <1>1 DEF Deliver
  <2>2. \A id \in MailId : uidNext[id.folder] \in Nat /\ id.uid \in Nat /\ id.folder \in Watched
    BY ConfigAssumption DEF TypeOK, MailId, Uid
  <2>3. Delivered \subseteq Delivered'
    BY <2>1, <2>2 DEF Delivered, TypeOK
  <2>4. \A id \in Present' : id \in Present \/ (id.folder = f /\ id.uid = uidNext[f])
    BY <2>1, PresentIs DEF TypeOK, MailId
  <2>5. \A id \in MailId : id.folder = f /\ id.uid = uidNext[f]
                             => id \notin Delivered /\ id \in Delivered'
    BY <2>1, <2>2 DEF Delivered, TypeOK
  <2>6. Present' \subseteq MailId
    BY PresentIs
  <2> QED
    BY <1>1, <2>3, <2>4, <2>5, <2>6 DEF Deliver, OnlyDelivered
<1>2. CASE Expunge
  <2>1. Present' \subseteq Present /\ Delivered' = Delivered
    BY <1>2, PresentIs DEF Expunge, TypeOK, MailId, Delivered
  <2> QED
    BY <1>2, <2>1 DEF Expunge, OnlyDelivered
<1>3. CASE GoUpOrDown
  <2>1. Present' = Present /\ Delivered' = Delivered
    BY <1>3, PresentIs DEF GoUpOrDown, Delivered
  <2> QED
    BY <1>3, <2>1 DEF GoUpOrDown, OnlyDelivered
<1> QED
  BY <1>1, <1>2, <1>3 DEF Environment

(* A step that leaves the server alone changes no mailbox. *)
LEMMA SameMailbox ==
    ASSUME UNCHANGED server
    PROVE  Present' = Present /\ Delivered' = Delivered
BY PresentIs DEF server, Delivered

(* Every step of the server, the task and main preserves the invariant. *)
LEMMA InvStep == IInv /\ [Next]_vars => IInv'
<1> SUFFICES ASSUME IInv, [Next]_vars PROVE IInv'
  OBVIOUS
<1>0. TypeOK /\ TypeOK'
  BY TypeStep DEF IInv
<1>1. CASE Environment
  <2>1. /\ Present' \subseteq Present \cup (MailId \ Delivered)
        /\ Delivered \subseteq Delivered'
        /\ Present' \subseteq Delivered'
        /\ UNCHANGED <<pc, download, new, state, control, history>>
    BY <1>1, EnvironmentStep DEF IInv
  <2>2. UNCHANGED <<Owed, Current>>
    BY <2>1 DEF Owed, Current, download, state, history
  <2>3. seen \subseteq Delivered /\ goneAtStart \subseteq Delivered
    BY DEF IInv, OnlyDelivered
  <2>4. Owed \subseteq Delivered
    BY DEF IInv, OnlyDelivered, NoReturn, Owed
  <2>5. Owed' \cap Present' \subseteq Owed \cap Present
    BY <2>1, <2>2, <2>4
  <2>6. OnlyDelivered'
    BY <2>1 DEF IInv, OnlyDelivered, download, history
  <2>5a. DOMAIN mails \cap Present' \subseteq Present
    BY <2>1, <2>4 DEF Owed
  <2>7. NothingMissed'
    BY <2>1, <2>2, <2>5, <2>5a DEF IInv, NothingMissed, download, state, history
  <2>8. NoReturn' /\ GoneStaysGone'
    BY <2>1, <2>3 DEF IInv, NoReturn, GoneStaysGone, download, state, history
  <2>9. Phases' /\ Announcements' /\ Shutdown'
    BY <2>1 DEF IInv, Phases, Announcements, Shutdown, download, state, control, history
  <2> QED
    BY <1>0, <2>6, <2>7, <2>8, <2>9 DEF IInv
<1>2. CASE ListFolder
  <2>1. /\ Present' = Present /\ Delivered' = Delivered
        /\ UNCHANGED <<left, gathered, new, mails, firstUpdate, control, history>>
        /\ pc = "fetch" /\ pc' = "bodies"
        /\ DOMAIN found' \in Listings(Current)
    BY <1>2, SameMailbox DEF ListFolder, state
  <2>2. UNCHANGED <<Owed, Current>>
    BY <2>1 DEF Owed, Current, history
  <2>3. Current \in Watched
    BY <2>1, CurrentIsLeft DEF IInv, TypeOK, Phases
  <2>4. /\ DOMAIN found' \subseteq Present
        /\ \A id \in atStart \cap Present : id.folder = Current => id \in DOMAIN found'
    BY <2>1, <2>3, PresentIs DEF Listings
  <2>5. OnlyDelivered'
    BY <2>1, <2>4 DEF IInv, OnlyDelivered, history
  <2>6. NothingMissed'
    BY <2>1, <2>2, <2>4 DEF IInv, NothingMissed, Owed, history
  <2>7. NoReturn' /\ GoneStaysGone'
    BY <2>1, <2>4 DEF IInv, NoReturn, GoneStaysGone, history
  <2>8. Phases' /\ Announcements' /\ Shutdown'
    BY <2>1 DEF IInv, Phases, Announcements, Shutdown, control, history
  <2> QED
    BY <1>0, <2>5, <2>6, <2>7, <2>8 DEF IInv
<1>2a. CASE ListingPanics
  <2>1. /\ Present' = Present /\ Delivered' = Delivered
        /\ UNCHANGED <<found, new, mails, firstUpdate, control, history>>
        /\ pc = "fetch"
        /\ pc' = "panicked"
        /\ Undecodable # {}
        /\ DOMAIN gathered' = {}
    BY <1>2a, SameMailbox, NoMailsType DEF ListingPanics, state
  <2>2. OnlyDelivered' /\ NoReturn' /\ GoneStaysGone' /\ NothingMissed'
    BY <2>1 DEF IInv, OnlyDelivered, NoReturn, GoneStaysGone, NothingMissed, history
  <2>3. Phases' /\ Announcements' /\ Shutdown'
    BY <2>1 DEF IInv, Phases, Announcements, Shutdown, control, history
  <2> QED
    BY <1>0, <2>2, <2>3 DEF IInv
<1>3. CASE FetchChunk
  <2>1. /\ Present' = Present /\ Delivered' = Delivered
        /\ UNCHANGED <<pc, left, gathered, new, mails, firstUpdate, control, history>>
        /\ DOMAIN found' = DOMAIN found
        /\ pc = "bodies"
    BY <1>3, SameMailbox DEF FetchChunk, state
  <2>2. UNCHANGED <<Owed, Current>>
    BY <2>1 DEF Owed, Current, history
  <2>3. OnlyDelivered' /\ NoReturn' /\ GoneStaysGone'
    BY <2>1 DEF IInv, OnlyDelivered, NoReturn, GoneStaysGone, history
  <2>4. NothingMissed'
    BY <2>1, <2>2 DEF IInv, NothingMissed, history
  <2>5. Phases' /\ Announcements' /\ Shutdown'
    BY <2>1 DEF IInv, Phases, Announcements, Shutdown, control, history
  <2> QED
    BY <1>0, <2>3, <2>4, <2>5 DEF IInv
<1>4. CASE FolderDone
  <2>1. /\ Present' = Present /\ Delivered' = Delivered
        /\ UNCHANGED <<new, mails, firstUpdate, control, history>>
        /\ pc = "bodies"
        /\ pc' = IF left' = {} THEN "publish" ELSE "fetch"
        /\ left' = left \ {Current}
        /\ DOMAIN gathered' = DOMAIN found \cup DOMAIN gathered
        /\ DOMAIN found' = {}
    BY <1>4, SameMailbox, NoMailsType DEF FolderDone, state
  <2>2. Owed' = Owed
    BY <2>1 DEF Owed, history
  <2>3. OnlyDelivered' /\ NoReturn' /\ GoneStaysGone'
    BY <2>1 DEF IInv, OnlyDelivered, NoReturn, GoneStaysGone, history
  <2>4. NothingMissed'
    BY <2>1, <2>2 DEF IInv, NothingMissed, history
  <2>5. Phases' /\ Announcements' /\ Shutdown'
    BY <2>1 DEF IInv, Phases, Announcements, Shutdown, control, history
  <2> QED
    BY <1>0, <2>3, <2>4, <2>5 DEF IInv
<1>5. CASE FetchFails
  <2>1. /\ Present' = Present /\ Delivered' = Delivered
        /\ UNCHANGED <<new, mails, firstUpdate, control, history>>
        /\ pc \in {"fetch", "bodies"}
        /\ pc' = "schedule"
        /\ DOMAIN gathered' = {}
        /\ DOMAIN found' = {}
    BY <1>5, SameMailbox, NoMailsType DEF FetchFails, CannotFetch, state
  <2>2. OnlyDelivered' /\ NoReturn' /\ GoneStaysGone' /\ NothingMissed'
    BY <2>1 DEF IInv, OnlyDelivered, NoReturn, GoneStaysGone, NothingMissed, history
  <2>3. Phases' /\ Announcements' /\ Shutdown'
    BY <2>1 DEF IInv, Phases, Announcements, Shutdown, control, history
  <2> QED
    BY <1>0, <2>2, <2>3 DEF IInv
<1>6. CASE Publish
  <2>1. /\ Present' = Present /\ Delivered' = Delivered
        /\ UNCHANGED <<left, found, control, attempts, atStart, goneAtStart>>
        /\ pc = "publish"
        /\ pc' = IF new' = {} THEN "schedule" ELSE "hook"
        /\ mails' = gathered
        /\ firstUpdate' = FALSE
        /\ new' \subseteq NewMails
        /\ baseline' = IF firstUpdate THEN DOMAIN gathered ELSE baseline
        /\ seen' = seen \cup DOMAIN gathered
        /\ DOMAIN gathered' = {}
    BY <1>6, SameMailbox, NoMailsType DEF Publish
  <2>2. \A id \in DOMAIN mails : id \in Present => id \in DOMAIN gathered
    BY <2>1 DEF IInv, NothingMissed, Phases, Owed
  <2>3. OnlyDelivered'
    BY <2>1 DEF IInv, OnlyDelivered
  <2>4. DOMAIN found' = {}
    BY <2>1 DEF IInv, Phases
  <2>5. NoReturn'
    <3>1. DOMAIN mails' \subseteq seen'
      BY <2>1
    <3>2. (seen' \ DOMAIN mails') \cap Present' = {}
      BY <2>1, <2>2 DEF IInv, NoReturn
    <3> QED
      BY <2>1, <2>4, <3>1, <3>2 DEF NoReturn
  <2>6. GoneStaysGone' /\ NothingMissed' /\ Phases' /\ Shutdown'
    BY <2>1, <2>4 DEF IInv, GoneStaysGone, NothingMissed, Phases, Shutdown, control
  <2>7. Announcements'
    <3>1. CASE firstUpdate
      <4>1. new' = {} /\ baseline' = seen'
        BY <2>1, <3>1 DEF NewMails, IInv, Announcements
      <4>2. \A id \in MailId : ~(attempts[id] > 0)
        BY <3>1 DEF IInv, Announcements
      <4> QED
        BY <2>1, <4>1, <4>2 DEF IInv, Announcements
    <3>2. CASE ~firstUpdate
      <4>1. new' \subseteq DOMAIN gathered \ DOMAIN mails /\ baseline' = baseline
        BY <2>1, <3>2 DEF NewMails
      <4>2. new' \cap seen = {}
        BY <4>1 DEF IInv, NoReturn
      <4> QED
        BY <2>1, <4>1, <4>2 DEF IInv, Announcements
    <3> QED
      BY <3>1, <3>2
  <2> QED
    BY <1>0, <2>3, <2>5, <2>6, <2>7 DEF IInv
<1>7. CASE StartHook
  <2>1. PICK id \in new :
        /\ pc = "hook"
        /\ new' = new \ {id}
        /\ IF id \in DOMAIN mails
           THEN attempts' = [attempts EXCEPT ![id] = @ + 1] /\ pc' = "calling"
           ELSE pc' = (IF new' = {} THEN "schedule" ELSE "hook") /\ UNCHANGED attempts
    BY <1>7 DEF StartHook
  <2>2. /\ Present' = Present /\ Delivered' = Delivered
        /\ UNCHANGED <<left, found, gathered, mails, firstUpdate, control, baseline, seen, atStart,
                       goneAtStart>>
    BY <1>7, SameMailbox DEF StartHook, download, state
  <2>3. id \in DOMAIN mails /\ id \in seen /\ id \notin baseline /\ id \in MailId
    BY <2>1 DEF IInv, Announcements, NoReturn, TypeOK
  <2>4. attempts[id] = 0
    BY <2>1, <2>3, <1>0 DEF IInv, Announcements, TypeOK
  <2>5. attempts' = [attempts EXCEPT ![id] = 1] /\ pc' = "calling"
    BY <2>1, <2>3, <2>4
  <2>6. Announcements'
    BY <2>1, <2>2, <2>3, <2>5, <1>0 DEF IInv, Announcements, TypeOK
  <2>7. OnlyDelivered' /\ Phases' /\ NothingMissed' /\ NoReturn' /\ GoneStaysGone' /\ Shutdown'
    BY <2>1, <2>2, <2>5 DEF IInv, OnlyDelivered, Phases, NothingMissed, NoReturn, GoneStaysGone,
       Shutdown, control
  <2> QED
    BY <1>0, <2>6, <2>7 DEF IInv
<1>8. CASE HookReturns
  <2>1. /\ Present' = Present /\ Delivered' = Delivered
        /\ UNCHANGED <<download, new, mails, firstUpdate, control, history>>
        /\ pc = "calling"
        /\ pc' = IF new = {} THEN "schedule" ELSE "hook"
    BY <1>8, SameMailbox DEF HookReturns, state
  <2> QED
    BY <1>0, <2>1 DEF IInv, OnlyDelivered, Phases, NothingMissed, NoReturn, GoneStaysGone,
       Announcements, Shutdown, download, control, history
<1>9. CASE Schedule
  <2>1. /\ Present' = Present /\ Delivered' = Delivered
        /\ UNCHANGED <<download, new, mails, firstUpdate, control, history>>
        /\ pc = "schedule"
        /\ pc' = "pause"
    BY <1>9, SameMailbox DEF Schedule
  <2> QED
    BY <1>0, <2>1 DEF IInv, OnlyDelivered, Phases, NothingMissed, NoReturn, GoneStaysGone,
       Announcements, Shutdown, download, control, history
<1>10. CASE StartUpdate
  <2>1. /\ Present' = Present /\ Delivered' = Delivered
        /\ UNCHANGED <<found, gathered, new, mails, firstUpdate, control, attempts, baseline, seen>>
        /\ pc = "pause"
        /\ pc' = "fetch"
        /\ left' = Watched
        /\ atStart' = Present
        /\ goneAtStart' = Delivered \ Present
    BY <1>10, SameMailbox DEF StartUpdate, state
  <2>2. \A id \in Present : id.folder \in Watched
    BY PresentIs DEF MailId
  <2>3. DOMAIN found = {} /\ DOMAIN gathered = {}
    BY <2>1 DEF IInv, Phases
  <2>4. NothingMissed'
    BY <2>1, <2>2 DEF NothingMissed, history
  <2>5. Phases'
    BY <2>1, WatchedNotEmpty DEF IInv, Phases
  <2>6. OnlyDelivered' /\ NoReturn' /\ GoneStaysGone' /\ Announcements' /\ Shutdown'
    BY <2>1, <2>3 DEF IInv, OnlyDelivered, NoReturn, GoneStaysGone, Announcements, Shutdown, control
  <2> QED
    BY <1>0, <2>4, <2>5, <2>6 DEF IInv
<1>11. CASE Stop
  <2>1. /\ Present' = Present /\ Delivered' = Delivered
        /\ UNCHANGED <<download, new, mails, firstUpdate, main, history>>
        /\ pc = "pause"
        /\ pc' = "stopped"
        /\ stopSignal > 0
        /\ stopSignal' = stopSignal - 1
    BY <1>11, SameMailbox DEF Stop, state
  <2> QED
    BY <1>0, <2>1 DEF IInv, OnlyDelivered, Phases, NothingMissed, NoReturn, GoneStaysGone,
       Announcements, Shutdown, TypeOK, download, history
<1>12. CASE MainTask
  <2>1. /\ Present' = Present /\ Delivered' = Delivered
        /\ UNCHANGED <<download, new, mails, firstUpdate, history>>
        /\ pc' = pc \/ pc' = "dropped"
    BY <1>12, SameMailbox DEF MainTask, Signalled, ServerFails, SendStop, JoinBackground, state
  <2>2. UNCHANGED <<Owed, Current>>
    BY <2>1 DEF Owed, Current, download, history
  <2>3. Shutdown'
    BY <1>12, <1>0 DEF MainTask, Signalled, ServerFails, SendStop, JoinBackground, IInv, Shutdown,
       TypeOK
  <2> QED
    BY <1>0, <2>1, <2>2, <2>3 DEF IInv, OnlyDelivered, Phases, NothingMissed, NoReturn, GoneStaysGone,
       Announcements, download, history
<1>13. CASE UNCHANGED vars
  <2>1. UNCHANGED <<Present, Delivered, Owed, Current>>
    BY <1>13, SameMailbox DEF vars, Owed, Current, download, state, history
  <2> QED
    BY <1>0, <1>13, <2>1 DEF IInv, OnlyDelivered, Phases, NothingMissed, NoReturn, GoneStaysGone,
       Announcements, Shutdown, vars, download, state, control, history
<1> QED
  BY <1>1, <1>2, <1>2a, <1>3, <1>4, <1>5, <1>6, <1>7, <1>8, <1>9, <1>10, <1>11, <1>12, <1>13
     DEF Next, BackgroundTask

(* The invariant holds in every reachable state. *)
LEMMA Invariance == Spec => []IInv
BY InvInit, InvStep, PTL DEF Spec

-----------------------------------------------------------------------------
(***************************************************************************)
(* The properties of the update cycle.                                     *)
(***************************************************************************)
(* For no mail is the web hook called twice, in any run of any length: a   *)
(* mail that is not in AppState but was announced is gone for good.        *)
THEOREM NoMailIsAnnouncedTwice == Spec => []HookAtMostOnce
<1>1. IInv => HookAtMostOnce
  BY DEF IInv, Announcements, HookAtMostOnce
<1> QED
  BY <1>1, Invariance, PTL

(* The web hook is never called for a mail of the first successful update. *)
THEOREM KnownMailsAreNotAnnounced == Spec => []BaselineNotAnnounced
<1>1. IInv => BaselineNotAnnounced
  <2> SUFFICES ASSUME IInv, NEW id \in baseline PROVE attempts[id] = 0
    BY DEF BaselineNotAnnounced
  <2>1. id \in MailId /\ attempts[id] \in Nat
    BY DEF IInv, TypeOK
  <2>2. ~(attempts[id] > 0)
    BY <2>1 DEF IInv, Announcements
  <2> QED
    BY <2>1, <2>2
<1> QED
  BY <1>1, Invariance, PTL

(* The web hook always finds the details of the mail it is called for. *)
THEOREM HookDetailsExist == Spec => []HookFindsMail
<1>1. IInv => HookFindsMail
  BY DEF IInv, Announcements, HookFindsMail
<1> QED
  BY <1>1, Invariance, PTL

(* If every subject can be decoded, main never fails to send the stop      *)
(* signal or to join the background task.                                  *)
THEOREM StopSignalIsDelivered ==
    ASSUME Undecodable = {}
    PROVE  Spec => []StopIsHeard
<1>1. IInv => StopIsHeard
  BY DEF IInv, Shutdown, StopIsHeard
<1> QED
  BY <1>1, Invariance, PTL

(* No step changes AppState's mails but the publication of an update, and  *)
(* that one is right after all folders were downloaded.                    *)
LEMMA OnlyPublishChangesMails ==
    ASSUME [Next]_vars
    PROVE  UNCHANGED mails \/ Publish
BY DEF Next, vars, Environment, BackgroundTask, MainTask, Deliver, Expunge, GoUpOrDown, ListFolder,
   ListingPanics, FetchChunk, FolderDone, FetchFails, StartHook, HookReturns, Schedule, StartUpdate, Stop,
   Signalled, ServerFails, SendStop, JoinBackground, state

(* An update publishes every mail that is present and owed. *)
LEMMA PublishPaysWhatIsOwed ==
    ASSUME IInv, Publish
    PROVE  /\ mails' = gathered
           /\ Owed \cap Present \subseteq DOMAIN gathered
           /\ goneAtStart \cap DOMAIN gathered = {}
BY DEF IInv, Publish, Phases, NothingMissed, GoneStaysGone

(* A shown mail stays visible as long as it stays in its folder: no        *)
(* interleaving of arrivals, removals, failures and downloads makes an     *)
(* update drop it.                                                         *)
THEOREM ShownMailsStayVisible == Spec => StaysVisible
<1>1. IInv /\ [Next]_vars =>
        [\A id \in DOMAIN mails : id \in Present => id \in DOMAIN mails']_vars
  BY OnlyPublishChangesMails, PublishPaysWhatIsOwed DEF Owed
<1> QED
  BY <1>1, Invariance, PTL DEF Spec, StaysVisible

(* Publish is the only step from "publish" on to the web hook or the pause. *)
LEMMA PublishingIsPublish ==
    ASSUME [Next]_vars, Publishing
    PROVE  Publish
BY DEF Publishing, Next, vars, Environment, BackgroundTask, MainTask, Deliver, Expunge, GoUpOrDown,
   ListFolder, ListingPanics, FetchChunk, FolderDone, FetchFails, CannotFetch, StartHook, HookReturns, Schedule,
   StartUpdate, Stop, Signalled, ServerFails, SendStop, JoinBackground

(* A published update contains every mail that was present throughout. *)
THEOREM UpdatesAreComplete == Spec => UpdateIsComplete
<1>1. IInv /\ [Next]_vars =>
        [Publishing => (atStart \cap Present) \subseteq DOMAIN mails']_vars
  BY PublishingIsPublish, PublishPaysWhatIsOwed DEF Owed
<1> QED
  BY <1>1, Invariance, PTL DEF Spec, UpdateIsComplete

(* A published update contains no mail that was gone before it began. *)
THEOREM UpdatesAreCurrent == Spec => UpdateIsCurrent
<1>1. IInv /\ [Next]_vars =>
        [Publishing => DOMAIN mails' \cap goneAtStart = {}]_vars
  BY PublishingIsPublish, PublishPaysWhatIsOwed
<1> QED
  BY <1>1, Invariance, PTL DEF Spec, UpdateIsCurrent

-----------------------------------------------------------------------------
(***************************************************************************)
(* The update cycle implements MailWatch.                                  *)
(***************************************************************************)
(* The initial states of the cycle are initial states of MailWatch. *)
LEMMA RefinesInit == Init => Watch!WatchInit
<1> SUFFICES ASSUME Init PROVE Watch!WatchInit
  OBVIOUS
<1>1. Present \subseteq Delivered /\ Delivered \subseteq MailId
  BY InvInit DEF IInv, OnlyDelivered, Delivered
<1>2. DOMAIN mails = {}
  BY NoMailsType DEF Init
<1>3. {id \in MailId : attempts[id] > 0} = {}
  BY DEF Init
<1> QED
  BY <1>1, <1>2, <1>3 DEF Watch!WatchInit, Init

(* Publication is a refresh of MailWatch: what it shows was delivered,     *)
(* keeps what is still present, and brings nothing back.                   *)
LEMMA PublishRefreshes ==
    ASSUME IInv, Publish
    PROVE  Watch!Refresh
<1>1. /\ Present' = Present /\ Delivered' = Delivered
      /\ UNCHANGED attempts
      /\ pc = "publish"
      /\ mails' = gathered
      /\ firstUpdate' = FALSE
      /\ new' = IF WebHook THEN NewMails ELSE {}
      /\ seen' = seen \cup DOMAIN gathered
  BY SameMailbox DEF Publish
<1>2. new = {}
  BY <1>1 DEF IInv, Phases
<1>3. DOMAIN gathered \in SUBSET Delivered
  BY DEF IInv, OnlyDelivered
<1>4. DOMAIN mails \cap Present \subseteq DOMAIN gathered
  BY PublishPaysWhatIsOwed DEF Owed
<1>5. (DOMAIN gathered \ DOMAIN mails) \cap seen = {}
  BY DEF IInv, NoReturn
<1>6. new' = IF ~firstUpdate /\ WebHook THEN DOMAIN gathered \ DOMAIN mails ELSE {}
  BY <1>1 DEF NewMails
<1> QED
  BY <1>1, <1>2, <1>3, <1>4, <1>5, <1>6 DEF Watch!Refresh

(* Starting the web hook for a mail is an announcement of MailWatch. *)
LEMMA HookAnnounces ==
    ASSUME IInv, StartHook
    PROVE  Watch!Announce
<1>1. PICK id \in new :
        /\ new' = new \ {id}
        /\ IF id \in DOMAIN mails
           THEN attempts' = [attempts EXCEPT ![id] = @ + 1]
           ELSE UNCHANGED attempts
  BY DEF StartHook
<1>2. /\ id \in MailId /\ id \in DOMAIN mails
      /\ attempts \in [MailId -> Nat]
      /\ ~(attempts[id] > 0)
  BY <1>1 DEF IInv, TypeOK, Announcements
<1>3. attempts' = [attempts EXCEPT ![id] = @ + 1]
  BY <1>1, <1>2
<1>4. id \in new \ {i \in MailId : attempts[i] > 0}
  BY <1>1, <1>2
<1>5. {i \in MailId : attempts'[i] > 0} = {i \in MailId : attempts[i] > 0} \cup {id}
  BY <1>2, <1>3
<1>6. Present' = Present /\ Delivered' = Delivered /\ UNCHANGED <<mails, firstUpdate, seen>>
  BY SameMailbox DEF StartHook, state
<1> QED
  BY <1>1, <1>4, <1>5, <1>6 DEF Watch!Announce

(* The server's steps are arrivals, departures or nothing to MailWatch. *)
LEMMA EnvironmentWatched ==
    ASSUME IInv, Environment
    PROVE  Watch!Arrive \/ Watch!Leave \/ UNCHANGED Watch!watchVars
<1>0. TypeOK /\ UNCHANGED <<new, mails, firstUpdate, seen, attempts>>
  BY DEF IInv, Environment, Deliver, Expunge, GoUpOrDown, state, history
<1>1. CASE Deliver
  <2>1. PICK f \in Watched :
          /\ uidNext[f] <= MaxUid
          /\ box' = [box EXCEPT ![f] = @ \cup {uidNext[f]}]
          /\ uidNext' = [uidNext EXCEPT ![f] = @ + 1]
    BY <1>1 DEF Deliver
  <2> DEFINE id == [folder |-> f, uid |-> uidNext[f]]
  <2>2. uidNext[f] \in Uid /\ id \in MailId
    BY <2>1, <1>0, ConfigAssumption DEF TypeOK, Uid, MailId
  <2>3. \A i \in MailId : i.folder \in Watched /\ i.uid \in Nat /\ uidNext[i.folder] \in Nat
    BY <1>0, ConfigAssumption DEF TypeOK, Uid, MailId
  <2>4. \A i \in MailId : i = id <=> i.folder = f /\ i.uid = uidNext[f]
    BY <2>2 DEF MailId
  <2>5. Delivered' = Delivered \cup {id}
    BY <2>1, <2>2, <2>3, <2>4, <1>0 DEF Delivered, TypeOK
  <2>6. Present' = Present \cup {id}
    BY <2>1, <2>2, <2>3, <2>4, <1>0, PresentIs DEF TypeOK
  <2>7. id \notin Delivered
    BY <2>1, <2>2, <2>3 DEF Delivered
  <2>8. Watch!Arrive
    BY <1>0, <2>2, <2>5, <2>6, <2>7 DEF Watch!Arrive
  <2> QED
    BY <2>8
<1>2. CASE Expunge
  <2>1. PICK f \in Watched, u \in Uid :
          /\ u \in box[f]
          /\ box' = [box EXCEPT ![f] = @ \ {u}]
          /\ UNCHANGED uidNext
    BY <1>2, <1>0 DEF Expunge, TypeOK
  <2> DEFINE id == [folder |-> f, uid |-> u]
  <2>2. id \in Present
    BY <2>1, <1>0, PresentIs DEF TypeOK, MailId
  <2>3. \A i \in MailId : i = id <=> i.folder = f /\ i.uid = u
    BY DEF MailId
  <2>4. Present' = Present \ {id} /\ Delivered' = Delivered
    BY <2>1, <2>3, <1>0, PresentIs DEF TypeOK, Delivered, MailId
  <2>5. Watch!Leave
    BY <1>0, <2>2, <2>4 DEF Watch!Leave
  <2> QED
    BY <2>5
<1>3. CASE GoUpOrDown
  <2>1. Present' = Present /\ Delivered' = Delivered
    BY <1>3, PresentIs DEF GoUpOrDown, Delivered
  <2> QED
    BY <1>0, <2>1 DEF Watch!watchVars
<1> QED
  BY <1>1, <1>2, <1>3 DEF Environment

(* Every run of the update cycle is a run of MailWatch. *)
THEOREM CycleImplementsMailWatch == Spec => ImplementsMailWatch
<1>1. IInv /\ [Next]_vars => [Watch!WatchNext]_(Watch!watchVars)
  <2> SUFFICES ASSUME IInv, [Next]_vars PROVE [Watch!WatchNext]_(Watch!watchVars)
    OBVIOUS
  <2>1. CASE Environment
    BY <2>1, EnvironmentWatched DEF Watch!WatchNext
  <2>2. CASE Publish
    BY <2>2, PublishRefreshes DEF Watch!WatchNext
  <2>3. CASE StartHook
    BY <2>3, HookAnnounces DEF Watch!WatchNext
  <2>4. CASE UNCHANGED <<server, new, mails, firstUpdate, seen, attempts>>
    BY <2>4, SameMailbox DEF Watch!watchVars
  <2>5. [Next]_vars =>
          Environment \/ Publish \/ StartHook \/ UNCHANGED <<server, new, mails, firstUpdate, seen, attempts>>
    BY DEF Next, vars, BackgroundTask, MainTask, ListFolder, ListingPanics, FetchChunk, FolderDone, FetchFails,
       HookReturns, Schedule, StartUpdate, Stop, Signalled, ServerFails, SendStop, JoinBackground,
       state, history
  <2> QED
    BY <2>1, <2>2, <2>3, <2>4, <2>5
<1> QED
  BY <1>1, RefinesInit, Invariance, PTL DEF Spec, ImplementsMailWatch, Watch!WatchSpec
=============================================================================
