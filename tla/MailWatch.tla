------------------------------ MODULE MailWatch ------------------------------
(***************************************************************************)
(* What the background task promises about the mails of the IMAP account,  *)
(* stated without folders, connections, chunks or failed attempts.         *)
(*                                                                         *)
(* The viewer shows a set of mails.  A refresh replaces it at once by      *)
(* another set, which still holds every mail shown before that is still in *)
(* the mailbox, and which never brings back a mail that had disappeared.   *)
(* The first refresh is the baseline: its mails are known and announced to *)
(* nobody.  Every mail that a later refresh adds is announced exactly one  *)
(* time, and all of them before the next refresh.                          *)
(***************************************************************************)
CONSTANTS MailId,         \* the identities a mail can have
          Announcing      \* a web hook is configured (a Boolean)

VARIABLES present,        \* mails that are in the mailbox
          delivered,      \* mails that are or were in the mailbox
          shown,          \* mails the viewer shows
          seen,           \* mails the viewer shows or has shown
          started,        \* TRUE once a refresh has happened
          unannounced,    \* mails of the last refresh still to be announced
          announced       \* mails that were announced

watchVars == <<present, delivered, shown, seen, started, unannounced, announced>>

WatchInit ==
    /\ delivered \in SUBSET MailId
    /\ present \in SUBSET delivered
    /\ shown = {}
    /\ seen = {}
    /\ started = FALSE
    /\ unannounced = {}
    /\ announced = {}

(* A new mail arrives: its identity was never used before. *)
Arrive ==
    \E id \in MailId \ delivered :
        /\ delivered' = delivered \cup {id}
        /\ present' = present \cup {id}
        /\ UNCHANGED <<shown, seen, started, unannounced, announced>>

(* A mail is deleted, or moved to a folder nobody watches. *)
Leave ==
    \E id \in present :
        /\ present' = present \ {id}
        /\ UNCHANGED <<delivered, shown, seen, started, unannounced, announced>>

Refresh ==
    /\ unannounced = {}
    /\ \E S \in SUBSET delivered :
        /\ shown \cap present \subseteq S
        /\ (S \ shown) \cap seen = {}
        /\ shown' = S
        /\ seen' = seen \cup S
        /\ unannounced' = IF started /\ Announcing THEN S \ shown ELSE {}
    /\ started' = TRUE
    /\ UNCHANGED <<present, delivered, announced>>

Announce ==
    \E id \in unannounced \ announced :
        /\ unannounced' = unannounced \ {id}
        /\ announced' = announced \cup {id}
        /\ UNCHANGED <<present, delivered, shown, seen, started>>

WatchNext == Arrive \/ Leave \/ Refresh \/ Announce

WatchSpec == WatchInit /\ [][WatchNext]_watchVars
=============================================================================
