---------------------------- MODULE SourcesPage ----------------------------
(***************************************************************************)
(* The page of sources in the browser (src/ui/components/sources.js).      *)
(* Each time the user follows a link to the page, with or without a        *)
(* filter, the page calls its asynchronous updateSources().  The call      *)
(* fetches the sources, shows those that the filter lets through, and then *)
(* asks for their DNS names, one chunk at a time.  JavaScript runs a call  *)
(* until it awaits an answer; then another call may go on, and all calls   *)
(* work on the same list.                                                  *)
(*                                                                         *)
(* The server may publish other reports at any time.  Its answers are      *)
(* those of ReportQueries and of the batch handler (DnsLookup): a name is  *)
(* represented by its IP, and null by NoHost.                              *)
(***************************************************************************)
EXTENDS ReportQueries, SequencesExt

CONSTANTS
    Filters,      \* query parameters of links to the page: [domain, issues, type]
    ChunkSize,    \* IPs asked for at once (100)
    MaxIpCount,   \* IPs the server accepts at once (100, http/ips.rs:53)
    MaxVisits,    \* bound on the number of calls
    NoHost

ASSUME PageAssumption ==
    /\ ChunkSize \in Nat \ {0}
    /\ MaxIpCount \in Nat
    /\ MaxVisits \in Nat \ {0}

Loading == "loading"    \* dns is undefined

VARIABLES
    params,       \* the current filter
    sources,      \* what is shown: [source, dns]
    calls,        \* the calls of updateSources: [pc, answer, offset, chunk]
    overlapped    \* history: a call began while another one was not done

page == <<params, sources, calls, overlapped>>
vars == <<published, page>>

NewCall == [pc |-> "asked", answer |-> <<>>, offset |-> 0, chunk |-> <<>>]
Ended == {"done", "thrown", "lost"}
Running == {c \in DOMAIN calls : calls[c].pc \notin Ended}

Init ==
    /\ dmarc \in SUBSET DOMAIN Dmarc
    /\ tls \in SUBSET DOMAIN Tls
    /\ params \in Filters
    /\ sources = <<>>
    /\ calls = <<NewCall>>
    /\ overlapped = FALSE

Update == Publish /\ UNCHANGED page

(* Mutant: no new call while another one is running. *)
VisitOnce ==
    /\ Len(calls) < MaxVisits
    /\ params' \in Filters \ {params}
    /\ calls' = IF Running = {} THEN Append(calls, NewCall) ELSE calls
    /\ overlapped' = (overlapped \/ Running # {})
    /\ UNCHANGED <<published, sources>>

(* Another link to the page is followed: app.js sets new params, and the   *)
(* page calls updateSources().                                             *)
Visit ==
    /\ Len(calls) < MaxVisits
    /\ params' \in Filters \ {params}
    /\ calls' = Append(calls, NewCall)
    /\ overlapped' = (overlapped \/ Running # {})
    /\ UNCHANGED <<published, sources>>

(* The handler sorts by count; which of two equal counts is first, is open. *)
SourceLists ==
    {s \in SetToSeqs(Sources) : \A i, j \in DOMAIN s : i < j => s[i].count >= s[j].count}

ServerAnswers(c) ==
    /\ calls[c].pc = "asked"
    /\ \E s \in SourceLists :
         calls' = [calls EXCEPT ![c] =
                     [pc |-> "answered", answer |-> s, offset |-> 0, chunk |-> <<>>]]
    /\ UNCHANGED <<published, params, sources, overlapped>>

(* The filter of the page.  A source has one domain only, the first.  What *)
(* the page takes from the location is not decoded (app.js:91-96), and     *)
(* not encoded for a query either: domains here have nothing to encode.    *)
Matches(s, f) ==
    /\ SameDomain(f.domain, s.domain)
    /\ f.issues # None => s.issues # {}
    /\ f.type # None => f.type \in s.types

(* The elements of a list that the filter lets through, in their order. *)
Filtered(list, f) ==
    LET kept == {i \in DOMAIN list : Matches(list[i], f)}
        places == CHOOSE p \in SetToSeqs(kept) : \A i, j \in DOMAIN p : i < j => p[i] < p[j]
    IN  [j \in DOMAIN places |-> list[places[j]]]

(* Mutant: a chunk is one too long. *)
GoOnTooFar(call, list, offset) ==
    LET chunk == [i \in 1 .. Min({ChunkSize + 1, Len(list) - offset}) |-> list[offset + i].source.ip]
    IN  IF Len(list) <= offset
        THEN [NewCall EXCEPT !.pc = "done"]
        ELSE [call EXCEPT !.pc = "names", !.answer = <<>>, !.offset = offset, !.chunk = chunk]

(* The call after it has dealt with the IPs before offset of the list:     *)
(* it asks for the next chunk, or there is none and it is done.            *)
GoOn(call, list, offset) ==
    LET chunk == [i \in 1 .. Min({ChunkSize, Len(list) - offset}) |-> list[offset + i].source.ip]
    IN  IF Len(list) <= offset
        THEN [NewCall EXCEPT !.pc = "done"]
        ELSE [call EXCEPT !.pc = "names", !.answer = <<>>, !.offset = offset, !.chunk = chunk]

(* The sources arrive.  The filter is that of the last visit, not that of  *)
(* the visit this call belongs to.                                         *)
ShowSources(c) ==
    /\ calls[c].pc = "answered"
    /\ LET shown == Filtered(calls[c].answer, params)
       IN  sources' = [i \in DOMAIN shown |-> [source |-> shown[i], dns |-> Loading]]
    /\ calls' = [calls EXCEPT ![c] = GoOn(@, sources', 0)]
    /\ UNCHANGED <<published, params, overlapped>>

(* Mutant: every chunk is stored at the beginning of the list. *)
ShowNamesAtStart(c) ==
    /\ calls[c].pc = "names"
    /\ LET chunk == calls[c].chunk
           end == calls[c].offset + Len(chunk)
       IN  \E unknown \in SUBSET Range(chunk) :
            /\ sources' = [i \in DOMAIN sources |->
                 IF i <= Len(chunk)
                 THEN [sources[i] EXCEPT !.dns = IF chunk[i] \in unknown THEN NoHost ELSE chunk[i]]
                 ELSE sources[i]]
            /\ calls' = [calls EXCEPT ![c] = GoOn(@, sources, end)]
    /\ UNCHANGED <<published, params, overlapped>>

(* The names of a chunk arrive and are stored by position, in whatever     *)
(* list is shown now.  A position that is not there throws, which ends     *)
(* the call after the positions before it were stored.  If the server      *)
(* refuses a chunk as too long, its answer is no JSON, which throws, too.  *)
ShowNames(c) ==
    /\ calls[c].pc = "names"
    /\ LET chunk == calls[c].chunk
           offset == calls[c].offset
           end == offset + Len(chunk)
           accepted == Len(chunk) <= MaxIpCount
       IN  \E unknown \in SUBSET Range(chunk) :
            /\ sources' = [i \in DOMAIN sources |->
                 IF accepted /\ i \in offset + 1 .. end
                 THEN [sources[i] EXCEPT !.dns =
                         IF chunk[i - offset] \in unknown THEN NoHost ELSE chunk[i - offset]]
                 ELSE sources[i]]
            /\ calls' = [calls EXCEPT ![c] =
                 IF accepted /\ end <= Len(sources)
                 THEN GoOn(@, sources, end)
                 ELSE [NewCall EXCEPT !.pc = "thrown"]]
    /\ UNCHANGED <<published, params, overlapped>>

(* A request fails, which throws; this may happen at any await. *)
RequestFails(c) ==
    /\ calls[c].pc \in {"asked", "answered", "names"}
    /\ calls' = [calls EXCEPT ![c] = [NewCall EXCEPT !.pc = "lost"]]
    /\ UNCHANGED <<published, params, sources, overlapped>>

Answer(c) == ServerAnswers(c) \/ ShowSources(c) \/ ShowNames(c)

Next == Update \/ Visit \/ \E c \in DOMAIN calls : Answer(c) \/ RequestFails(c)

Spec == Init /\ [][Next]_vars

(* A request is answered in the end, and the browser runs a call that can go on. *)
FairSpec == Spec /\ \A c \in 1 .. MaxVisits : WF_vars(c \in DOMAIN calls /\ Answer(c))

-----------------------------------------------------------------------------
(* What is shown obeys the filter of the last visit, once the lists of all *)
(* calls have arrived, however visits and answers overlap: it does so      *)
(* because a call looks at the filter late.                                *)
PageObeysFilter ==
    (\A c \in DOMAIN calls : calls[c].pc \in {"names", "done", "thrown"})
        => \A i \in DOMAIN sources : Matches(sources[i].source, params)

(* As long as calls do not overlap, a source is shown with its own name,   *)
(* although names are put in their place by position and in several        *)
(* chunks.                                                                 *)
UndisturbedNamesAreRight ==
    ~overlapped => \A i \in DOMAIN sources : sources[i].dns \in {Loading, NoHost, sources[i].source.ip}

(* CHANGELOG.md:65: "Added DNS hostnames to IPs in sources list".  In any  *)
(* case, a source is shown with its own name.                              *)
NamesAreRight ==
    \A i \in DOMAIN sources : sources[i].dns \in {Loading, NoHost, sources[i].source.ip}

(* Unless a request fails, no source says "loading" for ever: the call     *)
(* that was last to show a list gets names for all of it, also when calls  *)
(* overlap, and no chunk is too long for the server.                       *)
NamesArrive ==
    \/ <>(\E c \in DOMAIN calls : calls[c].pc = "lost")
    \/ <>[](\A i \in DOMAIN sources : sources[i].dns # Loading)
=============================================================================
