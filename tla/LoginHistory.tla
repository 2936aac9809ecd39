---------------------------- MODULE LoginHistory ----------------------------
(***************************************************************************)
(* The page that lists a user's logins                                     *)
(* (user/frontend/src/lib/login-history-loader.ts): one filter, a list     *)
(* that grows page by page, and answers that come when the filter may be   *)
(* another one; with the query behind it (getLoginEventsByUserId), which   *)
(* counts its offset from the newest login of the moment.                  *)
(*                                                                         *)
(* A load is a slot: request numbers are compared only with the latest     *)
(* one, which is the slot in latest.  An aborted request may have been     *)
(* answered before, and settles all the same.                              *)
(***************************************************************************)
EXTENDS Integers, Sequences

CONSTANTS
  Provider,
  Every,        \* the filter that selects all providers
  Load,         \* slots for requests of the page
  PageSize,
  MaxLogins     \* bound on the number of logins

\* Assumed by the modules that give the constants values
HistoryAssumption ==
  /\ Every \notin Provider /\ "none" \notin Provider \cup {Every} \cup Load
  /\ PageSize \in Nat \ {0} /\ MaxLogins \in Nat

VARIABLES
  logins,       \* login_events of the user that each filter selects, newest first
  filter,       \* providerFilter.value
  load,         \* what each slot has asked and been answered
  latest,       \* requestId; None before the first load and after an answer to it
  shown,        \* accumulated, of which offset is the length
  more,         \* hasMore
  failed,       \* failedReset: "no", or the kind of load that failed
  requested,    \* requestedProvider
  restored,     \* the timer of pageshow is to come
  moved,        \* history: a login was recorded since the first page was asked for
  hasty         \* history: a further page was since asked for before that timer

historyVars == <<logins, filter, load, latest, shown, more, failed, requested, restored, moved, hasty>>

None == "none"
Filter == Provider \cup {Every}
Kind == {"reset", "more"}
Unasked == [pc |-> "free", kind |-> "reset", filter |-> Every, offset |-> 0, rows |-> <<>>]

HistoryInit ==
  /\ logins = [f \in Filter |-> <<>>]
  /\ filter = Every /\ load = [l \in Load |-> Unasked] /\ latest = None
  /\ shown = <<>> /\ more = TRUE /\ failed = "no" /\ requested = None
  /\ restored = FALSE /\ moved = FALSE /\ hasty = FALSE

\* SELECT ... ORDER BY created_at DESC, id DESC LIMIT ? OFFSET ?
Selects(f, e) == f \in {Every, e.provider}
Rest(f, offset) == SubSeq(logins[f], offset + 1, Len(logins[f]))
Query(f, offset) ==
  LET rest == Rest(f, offset) IN
  IF Len(rest) > PageSize THEN SubSeq(rest, 1, PageSize) ELSE rest

pending == latest # None
Status == <<more, failed, requested, moved, hasty>>

\* loadPage, up to its request; f is the value of the filter at that moment
LoadPage(l, kind, f) ==
  /\ load[l].pc = "free" \/ l = latest
  /\ latest' = l /\ failed' = "no" /\ requested' = f
  /\ load' = [load EXCEPT ![l] = [pc |-> "asked", kind |-> kind, filter |-> f,
                                  offset |-> IF kind = "reset" THEN 0 ELSE Len(shown), rows |-> <<>>]]
  /\ IF kind = "reset" THEN shown' = <<>> /\ more' = TRUE /\ moved' = FALSE /\ hasty' = FALSE
     ELSE hasty' = (hasty \/ f # requested) /\ UNCHANGED <<shown, more, moved>>
  /\ UNCHANGED logins

---------------------------------------------------------------------------
(* Events of the page.                                                     *)

OpenPage(l) == requested = None /\ LoadPage(l, "reset", filter) /\ UNCHANGED <<filter, restored>>

ChangeFilter(l, f) ==
  /\ requested # None /\ f # filter /\ load[l].pc = "free"
  /\ filter' = f /\ LoadPage(l, "reset", f) /\ UNCHANGED restored

\* The button is there when there is more and nothing failed.
LoadMore(l) ==
  /\ requested # None /\ ~pending /\ more /\ failed = "no" /\ shown # <<>>
  /\ LoadPage(l, "more", filter) /\ UNCHANGED <<filter, restored>>

Retry(l) ==
  /\ ~pending /\ failed # "no"
  /\ LoadPage(l, failed, filter) /\ UNCHANGED <<filter, restored>>

\* The browser restores the value of the filter without a change event, and its
\* pageshow has set a timer.
RestoreFilter(f) ==
  /\ f # filter /\ filter' = f /\ restored' = TRUE
  /\ UNCHANGED <<logins, load, latest, shown, Status>>

Reconcile(l) ==
  /\ restored /\ restored' = FALSE
  /\ IF requested # None /\ filter # requested
     THEN load[l].pc = "free" /\ LoadPage(l, "reset", filter)
     ELSE UNCHANGED <<logins, load, latest, shown, Status>>
  /\ UNCHANGED filter

---------------------------------------------------------------------------
(* Answers.                                                                *)

AnswerLoad(l) ==
  /\ load[l].pc = "asked"
  /\ load' = [load EXCEPT ![l].pc = "answered", ![l].rows = Query(load[l].filter, load[l].offset)]
  /\ UNCHANGED <<logins, filter, latest, shown, Status, restored>>

Free(l) == load' = [load EXCEPT ![l] = Unasked]

\* id !== requestId
Superseded_Never(l) == latest = None
Superseded(l) == l # latest

Ignore(l) ==
  /\ load[l].pc # "free" /\ Superseded(l) /\ Free(l)
  /\ UNCHANGED <<logins, filter, latest, shown, Status, restored>>

\* The answer, or the failure, is for a filter that is no longer set.
AskAgain(l) ==
  /\ load[l].pc # "free" /\ ~Superseded(l) /\ load[l].filter # filter
  /\ LoadPage(l, "reset", filter) /\ UNCHANGED <<filter, restored>>

Show(l) ==
  /\ load[l].pc = "answered" /\ ~Superseded(l) /\ load[l].filter = filter
  /\ shown' = shown \o load[l].rows
  /\ more' = (Len(load[l].rows) = PageSize)
  /\ latest' = None /\ Free(l)
  /\ UNCHANGED <<logins, filter, failed, requested, moved, hasty, restored>>

Fail(l) ==
  /\ load[l].pc # "free" /\ ~Superseded(l) /\ load[l].filter = filter
  /\ failed' = load[l].kind /\ latest' = None /\ Free(l)
  /\ UNCHANGED <<logins, filter, shown, more, requested, moved, hasty, restored>>

\* insertLoginEvent
RecordLogin(p) ==
  LET e == [id |-> Len(logins[Every]) + 1, provider |-> p] IN
  /\ Len(logins[Every]) < MaxLogins
  /\ logins' = [f \in Filter |-> IF Selects(f, e) THEN <<e>> \o logins[f] ELSE logins[f]]
  /\ moved' = TRUE
  /\ UNCHANGED <<filter, load, latest, shown, more, failed, requested, hasty, restored>>

HistoryNext ==
  \/ \E l \in Load :
       \/ OpenPage(l) \/ LoadMore(l) \/ Retry(l) \/ Reconcile(l)
       \/ \E f \in Filter : ChangeFilter(l, f)
       \/ AnswerLoad(l) \/ Ignore(l) \/ AskAgain(l) \/ Show(l) \/ Fail(l)
  \/ \E f \in Filter : RestoreFilter(f)
  \/ \E p \in Provider : RecordLogin(p)

HistorySpec == HistoryInit /\ [][HistoryNext]_historyVars

---------------------------------------------------------------------------
(* Properties.                                                             *)

HistoryTypeOK ==
  /\ filter \in Filter /\ requested \in Filter \cup {None}
  /\ latest \in Load \cup {None} /\ failed \in Kind \cup {"no"}
  /\ \A l \in Load : load[l].pc \in {"free", "asked", "answered"} /\ load[l].kind \in Kind
  /\ {more, restored, moved, hasty} \subseteq BOOLEAN
  /\ Len(logins[Every]) <= MaxLogins

\* At rest the list is for the filter that is set, however often it was changed
\* while answers were on their way; and it is the first logins of that filter, none
\* twice and none left out, unless somebody logged in between two pages.  (A further
\* page asked for between a restored filter and the timer that notices it goes below
\* the list of the other filter.)
ShowsFilter ==
  /\ requested # None /\ ~pending /\ ~restored => requested = filter
  /\ ~hasty => \A i \in 1..Len(shown) : Selects(requested, shown[i])
  /\ requested # None /\ ~moved /\ ~hasty => shown = SubSeq(logins[requested], 1, Len(shown))
=============================================================================
