----------------------------- MODULE AuditPages -----------------------------
(***************************************************************************)
(* The administrators' page of the audit log                               *)
(* (admin/frontend/src/lib/audit-log-view.ts and the script of             *)
(* pages/security/audit.astro): the URL holds the investigation, and       *)
(* answers to one that was left may still come.  Behind it a log that      *)
(* grows while listAdminAuditLogs selects and counts in two statements     *)
(* (db/admin-audit-logs.ts).                                               *)
(*                                                                         *)
(* The log is the number of entries each filter selects, those of one kind *)
(* or everything; a page is the number of its rows.                        *)
(***************************************************************************)
EXTENDS Integers

CONSTANTS
  Filter, Everything,
  Fetch,        \* slots for requests of the page
  PageSize,     \* AUDIT_PAGE_SIZE
  MaxEntries    \* bound on the entries of each kind

\* Assumed by the modules that give the constants values
AuditAssumption ==
  /\ Everything \notin Filter /\ "nothing" \notin Fetch
  /\ PageSize \in Nat \ {0} /\ MaxEntries \in Nat

VARIABLES
  entries,      \* in admin_audit_logs, that each filter selects
  url,
  invalid,      \* invalidParams: the last form was malformed
  fetch,
  newestFetch,  \* sequence; Nothing when none is pending
  view          \* what the page shows

auditVars == <<entries, url, invalid, fetch, newestFetch, view>>

Nothing == "nothing"
Unread == -1
Offset == {n * PageSize : n \in 0..MaxEntries}
Investigation == [filter : Filter \cup {Everything}, offset : Offset]
\* torn: an entry was written between the statements
Spare == [pc |-> "spare", of |-> [filter |-> Everything, offset |-> 0],
          rows |-> Unread, total |-> Unread, torn |-> FALSE]
Blank == [is |-> "blank", by |-> Spare]

AuditInit ==
  /\ entries = [f \in Filter \cup {Everything} |-> 0]
  /\ url = Spare.of /\ invalid = FALSE
  /\ fetch = [x \in Fetch |-> Spare] /\ newestFetch = Nothing
  /\ view = Blank

Selects(f, kind) == f \in {Everything, kind}
Count(f) == entries[f]
OnPage(total, offset) ==
  IF total <= offset THEN 0 ELSE IF total - offset > PageSize THEN PageSize ELSE total - offset

\* load
Load(x, investigation) ==
  /\ fetch[x].pc = "spare" \/ x = newestFetch
  /\ newestFetch' = x /\ view' = Blank
  /\ fetch' = [fetch EXCEPT ![x] = [Spare EXCEPT !.pc = "asked", !.of = investigation]]

\* navigate: nothing happens to a URL whose load is pending
Navigate(x, investigation) ==
  /\ url' = investigation /\ invalid' = FALSE
  /\ IF newestFetch # Nothing /\ investigation = url
     THEN UNCHANGED <<fetch, newestFetch, view>>
     ELSE Load(x, investigation)
  /\ UNCHANGED entries

---------------------------------------------------------------------------
(* Events of the page.                                                     *)

OpenAudit(x) ==
  /\ view = Blank /\ newestFetch = Nothing
  /\ Load(x, url) /\ UNCHANGED <<entries, url, invalid>>

Submit(x, f) == Navigate(x, [filter |-> f, offset |-> 0])

\* The form stays the investigation; what is under way is given up.
SubmitMalformed ==
  /\ invalid' = TRUE /\ newestFetch' = Nothing /\ view' = [Blank EXCEPT !.is = "malformed"]
  /\ UNCHANGED <<entries, url, fetch>>

RetryAudit(x) ==
  /\ newestFetch = Nothing /\ view.is # "blank" /\ ~invalid
  /\ Load(x, url) /\ UNCHANGED <<entries, url, invalid>>

TurnPage(x, offset) ==
  /\ view.is = "rows" /\ offset \in Offset
  /\ \/ url.offset > 0 /\ offset = url.offset - PageSize
     \/ url.offset + PageSize < view.by.total /\ offset = url.offset + PageSize
  /\ Navigate(x, [url EXCEPT !.offset = offset])

\* popstate: to any investigation, a superset of those in the history
GoBack(x, investigation) ==
  /\ url' = investigation /\ invalid' = FALSE
  /\ Load(x, investigation) /\ UNCHANGED entries

---------------------------------------------------------------------------
(* Answers.                                                                *)

\* The two statements of listAdminAuditLogs, in any order
SelectEntries(x) ==
  LET q == fetch[x] IN
  /\ q.pc = "asked" /\ q.rows = Unread
  /\ fetch' = [fetch EXCEPT ![x].rows = OnPage(Count(q.of.filter), q.of.offset)]
  /\ UNCHANGED <<entries, url, invalid, newestFetch, view>>

CountEntries(x) ==
  LET q == fetch[x] IN
  /\ q.pc = "asked" /\ q.total = Unread
  /\ fetch' = [fetch EXCEPT ![x].total = Count(q.of.filter)]
  /\ UNCHANGED <<entries, url, invalid, newestFetch, view>>

Read(q) == q.rows # Unread /\ q.total # Unread

Outdated_Never(x) == newestFetch = Nothing
Outdated(x) == x # newestFetch

Discard(x) ==
  /\ fetch[x].pc = "asked" /\ Outdated(x)
  /\ fetch' = [fetch EXCEPT ![x] = Spare]
  /\ UNCHANGED <<entries, url, invalid, newestFetch, view>>

Settle(x, is) ==
  /\ view' = [is |-> is, by |-> fetch[x]]
  /\ newestFetch' = Nothing /\ fetch' = [fetch EXCEPT ![x] = Spare]
  /\ UNCHANGED <<entries, url, invalid>>

\* readAuditPage: the rows are as many as the total leaves for the page
Consistent(q) == q.rows = OnPage(q.total, q.of.offset)
PastTheEnd(q) == q.of.offset > 0 /\ q.of.offset >= q.total

ShowRows(x) ==
  LET q == fetch[x] IN
  /\ q.pc = "asked" /\ Read(q) /\ ~Outdated(x) /\ Consistent(q) /\ ~PastTheEnd(q)
  /\ Settle(x, "rows")

RefusePage(x) ==
  LET q == fetch[x] IN
  /\ q.pc = "asked" /\ Read(q) /\ ~Outdated(x) /\ ~Consistent(q)
  /\ Settle(x, "refused")

\* The last page of what there is replaces the URL.
LastPage(total) == IF total = 0 THEN 0 ELSE ((total - 1) \div PageSize) * PageSize
GoToLastPage(x) ==
  LET q == fetch[x] IN
  /\ q.pc = "asked" /\ Read(q) /\ ~Outdated(x) /\ Consistent(q) /\ PastTheEnd(q)
  /\ url' = [q.of EXCEPT !.offset = LastPage(q.total)] /\ invalid' = FALSE
  /\ Load(x, [q.of EXCEPT !.offset = LastPage(q.total)]) /\ UNCHANGED entries

FailFetch(x) ==
  /\ fetch[x].pc = "asked" /\ ~Outdated(x)
  /\ Settle(x, "failed")

\* createAdminAuditLog
WriteEntry(kind) ==
  /\ entries[kind] < MaxEntries
  /\ entries' = [f \in Filter \cup {Everything} |->
                   IF Selects(f, kind) THEN entries[f] + 1 ELSE entries[f]]
  /\ fetch' = [x \in Fetch |->
       [fetch[x] EXCEPT !.torn = @ \/ (fetch[x].rows = Unread) # (fetch[x].total = Unread)]]
  /\ UNCHANGED <<url, invalid, newestFetch, view>>

AuditNext ==
  \/ \E x \in Fetch :
       \/ OpenAudit(x) \/ RetryAudit(x)
       \/ \E f \in Filter \cup {Everything} : Submit(x, f)
       \/ \E offset \in Offset : TurnPage(x, offset)
       \/ \E investigation \in Investigation : GoBack(x, investigation)
       \/ SelectEntries(x) \/ CountEntries(x) \/ Discard(x)
       \/ ShowRows(x) \/ RefusePage(x) \/ GoToLastPage(x) \/ FailFetch(x)
  \/ SubmitMalformed
  \/ \E kind \in Filter : WriteEntry(kind)

AuditSpec == AuditInit /\ [][AuditNext]_auditVars

---------------------------------------------------------------------------
(* Properties.                                                             *)

AuditTypeOK ==
  /\ entries \in [Filter \cup {Everything} -> Nat] /\ \A f \in Filter : entries[f] <= MaxEntries
  /\ url \in Investigation /\ invalid \in BOOLEAN
  /\ newestFetch \in Fetch \cup {Nothing}
  /\ view.is \in {"blank", "malformed", "rows", "refused", "failed"}
  /\ \A x \in Fetch : fetch[x].pc \in {"spare", "asked"} /\ fetch[x].of \in Investigation

\* Rows on the page are those of the URL, never of an investigation that was left or
\* that a malformed form was meant to narrow; and the page refuses an answer only if
\* an entry was written between the two statements behind it.
ShowsInvestigation ==
  /\ view.is = "rows" => view.by.of = url /\ ~invalid
  /\ view.is = "refused" => view.by.torn
=============================================================================
