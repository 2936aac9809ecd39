---------------------------- MODULE ServiceCache ----------------------------
(***************************************************************************)
(* The in-memory cache of services in an isolate of the id worker          *)
(* (packages/shared/src/db/services.ts): look-ups by client_id that        *)
(* authenticate clients, and the requests that change the one service that *)
(* is modelled, in this isolate or elsewhere: in another isolate, whose    *)
(* cache is its own, or in the MCP worker, whose cache nothing reads.      *)
(*                                                                         *)
(* A version is the row's content from one UPDATE to the next, its secret  *)
(* among it.  A handler has two steps after its arrival: the statement,    *)
(* and what the isolate does with the answer.                              *)
(***************************************************************************)
EXTENDS Integers

CONSTANTS
  Slot,         \* slots for handlers that run at the same time
  TTL,          \* CACHE_TTL_MS
  MaxVersion,   \* bound on the number of versions
  MaxTime       \* bound on the clock

\* Assumed by the modules that give the constants values
CacheAssumption == TTL \in Nat /\ MaxVersion \in Nat \ {0} /\ MaxTime \in Nat

VARIABLES
  row,          \* the version in the table; Absent before, Gone after its life
  entry,        \* byClientId and idToClientId
  handler,
  clock,
  ended,        \* history: when a version was replaced or deleted
  knows         \* history: the last version the isolate has itself answered for

cacheVars == <<row, entry, handler, clock, ended, knows>>

Absent == 0
Gone == MaxVersion + 1
Version == 1..MaxVersion
Kind == {"find", "create", "update", "dcr", "rotate", "transfer", "delete"}
NoEntry == [version |-> Absent, until |-> 0, crossed |-> FALSE]
Resting == [pc |-> "rest", kind |-> "find", got |-> Absent, crossed |-> FALSE]

CacheInit ==
  /\ row = Absent
  /\ entry = NoEntry
  /\ handler = [r \in Slot |-> Resting]
  /\ clock = 0
  /\ ended = [v \in Version |-> 0]
  /\ knows = Absent

\* A hit of findServiceByClientId
Usable == entry.version # Absent /\ entry.until > clock

\* invalidateServiceCache before the statement, and after one that found no row
DropsFirst_NotDelete(kind) == kind \in {"rotate", "transfer"}
DropsFirst(kind) == kind \in {"rotate", "transfer", "delete"}
DropsOnNull(kind) == kind \in {"update", "transfer"}

Running(r) == handler[r].pc # "rest"
Writing == \E r \in Slot : Running(r) /\ handler[r].kind # "find"

\* Handlers of one isolate cross when they overlap and one of them writes.
Begin(r, kind) ==
  /\ ~Running(r)
  /\ handler' = [s \in Slot |->
       IF s = r THEN [pc |-> "statement", kind |-> kind, got |-> Absent, crossed |-> Writing]
       ELSE IF Running(s) THEN [handler[s] EXCEPT !.crossed = @ \/ kind # "find"]
       ELSE handler[s]]
  /\ entry' = IF DropsFirst(kind) THEN NoEntry ELSE entry
  /\ UNCHANGED <<row, clock, ended, knows>>

---------------------------------------------------------------------------
(* Arrivals.                                                               *)

\* authenticateService, resolveOAuthClient, authenticateRegistration and the device
\* endpoints; a hit changes nothing.
FindService(r) == row # Absent /\ ~Usable /\ Begin(r, "find")

\* POST /api/services
CreateService(r) == row = Absent /\ ~Writing /\ Begin(r, "create")

\* PATCH /api/services/:id, which looks for no row before it
PatchService(r) == row # Absent /\ Begin(r, "update")

\* PUT /api/register/:clientId, whose caller was found and authenticated
PutClient(r) == (Usable \/ row \in Version) /\ Begin(r, "dcr")

\* The other routes of an administrator have read the row by its id.
RotateSecret(r) == row \in Version /\ Begin(r, "rotate")
TransferOwner(r) == row \in Version /\ Begin(r, "transfer")

\* DELETE /api/services/:id and DELETE /api/register/:clientId
DeleteService(r) == (Usable \/ row \in Version) /\ Begin(r, "delete")

---------------------------------------------------------------------------
(* Statements and what follows them.                                       *)

Replace(version) ==
  /\ row' = version
  /\ ended' = IF row \in Version /\ version # row THEN [ended EXCEPT ![row] = clock] ELSE ended

Answered(r, got) ==
  handler' = [handler EXCEPT ![r].pc = "resume", ![r].got = got]

\* SELECT; INSERT; UPDATE ... RETURNING; DELETE
SelectRow(r) ==
  /\ handler[r].kind = "find"
  /\ Answered(r, IF row \in Version THEN row ELSE Gone) /\ UNCHANGED <<row, ended>>

InsertRow(r) ==
  /\ handler[r].kind = "create" /\ row = Absent
  /\ Replace(1) /\ Answered(r, 1)

UpdateRow(r) ==
  /\ handler[r].kind \in {"update", "dcr", "rotate", "transfer"} /\ row # MaxVersion
  /\ IF row \in Version THEN Replace(row + 1) /\ Answered(r, row + 1)
     ELSE UNCHANGED <<row, ended>> /\ Answered(r, Gone)

DeleteRow(r) ==
  /\ handler[r].kind = "delete"
  /\ Replace(Gone) /\ Answered(r, Gone)

Statement(r) ==
  /\ handler[r].pc = "statement"
  /\ SelectRow(r) \/ InsertRow(r) \/ UpdateRow(r) \/ DeleteRow(r)
  /\ UNCHANGED <<entry, clock, knows>>

\* cachePut
Cached(h) == [version |-> h.got, until |-> clock + TTL, crossed |-> h.crossed]

Latest(a, b) == IF a > b THEN a ELSE b

\* A PUT that found no row of a registered client answers 400 and promises nothing.
Resume(r) ==
  LET h == handler[r] IN
  /\ h.pc = "resume"
  /\ entry' = IF h.got \in Version THEN Cached(h)
               ELSE IF DropsOnNull(h.kind) THEN NoEntry ELSE entry
  /\ knows' = IF h.kind = "find" \/ (h.kind = "dcr" /\ h.got = Gone) THEN knows
               ELSE Latest(knows, h.got)
  /\ handler' = [handler EXCEPT ![r] = Resting]
  /\ UNCHANGED <<row, clock, ended>>

\* The statement fails, or its answer is lost.
Fail(r) ==
  /\ Running(r)
  /\ handler' = [handler EXCEPT ![r] = Resting]
  /\ UNCHANGED <<row, entry, clock, ended, knows>>

\* The runtime ends the isolate; another starts in its place.
Evict ==
  /\ entry' = NoEntry /\ knows' = Absent
  /\ handler' = [r \in Slot |-> Resting]
  /\ UNCHANGED <<row, clock, ended>>

---------------------------------------------------------------------------
(* Other isolates, and the tools of the MCP worker: create_service;        *)
(* update_service, rotate_service_secret, transfer_service_ownership;      *)
(* delete_service.                                                         *)

CreateTool == row = Absent /\ ~Writing /\ Replace(1)
UpdateTool == row \in Version \ {MaxVersion} /\ Replace(row + 1)
DeleteTool == row \in Version /\ Replace(Gone)

Elsewhere == (CreateTool \/ UpdateTool \/ DeleteTool) /\ UNCHANGED <<entry, handler, clock, knows>>

\* Statements are answered within one unit of the clock.
Elapse ==
  /\ clock < MaxTime /\ clock' = clock + 1
  /\ \A r \in Slot : handler[r].pc # "resume"
  /\ UNCHANGED <<row, entry, handler, ended, knows>>

CacheNext ==
  \/ \E r \in Slot :
       \/ FindService(r) \/ CreateService(r) \/ PatchService(r) \/ PutClient(r)
       \/ RotateSecret(r) \/ TransferOwner(r) \/ DeleteService(r)
       \/ Statement(r) \/ Resume(r) \/ Fail(r)
  \/ Evict \/ Elsewhere \/ Elapse

CacheSpec == CacheInit /\ [][CacheNext]_cacheVars

---------------------------------------------------------------------------
(* Properties.                                                             *)

CacheTypeOK ==
  /\ row \in Absent..Gone /\ clock \in 0..MaxTime
  /\ ended \in [Version -> 0..MaxTime]
  /\ knows \in Absent..Gone
  /\ entry \in [version : Absent..MaxVersion, until : 0..(MaxTime + TTL), crossed : BOOLEAN]
  /\ handler \in [Slot ->
       [pc : {"rest", "statement", "resume"}, kind : Kind, got : Absent..Gone, crossed : BOOLEAN]]

\* What other isolates and the MCP worker change is no longer accepted after the
\* time to live.
StaleAtMostTTL ==
  Usable /\ entry.version # row => clock < ended[entry.version] + TTL

\* What this isolate has answered for is served at once, except over what a handler
\* put there that had overlapped a change: the reader of a row that was just replaced
\* puts the old one back.
OwnWritesSeen ==
  Usable => entry.version >= knows \/ entry.crossed

\* A client that was deleted, and a secret or a scope that was replaced, are no longer
\* accepted after the cache's time to live, and no longer by the isolate that answered
\* the change unless look-ups or changes overlapped there.
CacheServesNothingOld == StaleAtMostTTL /\ OwnWritesSeen
=============================================================================
