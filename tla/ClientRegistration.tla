------------------------- MODULE ClientRegistration -------------------------
(***************************************************************************)
(* The redirect URIs of one client that registers itself                   *)
(* (routes/register.ts, RFC 7591 and 7592): they are rows of their own,    *)
(* which POST and PUT write one by one and without a transaction, while    *)
(* administrators add and delete some (routes/services/redirect-uris.ts,   *)
(* and the tools of the MCP worker) and logins look for one                *)
(* (isValidRedirectUri).                                                   *)
(*                                                                         *)
(* A row is known by its id: the same URI deleted and added again is       *)
(* another row.  Updates of the name and the scopes are not in the state,  *)
(* only that they find the client's row or do not.                         *)
(***************************************************************************)
EXTENDS Integers

CONSTANTS
  Uri,          \* redirect URIs, normalised
  Writer,       \* slots for handlers that change rows
  MaxId         \* bound on the number of rows ever added

\* Assumed by the modules that give the constants values
RegistrationAssumption == MaxId \in Nat

VARIABLES
  registration, \* "absent", "unknown" to its registrant, "registered" or "gone"
  idOf,         \* the row of each URI; NoRow when there is none
  ids,          \* rows added so far
  writer,
  settled       \* history: the URIs an undisturbed POST or PUT has answered for

registrationVars == <<registration, idOf, ids, writer, settled>>

NoRow == 0
Id == 1..MaxId
Unsettled == {}
\* want: to be added; drop: rows to be deleted; all: the URIs asked for;
\* disturbed: another handler was at work, or one of its statements failed
Free == [pc |-> "free", want |-> {}, drop |-> {}, all |-> {}, disturbed |-> FALSE]

RegistrationInit ==
  /\ registration = "absent" /\ idOf = [u \in Uri |-> NoRow] /\ ids = 0
  /\ writer = [w \in Writer |-> Free] /\ settled = Unsettled

IsAt(w, pc) == writer[w].pc = pc
Busy == {w \in Writer : ~IsAt(w, "free")}
Present == {u \in Uri : idOf[u] # NoRow}
Exists == registration \in {"unknown", "registered"}

\* Whoever begins disturbs those at work and is disturbed by them.
Arrive(w, h) ==
  /\ IsAt(w, "free")
  /\ writer' = [v \in Writer |->
       IF v = w THEN [h EXCEPT !.disturbed = Busy # {}]
       ELSE [writer[v] EXCEPT !.disturbed = v \in Busy]]
  /\ settled' = Unsettled
  /\ UNCHANGED <<registration, idOf, ids>>

Becomes(w, h) == writer' = [writer EXCEPT ![w] = h]
Leave(w) == Becomes(w, Free)

---------------------------------------------------------------------------
(* POST and PUT /api/register.                                             *)

\* validateClientMetadata: a URI that occurs twice is taken once
PostClient(w, uris) ==
  /\ registration = "absent" /\ Busy = {} /\ uris # {}
  /\ Arrive(w, [Free EXCEPT !.pc = "insert", !.want = uris, !.all = uris])

\* authenticateRegistration: only the answer to POST tells the token.
PutClient(w, uris) ==
  /\ registration = "registered" /\ uris # {}
  /\ Arrive(w, [Free EXCEPT !.pc = "update", !.want = uris, !.all = uris])

InsertClient(w) ==
  /\ IsAt(w, "insert")
  /\ registration' = "unknown" /\ Becomes(w, [writer[w] EXCEPT !.pc = "write"])
  /\ UNCHANGED <<idOf, ids, settled>>

\* updateDcrClientFields and listRedirectUris
UpdateClient(w) ==
  /\ IsAt(w, "update")
  /\ IF Exists THEN Becomes(w, [writer[w] EXCEPT !.pc = "list"]) ELSE Leave(w)
  /\ UNCHANGED <<registration, idOf, ids, settled>>

Listed_Nothing(w) == {}
Listed(w) == {idOf[u] : u \in Present}
ListUris(w) ==
  /\ IsAt(w, "list")
  /\ Becomes(w, [writer[w] EXCEPT !.pc = "write", !.drop = Listed(w)])
  /\ UNCHANGED <<registration, idOf, ids, settled>>

\* deleteRedirectUri, for each row listed
Without(id) == [u \in Uri |-> IF idOf[u] = id THEN NoRow ELSE idOf[u]]
DeleteListed(w) ==
  /\ IsAt(w, "write")
  /\ \E id \in writer[w].drop :
       idOf' = Without(id) /\ Becomes(w, [writer[w] EXCEPT !.drop = @ \ {id}])
  /\ UNCHANGED <<registration, ids, settled>>

\* addRedirectUri, which fails for a URI the client has, or without the client
Insert(u) == ids < MaxId /\ ids' = ids + 1 /\ idOf' = [idOf EXCEPT ![u] = ids']

AddWanted(w) ==
  /\ IsAt(w, "write") /\ writer[w].drop = {}
  /\ \E u \in writer[w].want :
       IF Exists /\ u \notin Present
       THEN Insert(u) /\ Becomes(w, [writer[w] EXCEPT !.want = @ \ {u}])
       ELSE Leave(w) /\ UNCHANGED <<idOf, ids>>
  /\ UNCHANGED <<registration, settled>>

\* clientMetadataResponse
AnswerClient(w) ==
  /\ IsAt(w, "write") /\ writer[w].drop \cup writer[w].want = {}
  /\ settled' = IF writer[w].disturbed THEN settled ELSE writer[w].all
  /\ registration' = IF Exists THEN "registered" ELSE registration
  /\ Leave(w)
  /\ UNCHANGED <<idOf, ids>>

\* A statement fails and the handler answers 400, its isolate is gone, or its answer
\* is lost: what it has written stays.
FailClient(w) ==
  /\ w \in Busy /\ Leave(w)
  /\ UNCHANGED <<registration, idOf, ids, settled>>

---------------------------------------------------------------------------
(* The administrators' routes: the look-up, then the statement.            *)

AddUri(w, u) ==
  /\ Exists
  /\ Arrive(w, [Free EXCEPT !.pc = "add", !.want = {u}])

DeleteUri(w, u) ==
  /\ Exists /\ u \in Present
  /\ Arrive(w, [Free EXCEPT !.pc = "delete", !.drop = {idOf[u]}])

InsertUri(w) ==
  /\ IsAt(w, "add") /\ Leave(w)
  /\ \E u \in writer[w].want :
       IF Exists /\ u \notin Present THEN Insert(u) ELSE UNCHANGED <<idOf, ids>>
  /\ UNCHANGED <<registration, settled>>

DeleteUriRow(w) ==
  /\ IsAt(w, "delete") /\ Leave(w)
  /\ \E id \in writer[w].drop : idOf' = Without(id)
  /\ UNCHANGED <<registration, ids, settled>>

\* DELETE /api/register/:clientId and DELETE /api/services/:id; the rows go with it.
DeleteClient(w) ==
  /\ Exists
  /\ Arrive(w, [Free EXCEPT !.pc = "end"])

DeleteClientRow(w) ==
  /\ IsAt(w, "end") /\ Leave(w)
  /\ registration' = "gone" /\ idOf' = [u \in Uri |-> NoRow]
  /\ UNCHANGED <<ids, settled>>

RegistrationNext ==
  \E w \in Writer :
    \/ \E uris \in SUBSET Uri : PostClient(w, uris) \/ PutClient(w, uris)
    \/ InsertClient(w) \/ UpdateClient(w) \/ ListUris(w)
    \/ DeleteListed(w) \/ AddWanted(w) \/ AnswerClient(w) \/ FailClient(w)
    \/ \E u \in Uri : AddUri(w, u) \/ DeleteUri(w, u)
    \/ InsertUri(w) \/ DeleteUriRow(w) \/ DeleteClient(w) \/ DeleteClientRow(w)

RegistrationSpec == RegistrationInit /\ [][RegistrationNext]_registrationVars

---------------------------------------------------------------------------
(* Properties.                                                             *)

RegistrationTypeOK ==
  /\ registration \in {"absent", "unknown", "registered", "gone"} /\ ids \in 0..MaxId
  /\ idOf \in [Uri -> 0..MaxId] /\ settled \subseteq Uri
  /\ writer \in [Writer ->
       [pc : {"free", "insert", "update", "list", "write", "add", "delete", "end"},
        want : SUBSET Uri, drop : SUBSET Id, all : SUBSET Uri, disturbed : BOOLEAN]]

\* A client that was told its registration or its update is done has exactly the
\* redirect URIs it asked for, until somebody begins to change them, unless two
\* handlers were at work at the same time.
SettledIsWhatIsThere == settled # Unsettled => settled = Present
=============================================================================
