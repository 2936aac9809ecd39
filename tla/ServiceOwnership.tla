-------------------------- MODULE ServiceOwnership --------------------------
(***************************************************************************)
(* Deleting users, and what holds on to them: services and resource        *)
(* servers, whose owner_user_id is a foreign key without a cascade, and    *)
(* sessions, of which only those of MCP are in a table without a foreign   *)
(* key (routes/users/_shared.ts, routes/services, routes/resources.ts,     *)
(* mcp/transport.ts; the MCP worker's tools do the same).                  *)
(*                                                                         *)
(* A deletion is one statement after another in a handler's slot; services *)
(* and resource servers are created, transferred and deleted meanwhile by  *)
(* handlers that looked something up before their statement.               *)
(***************************************************************************)

CONSTANTS
  User,
  Service,
  Resource,     \* resource servers
  Operation     \* slots for handlers

\* Assumed by the modules that give the constants values
OwnershipAssumption == "nobody" \notin User

VARIABLES
  account,      \* users with a row
  ownedBy,      \* of each service, Nobody when there is no such service
  heldBy,       \* of each resource server
  session,      \* pairs of a user and a kind of session that is active
  work,         \* of each handler
  late          \* history: users who began an MCP session after a deletion had ended them

ownerVars == <<account, ownedBy, heldBy, session, work, late>>

Nobody == "nobody"
SessionKind == {"token", "bff", "mcp"}
Step == {"rest", "count", "token", "bff", "mcp", "row", "own", "hold", "transfer", "visit"}
\* gained: a service or resource server was given to the user since the handler began
AtRest == [step |-> "rest", user |-> Nobody, thing |-> Nobody, gained |-> FALSE]

OwnerInit ==
  /\ account = User /\ session = {}
  /\ ownedBy = [s \in Service |-> Nobody] /\ heldBy = [q \in Resource |-> Nobody]
  /\ work = [o \in Operation |-> AtRest]
  /\ late = {}

Take(o, step, u, thing) ==
  /\ work[o].step = "rest" /\ u \in account
  /\ work' = [work EXCEPT ![o] = [AtRest EXCEPT !.step = step, !.user = u, !.thing = thing]]
  /\ UNCHANGED <<account, ownedBy, heldBy, session, late>>

On(o, step) == work[o].step = step
Goes(o, step) == work' = [work EXCEPT ![o].step = step]
Rests(o) == work' = [work EXCEPT ![o] = AtRest]
Given(o, u) ==
  work' = [p \in Operation |->
    IF p = o THEN AtRest
    ELSE [work[p] EXCEPT !.gained = @ \/ (work[p].step # "rest" /\ work[p].user = u)]]

---------------------------------------------------------------------------
(* DELETE /api/users/:id, DELETE /api/users/me and delete_user.            *)

DeleteAccount(o, u) == Take(o, "count", u, Nobody)

OwnsNothing_Unasked(u) == TRUE
OwnsNothing(u) == \A s \in Service : ownedBy[s] # u

CountServices(o) ==
  /\ On(o, "count")
  /\ IF OwnsNothing(work[o].user) THEN Goes(o, "token") ELSE Rests(o)
  /\ UNCHANGED <<account, ownedBy, heldBy, session, late>>

\* revokeUserTokens, revokeAllBffSessionsByUserId, deleteMcpSessionsByUser
After_SkipsMcp == [token |-> "bff", bff |-> "row", mcp |-> "row"]
After == [token |-> "bff", bff |-> "mcp", mcp |-> "row"]
EndSessions(o) ==
  /\ work[o].step \in SessionKind
  /\ session' = session \ {<<work[o].user, work[o].step>>}
  /\ Goes(o, After[work[o].step])
  /\ UNCHANGED <<account, ownedBy, heldBy, late>>

Held(u) == (\E s \in Service : ownedBy[s] = u) \/ (\E q \in Resource : heldBy[q] = u)

\* DELETE FROM users, which deletes with them what is in tables that cascade; a
\* foreign key that does not cascade makes it fail, and the handler with it.
DeleteRow(o) ==
  LET u == work[o].user IN
  /\ On(o, "row") /\ Rests(o)
  /\ IF Held(u) THEN UNCHANGED <<account, session>>
     ELSE account' = account \ {u} /\ session' = session \ {<<u, "token">>, <<u, "bff">>}
  /\ UNCHANGED <<ownedBy, heldBy, late>>

---------------------------------------------------------------------------
(* Services and resource servers: the middleware or the look-up finds the  *)
(* user, then comes the statement, which fails for a user gone meanwhile.  *)

CreateService(o, u, s) == ownedBy[s] = Nobody /\ Take(o, "own", u, s)
TransferOwner(o, u, s) == ownedBy[s] # Nobody /\ Take(o, "transfer", u, s)
CreateResource(o, u, q) == heldBy[q] = Nobody /\ Take(o, "hold", u, q)

InsertService(o) ==
  LET u == work[o].user s == work[o].thing IN
  /\ On(o, "own")
  /\ IF u \in account /\ ownedBy[s] = Nobody
     THEN ownedBy' = [ownedBy EXCEPT ![s] = u] /\ Given(o, u)
     ELSE UNCHANGED ownedBy /\ Rests(o)
  /\ UNCHANGED <<account, heldBy, session, late>>

UpdateOwner(o) ==
  LET u == work[o].user s == work[o].thing IN
  /\ On(o, "transfer")
  /\ IF u \in account /\ ownedBy[s] # Nobody
     THEN ownedBy' = [ownedBy EXCEPT ![s] = u] /\ Given(o, u)
     ELSE UNCHANGED ownedBy /\ Rests(o)
  /\ UNCHANGED <<account, heldBy, session, late>>

InsertResource(o) ==
  LET u == work[o].user q == work[o].thing IN
  /\ On(o, "hold")
  /\ IF u \in account /\ heldBy[q] = Nobody
     THEN heldBy' = [heldBy EXCEPT ![q] = u]
     ELSE UNCHANGED heldBy
  /\ Rests(o)
  /\ UNCHANGED <<account, ownedBy, session, late>>

DeleteService(s) ==
  /\ ownedBy[s] # Nobody /\ ownedBy' = [ownedBy EXCEPT ![s] = Nobody]
  /\ UNCHANGED <<account, heldBy, session, work, late>>

DeleteResource(q) ==
  /\ heldBy[q] # Nobody /\ heldBy' = [heldBy EXCEPT ![q] = Nobody]
  /\ UNCHANGED <<account, ownedBy, session, work, late>>

---------------------------------------------------------------------------
(* Sessions.                                                               *)

SignIn(u) ==
  /\ u \in account
  /\ session' = session \cup {<<u, "token">>, <<u, "bff">>}
  /\ UNCHANGED <<account, ownedBy, heldBy, work, late>>

\* initialize of an administrator the middleware has admitted
Initialize(o, u) == Take(o, "visit", u, Nobody)

Swept(u) == \E p \in Operation : On(p, "row") /\ work[p].user = u

InsertMcpSession(o) ==
  LET u == work[o].user IN
  /\ On(o, "visit") /\ Rests(o)
  /\ session' = session \cup {<<u, "mcp">>}
  /\ late' = IF u \notin account \/ Swept(u) THEN late \cup {u} ELSE late
  /\ UNCHANGED <<account, ownedBy, heldBy>>

\* DELETE /mcp and the hourly clean-up
EndMcpSession(u) ==
  /\ <<u, "mcp">> \in session /\ session' = session \ {<<u, "mcp">>}
  /\ late' = late \ {u}
  /\ UNCHANGED <<account, ownedBy, heldBy, work>>

\* A statement fails, or the isolate is gone: what was done stays done.
Abandon(o) ==
  /\ ~On(o, "rest") /\ Rests(o)
  /\ UNCHANGED <<account, ownedBy, heldBy, session, late>>

OwnerNext ==
  \/ \E o \in Operation :
       \/ \E u \in User :
            \/ DeleteAccount(o, u) \/ Initialize(o, u)
            \/ \E s \in Service : CreateService(o, u, s) \/ TransferOwner(o, u, s)
            \/ \E q \in Resource : CreateResource(o, u, q)
       \/ CountServices(o) \/ EndSessions(o) \/ DeleteRow(o)
       \/ InsertService(o) \/ UpdateOwner(o) \/ InsertResource(o)
       \/ InsertMcpSession(o) \/ Abandon(o)
  \/ \E u \in User : SignIn(u) \/ EndMcpSession(u)
  \/ \E s \in Service : DeleteService(s)
  \/ \E q \in Resource : DeleteResource(q)

OwnerSpec == OwnerInit /\ [][OwnerNext]_ownerVars

---------------------------------------------------------------------------
(* Properties.                                                             *)

OwnerTypeOK ==
  /\ account \subseteq User /\ late \subseteq User
  /\ ownedBy \in [Service -> User \cup {Nobody}] /\ heldBy \in [Resource -> User \cup {Nobody}]
  /\ session \subseteq User \X SessionKind
  /\ work \in [Operation -> [step : Step, user : User \cup {Nobody},
                             thing : Service \cup Resource \cup {Nobody}, gained : BOOLEAN]]

\* A deletion ends the sessions of an account that then stays only because of a
\* resource server, which is not counted first, or of a service the user was given
\* while the deletion ran.
StayJustified ==
  \A o \in Operation : LET u == work[o].user IN
    On(o, "row") /\ Held(u) /\ work'[o].step = "rest" =>
      work[o].gained \/ \E q \in Resource : heldBy[q] = u
StaysForCause == [][StayJustified]_ownerVars

\* A user who is gone has no session, except an MCP session whose initialize
\* overlapped the deletion.
GoneHasNoSession ==
  \A u \in User \ account : \A k \in SessionKind : <<u, k>> \in session => k = "mcp" /\ u \in late
=============================================================================
