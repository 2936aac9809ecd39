--------------------------- MODULE RefreshTokens ---------------------------
(***************************************************************************)
(* Rotation and revocation of refresh tokens in the id worker.             *)
(*                                                                         *)
(* The table refresh_tokens is shared by every HTTP handler.  One SQL      *)
(* statement (or one db.batch) is atomic; a handler may be overtaken by    *)
(* any other between two statements, so a handler is a process whose       *)
(* program counter pc names the statement it runs next.  A step of a       *)
(* handler is the code from one await up to and including the next.        *)
(*                                                                         *)
(* Abstractions.  A token is its row id, its hash and its raw value at     *)
(* once (they are in bijection).  Scopes, access tokens and response texts *)
(* are left out.  The columns an UPDATE never touches are kept in col;     *)
(* revoked holds "active" for revoked_at IS NULL and otherwise the class   *)
(* of revoked_reason: the code tells "rotation" and "reuse_detected" apart *)
(* from every other reason (NULL included), which is "revoked" here.       *)
(***************************************************************************)
EXTENDS Integers

CONSTANTS
  Token,        \* values generateToken can return, each returned once
  Family,       \* values of family_id
  User,         \* users.id
  Service,      \* services.id
  Resource,     \* canonical URIs of resource servers
  Request,      \* slots for handlers that run at the same time
  NONE,         \* SQL NULL
  Kind,         \* the entry points that clients call (see EntryPoint)
  Admin,        \* the operations that run besides them (see AdminOperation)
  Fault,        \* what a write can do wrong (see FaultKind)
  Grace,        \* the 30 s in which a second presentation is a benign race
  TTL,          \* REFRESH_TOKEN_TTL_MS, and the 30 days a revoked row is kept
  MaxTime,      \* bound on the clock
  MaxGen        \* bound on the registrations of one resource URI

EntryPoint == {"login", "refresh", "grant", "logout", "revoke"}

AdminOperation == {"sweep", "ban", "delete_user", "delete_service", "registry", "cron"}

\* "lost": the statement fails and changes nothing.  "applied": it reports an
\* error after it committed.  "abort": the handler stops between two statements.
FaultKind == {"abort", "insert_lost", "insert_applied", "unrevoke_lost", "unrevoke_applied"}

ASSUME ConstantsAssumption ==
  /\ NONE \notin Token \cup Family \cup User \cup Service \cup Resource
  /\ Kind \subseteq EntryPoint /\ Admin \subseteq AdminOperation
  /\ Fault \subseteq FaultKind
  /\ Grace \in Nat /\ TTL \in Nat /\ MaxTime \in Nat /\ MaxGen \in Nat

VARIABLES
  rows,         \* tokens that have a row in refresh_tokens
  col,          \* the columns INSERT writes, for every token ever inserted
  revoked,      \* revoked_at / revoked_reason
  revokedAt,    \* the time in revoked_at
  issued,       \* tokens ever inserted
  delivered,    \* tokens a client has received in a response
  users, banned, services,      \* rows of users, those with banned_at, services
  closing,      \* users and services whose deletion has begun
  registered,   \* resource URIs that have a resource_servers row
  generation,   \* id of the latest resource_servers row of each URI
  now,          \* the clock
  req,          \* the handler in each slot
  parent,       \* history: the token whose presentation issued a token
  reused,       \* history: families for which TOKEN_REUSE was answered
  loggedOut     \* history: families of tokens that /auth/logout accepted

tableVars == <<rows, col, revoked, revokedAt, issued, delivered, parent>>
dirVars   == <<users, banned, services, closing, registered, generation>>
histVars  == <<reused, loggedOut>>
vars      == <<tableVars, dirVars, histVars, now, req>>

Reason == {"active", "rotation", "reuse_detected", "revoked"}
Columns == [user : User \cup {NONE}, service : Service \cup {NONE}, family : Family \cup {NONE},
            resource : Resource \cup {NONE}, gen : Nat, expiresAt : Nat]
PC == {"idle", "consume", "inspect", "family", "recheck", "user", "service",
       "resource", "issue", "recover", "attempt", "unrevoke", "find", "drop"}
Reply == {"none", "ok", "TOKEN_ROTATED", "TOKEN_REUSE", "INVALID_TOKEN", "TOKEN_EXPIRED",
          "USER_GONE", "BANNED", "SERVICE_GONE", "SERVICE_MISMATCH", "RESOURCE_MISMATCH",
          "RESOURCE_GONE", "RESOURCE_REFUSED", "RESOURCE_BOUND", "ERROR"}
Handler == [kind : EntryPoint \cup {"none"}, pc : PC, tok : Token \cup {NONE},
            client : Service \cup {NONE}, ctx : Columns, tries : 0..3,
            reply : Reply, barred : BOOLEAN]
NoColumns == [user |-> NONE, service |-> NONE, family |-> NONE,
              resource |-> NONE, gen |-> 0, expiresAt |-> 0]
Idle == [kind |-> "none", pc |-> "idle", tok |-> NONE, client |-> NONE,
         ctx |-> NoColumns, tries |-> 0, reply |-> "none", barred |-> FALSE]

---------------------------------------------------------------------------
(* Rows: the WHERE clauses, and the statements that share them.            *)

Active(t) == t \in rows /\ revoked[t] = "active"

\* A rotation keeps a token that was already rotated: what the WHERE clause
\* "revoked_at IS NULL" of findAndRevokeRefreshToken prevents.
MayRotate_NoActiveTest(t) == t \in rows /\ revoked[t] \in {"active", "rotation"}
MayRotate_AnyRow(t) == t \in rows
MayRotate(t) == Active(t)

Unrevocable_AnyReason(t) == t \in rows /\ revoked[t] # "active"
Unrevocable(t) == t \in rows /\ revoked[t] = "rotation"

UsedFamily == {col[t].family : t \in issued}

\* UPDATE ... SET revoked_at = now, revoked_reason = why WHERE <sel> AND revoked_at IS NULL
Sweep(sel, why) ==
  /\ revoked' = [t \in Token |-> IF t \in sel /\ Active(t) THEN why ELSE revoked[t]]
  /\ revokedAt' = [t \in Token |-> IF t \in sel /\ Active(t) THEN now ELSE revokedAt[t]]
  /\ UNCHANGED <<rows, col, issued, delivered, parent>>

\* UPDATE of one row whatever its state
Mark(t, why) ==
  /\ revoked' = [revoked EXCEPT ![t] = why]
  /\ revokedAt' = [revokedAt EXCEPT ![t] = now]
  /\ UNCHANGED <<rows, col, issued, delivered, parent>>

\* INSERT of a fresh row
Insert(t, c, from) ==
  /\ rows' = rows \cup {t}
  /\ issued' = issued \cup {t}
  /\ col' = [col EXCEPT ![t] = c]
  /\ revoked' = [revoked EXCEPT ![t] = "active"]
  /\ revokedAt' = [revokedAt EXCEPT ![t] = 0]
  /\ parent' = [parent EXCEPT ![t] = from]

\* ON DELETE CASCADE and the cron job
DropRows(sel) ==
  /\ rows' = rows \ sel
  /\ UNCHANGED <<col, revoked, revokedAt, issued, delivered, parent>>

---------------------------------------------------------------------------
(* Handlers.                                                               *)

\* Handler r runs pc next; it knows the columns c, has n tries left and will
\* answer why if it gets to answer.
Move(r, pc, c, n, why) ==
  req' = [req EXCEPT ![r] =
    [kind |-> req[r].kind, pc |-> pc, tok |-> req[r].tok, client |-> req[r].client,
     ctx |-> c, tries |-> n, reply |-> why, barred |-> req[r].barred]]
Goto(r, pc) == Move(r, pc, req[r].ctx, req[r].tries, req[r].reply)
\* A request of kind k enters slot r.
Enter(r, k, pc, t, s, c, barred) ==
  req' = [req EXCEPT ![r] =
    [kind |-> k, pc |-> pc, tok |-> t, client |-> s, ctx |-> c, tries |-> 0,
     reply |-> "none", barred |-> barred]]
\* The response is sent and the slot is free; reply says which response, which
\* no later step depends on.
Answer(r, reply) == req' = [req EXCEPT ![r] = Idle]
\* The answer that was settled before the recovery of the presented token.
AnswerSettled(r) == Answer(r, req[r].reply)

At(r, pc) == req[r].pc = pc

Init ==
  /\ rows = {} /\ issued = {} /\ delivered = {}
  /\ col = [t \in Token |-> NoColumns]
  /\ revoked = [t \in Token |-> "active"]
  /\ revokedAt = [t \in Token |-> 0]
  /\ users = User /\ banned = {} /\ services = Service /\ closing = {}
  /\ registered = Resource /\ generation = [x \in Resource |-> 1]
  /\ now = 0
  /\ req = [r \in Request |-> Idle]
  /\ parent = [t \in Token |-> NONE]
  /\ reused = {} /\ loggedOut = {}

\* A code (or an approved device code) has been consumed: the grant names the
\* user, the service and the resource registration it was given for.
BeginLogin(r, u, s, x) ==
  /\ "login" \in Kind /\ At(r, "idle")
  /\ u \in users
  /\ s \in services \cup {NONE}
  /\ x \in registered \cup {NONE}
  /\ s = NONE => x = NONE
  /\ LET c == [user |-> u, service |-> s, family |-> NONE, resource |-> x,
               gen |-> IF x = NONE THEN 0 ELSE generation[x], expiresAt |-> 0]
     IN Enter(r, "login", "user", NONE, s, c, u \in banned)
  /\ UNCHANGED <<tableVars, dirVars, histVars, now>>

\* /auth/refresh looks at the row before it touches it, and refuses a token
\* bound to a resource without consuming it.  resource never changes, so the
\* look and the arrival are one step.
Peeked_NoPeek(k, t) == FALSE
Peeked(k, t) == k = "refresh" /\ t \in rows /\ col[t].resource # NONE

\* A client presents a token it was given, however long ago, and a service
\* that authenticates may present any of them.
Present(r, k, t, s) ==
  /\ k \in Kind \cap {"refresh", "grant"} /\ At(r, "idle")
  /\ t \in delivered
  /\ IF k = "grant" THEN s \in services ELSE s = NONE
  /\ IF Peeked(k, t)
     THEN Answer(r, "RESOURCE_BOUND")
     ELSE Enter(r, k, "consume", t, s, NoColumns, col[t].user \in banned)
  /\ UNCHANGED <<tableVars, dirVars, histVars, now>>

\* The row was issued for another service than the one that authenticated.
ClientMismatch_Unchecked(r, c) == FALSE
ClientMismatch(r, c) == req[r].kind = "grant" /\ c.service # req[r].client

\* findAndRevokeRefreshToken returned the row; the expiry and the service are
\* tested before the next statement.
Consume(r) ==
  /\ At(r, "consume")
  /\ LET t == req[r].tok
         c == col[t]
         expired == c.expiresAt < now
     IN /\ MayRotate(t)
        /\ Mark(t, "rotation")
        /\ \/ expired /\ req[r].kind = "refresh" /\ Answer(r, "TOKEN_EXPIRED")
           \/ expired /\ req[r].kind = "grant" /\ Move(r, "recheck", c, 0, "TOKEN_EXPIRED")
           \/ ~expired /\ ClientMismatch(r, c) /\ Move(r, "recheck", c, 0, "SERVICE_MISMATCH")
           \/ ~expired /\ ~ClientMismatch(r, c) /\ Move(r, "user", c, 0, "none")
  /\ UNCHANGED <<dirVars, histVars, now>>

ConsumeMiss(r) ==
  /\ At(r, "consume")
  /\ ~MayRotate(req[r].tok)
  /\ Goto(r, "inspect")
  /\ UNCHANGED <<tableVars, dirVars, histVars, now>>

\* Within 30 s a second presentation is taken for a parallel request of the BFF.
JustRotated(t) == t \in rows /\ revoked[t] = "rotation" /\ now - revokedAt[t] < Grace

\* No row was consumed: why not?
Inspect(r) ==
  /\ At(r, "inspect")
  /\ LET t == req[r].tok
     IN IF ~(t \in rows /\ revoked[t] = "rotation") THEN Answer(r, "INVALID_TOKEN")
        ELSE IF JustRotated(t) THEN Answer(r, "TOKEN_ROTATED")
        ELSE Move(r, "family", col[t], 0, "none")
  /\ UNCHANGED <<tableVars, dirVars, histVars, now>>

RevokeFamily(r) ==
  /\ At(r, "family")
  /\ LET f == req[r].ctx.family
     IN /\ Sweep({t \in Token : col[t].family = f}, "reuse_detected")
        /\ reused' = reused \cup {f}
  /\ Answer(r, "TOKEN_REUSE")
  /\ UNCHANGED <<dirVars, loggedOut, now>>

\* grant: a row of another service, or an expired one.  Only the former is
\* handed back.
Recheck(r) ==
  /\ At(r, "recheck")
  /\ LET t == req[r].tok
     IN IF t \in rows /\ revoked[t] = "reuse_detected" THEN Answer(r, "TOKEN_REUSE")
        ELSE IF req[r].reply = "TOKEN_EXPIRED" THEN AnswerSettled(r)
        ELSE Goto(r, "attempt")
  /\ UNCHANGED <<tableVars, dirVars, histVars, now>>

\* findUserById: a step of its own, so the answer may be stale at the INSERT.
Suspended_Unchecked(u) == FALSE
Suspended(u) == u \in banned

LoadUser(r) ==
  /\ At(r, "user")
  /\ LET c == req[r].ctx
     IN IF c.user \notin users THEN Answer(r, "USER_GONE")
        ELSE IF Suspended(c.user) THEN Answer(r, "BANNED")
        ELSE IF req[r].kind = "refresh" /\ c.service # NONE THEN Goto(r, "service")
        ELSE IF req[r].kind # "refresh" /\ c.resource # NONE THEN Goto(r, "resource")
        ELSE Goto(r, "issue")
  /\ UNCHANGED <<tableVars, dirVars, histVars, now>>

LoadService(r) ==
  /\ At(r, "service")
  /\ IF req[r].ctx.service \notin services THEN Answer(r, "SERVICE_GONE")
     ELSE Goto(r, "issue")
  /\ UNCHANGED <<tableVars, dirVars, histVars, now>>

\* grant: the client asks for another resource than the one it was granted;
\* the token it wasted is handed back.
RejectOtherResource(r) ==
  /\ At(r, "resource") /\ req[r].kind = "grant"
  /\ Move(r, "attempt", req[r].ctx, 0, "RESOURCE_MISMATCH")
  /\ UNCHANGED <<tableVars, dirVars, histVars, now>>

\* The registration the grant was made under still stands.
SameGeneration_UriOnly(x, g) == x \in registered
SameGeneration(x, g) == x \in registered /\ generation[x] = g

\* findResourceServerByUri, the generation, and the limits of the registration
\* on subjects and scopes, which may refuse any request.
LoadResource(r) ==
  /\ At(r, "resource")
  /\ LET c == req[r].ctx
     IN IF ~SameGeneration(c.resource, c.gen) THEN Answer(r, "RESOURCE_GONE")
        ELSE \/ Answer(r, "RESOURCE_REFUSED")
             \/ Move(r, "issue", [c EXCEPT !.gen = generation[c.resource]], 0, "none")
  /\ UNCHANGED <<tableVars, dirVars, histVars, now>>

\* What issueTokenPair inserts.  /auth/refresh passes no resource; the token
\* endpoint passes the authenticated service.
SuccessorColumns(r, f) ==
  LET c == req[r].ctx
      k == req[r].kind
  IN [user |-> c.user,
      service |-> IF k = "grant" THEN req[r].client ELSE c.service,
      family |-> f,
      resource |-> IF k = "refresh" THEN NONE ELSE c.resource,
      gen |-> IF k = "refresh" THEN 0 ELSE c.gen,
      expiresAt |-> now + TTL]

\* A login starts a family, a rotation stays in the family of its token.
FamilyFor(r) == IF req[r].kind = "login" THEN Family \ UsedFamily ELSE {req[r].ctx.family}

\* The conditional INSERT: the row of the registration must still exist.
GuardHolds(c) ==
  c.resource # NONE => c.resource \in registered /\ generation[c.resource] = c.gen
\* Foreign keys of refresh_tokens.
KeysHold(c) == c.user \in users /\ (c.service # NONE => c.service \in services)

IssueSucceeds(r) ==
  /\ At(r, "issue")
  /\ \E t \in Token \ issued, f \in FamilyFor(r) :
       LET c == SuccessorColumns(r, f)
       IN /\ GuardHolds(c) /\ KeysHold(c)
          /\ Insert(t, c, req[r].tok)
          /\ delivered' = delivered \cup {t}
  /\ Answer(r, "ok")
  /\ UNCHANGED <<dirVars, histVars, now>>

\* Bound: an INSERT beyond the tokens and families of the instance fails.
OutOfBounds(r) == Token \subseteq issued \/ FamilyFor(r) = {}

\* ResourceRegistrationGoneError: nothing was inserted, and the presented token
\* stays revoked.
IssueGuarded(r) ==
  /\ At(r, "issue")
  /\ ~GuardHolds(SuccessorColumns(r, req[r].ctx.family))
  /\ Answer(r, "RESOURCE_GONE")
  /\ UNCHANGED <<tableVars, dirVars, histVars, now>>

\* Any other failure.  A login has no token to hand back.
AfterFailure(r) ==
  IF req[r].kind = "login" THEN Answer(r, "ERROR") ELSE Goto(r, "recover")

IssueFails(r) ==
  /\ At(r, "issue")
  /\ LET c == SuccessorColumns(r, req[r].ctx.family)
     IN GuardHolds(c) /\ (~KeysHold(c) \/ "insert_lost" \in Fault \/ OutOfBounds(r))
  /\ AfterFailure(r)
  /\ UNCHANGED <<tableVars, dirVars, histVars, now>>

\* The row is there but its raw value never leaves the handler.
IssueUndelivered(r) ==
  /\ At(r, "issue") /\ "insert_applied" \in Fault
  /\ \E t \in Token \ issued, f \in FamilyFor(r) :
       LET c == SuccessorColumns(r, f)
       IN /\ GuardHolds(c) /\ KeysHold(c)
          /\ Insert(t, c, req[r].tok)
          /\ UNCHANGED delivered
  /\ AfterFailure(r)
  /\ UNCHANGED <<dirVars, histVars, now>>

\* issueTokenPairWithRecovery after a failed issue
RecoverCheck(r) ==
  /\ At(r, "recover")
  /\ LET t == req[r].tok
     IN IF t \in rows /\ revoked[t] = "reuse_detected" THEN Answer(r, "TOKEN_REUSE")
        ELSE Move(r, "attempt", req[r].ctx, 0, "ERROR")
  /\ UNCHANGED <<tableVars, dirVars, histVars, now>>

\* attemptUnrevokeToken
AttemptCheck(r) ==
  /\ At(r, "attempt")
  /\ LET t == req[r].tok
     IN IF t \in rows /\ revoked[t] = "reuse_detected" THEN AnswerSettled(r)
        ELSE Move(r, "unrevoke", req[r].ctx, 3, req[r].reply)
  /\ UNCHANGED <<tableVars, dirVars, histVars, now>>

Restore(t) ==
  /\ revoked' = [revoked EXCEPT ![t] = "active"]
  /\ revokedAt' = [revokedAt EXCEPT ![t] = 0]
  /\ UNCHANGED <<rows, col, issued, delivered, parent>>

\* unrevokeRefreshToken: the UPDATE, which may match no row
Unrevoke(r) ==
  /\ At(r, "unrevoke")
  /\ IF Unrevocable(req[r].tok) THEN Restore(req[r].tok) ELSE UNCHANGED tableVars
  /\ AnswerSettled(r)
  /\ UNCHANGED <<dirVars, histVars, now>>

\* The catch block: at most maxRetries = 2 further attempts.
MoreTries_Unbounded(r) == TRUE
MoreTries(r) == req[r].tries > 1
CatchUnrevoke_NoCount(r) == Goto(r, "unrevoke")
CatchUnrevoke(r) ==
  IF MoreTries(r) THEN Move(r, "unrevoke", req[r].ctx, req[r].tries - 1, req[r].reply)
  ELSE AnswerSettled(r)

UnrevokeFails(r) ==
  /\ At(r, "unrevoke")
  /\ \/ "unrevoke_lost" \in Fault /\ UNCHANGED tableVars
     \/ "unrevoke_applied" \in Fault /\ Unrevocable(req[r].tok) /\ Restore(req[r].tok)
  /\ CatchUnrevoke(r)
  /\ UNCHANGED <<dirVars, histVars, now>>

\* Any statement may throw out of the handler, and the isolate may be evicted:
\* nothing more is executed.
Abort(r) ==
  /\ ~At(r, "idle") /\ "abort" \in Fault
  /\ Answer(r, "ERROR")
  /\ UNCHANGED <<tableVars, dirVars, histVars, now>>

---------------------------------------------------------------------------
(* /auth/logout (the BFF) and RFC 7009 revocation (a service): look the    *)
(* token up, then revoke the row that was found.                           *)

BeginRevocation(r, k, t, s) ==
  /\ k \in Kind \cap {"logout", "revoke"} /\ At(r, "idle")
  /\ t \in delivered
  /\ IF k = "revoke" THEN s \in services ELSE s = NONE
  /\ Enter(r, k, "find", t, s, NoColumns, FALSE)
  /\ UNCHANGED <<tableVars, dirVars, histVars, now>>

\* What both handlers have promised when they answer.
Promise(r, t) ==
  loggedOut' = IF req[r].kind = "logout" THEN loggedOut \cup {col[t].family} ELSE loggedOut

FindToRevoke(r) ==
  /\ At(r, "find")
  /\ LET t == req[r].tok
     IN IF Active(t) /\ (req[r].kind = "revoke" => col[t].service = req[r].client)
        THEN Goto(r, "drop") /\ UNCHANGED loggedOut
        ELSE Answer(r, "ok") /\ Promise(r, t)
  /\ UNCHANGED <<tableVars, dirVars, reused, now>>

\* revokeRefreshToken: by id, with no test of the state the row has by now.
RevokeFound(r) ==
  /\ At(r, "drop")
  /\ LET t == req[r].tok
     IN /\ IF t \in rows THEN Mark(t, "revoked") ELSE UNCHANGED tableVars
        /\ Promise(r, t)
  /\ Answer(r, "ok")
  /\ UNCHANGED <<dirVars, reused, now>>

---------------------------------------------------------------------------
(* Statements of other handlers that revoke whole sets of rows.            *)

Elsewhere == UNCHANGED <<histVars, now, req>>

\* DELETE /me/tokens, DELETE /api/users/:id/tokens, role changes: every row of
\* a user.  (Their mcp_sessions and bff_sessions are not part of this module.)
RevokeUserTokens(u) ==
  /\ u \in users
  /\ Sweep({t \in Token : col[t].user = u}, "revoked")
  /\ Elsewhere /\ UNCHANGED dirVars

\* DELETE /me/tokens/others
RevokeOtherUserTokens(keep) ==
  /\ keep \in delivered /\ col[keep].user \in users
  /\ Sweep({t \in Token : col[t].user = col[keep].user} \ {keep}, "revoked")
  /\ Elsewhere /\ UNCHANGED dirVars

\* DELETE /me/connections/:serviceId, DELETE /api/services/:id/users/:userId
RevokeUserServiceTokens(u, s) ==
  /\ u \in users /\ s \in services
  /\ Sweep({t \in Token : col[t].user = u /\ col[t].service = s}, "revoked")
  /\ Elsewhere /\ UNCHANGED dirVars

\* DELETE /me/tokens/:tokenId, DELETE /api/users/:id/tokens/:tokenId
RevokeTokenById(t) ==
  /\ t \in rows
  /\ Sweep({t}, "revoked")
  /\ Elsewhere /\ UNCHANGED dirVars

\* PATCH /api/users/:id/ban: one batch
Ban(u) ==
  /\ u \in users \ banned
  /\ banned' = banned \cup {u}
  /\ Sweep({t \in Token : col[t].user = u}, "revoked")
  /\ Elsewhere /\ UNCHANGED <<users, services, closing, registered, generation>>

\* A request that was presented under the ban is no longer barred by it.
Unban(u) ==
  /\ u \in users \cap banned
  /\ banned' = banned \ {u}
  /\ req' = [r \in Request |->
       IF req[r].barred /\ u = (IF req[r].tok = NONE THEN req[r].ctx.user ELSE col[req[r].tok].user)
       THEN [req[r] EXCEPT !.barred = FALSE] ELSE req[r]]
  /\ UNCHANGED <<tableVars, histVars, now, users, services, closing, registered, generation>>

\* performUserDeletion: the tokens first, the row (and by cascade its tokens) in
\* a later statement.
BeginUserDeletion(u) ==
  /\ u \in users \ closing
  /\ closing' = closing \cup {u}
  /\ Sweep({t \in Token : col[t].user = u}, "revoked")
  /\ Elsewhere /\ UNCHANGED <<users, banned, services, registered, generation>>

DeleteUser(u) ==
  /\ u \in users \cap closing
  /\ users' = users \ {u}
  /\ DropRows({t \in Token : col[t].user = u})
  /\ Elsewhere /\ UNCHANGED <<banned, services, closing, registered, generation>>

\* DELETE /api/services/:id, DELETE /api/register/:clientId
RevokeAllServiceTokens(s) ==
  /\ s \in services \ closing
  /\ closing' = closing \cup {s}
  /\ Sweep({t \in Token : col[t].service = s}, "revoked")
  /\ Elsewhere /\ UNCHANGED <<users, banned, services, registered, generation>>

DeleteService(s) ==
  /\ s \in services \cap closing
  /\ services' = services \ {s}
  /\ DropRows({t \in Token : col[t].service = s})
  /\ Elsewhere /\ UNCHANGED <<users, banned, closing, registered, generation>>

\* POST /api/resources: a new row for the URI, with an id of its own
CreateResourceServer(x) ==
  /\ x \in Resource \ registered /\ generation[x] < MaxGen
  /\ registered' = registered \cup {x}
  /\ generation' = [generation EXCEPT ![x] = @ + 1]
  /\ Elsewhere /\ UNCHANGED <<tableVars, users, banned, services, closing>>

\* deleteResourceServerWithTokenRevocation: one batch
DeleteResourceServer(x) ==
  /\ x \in registered
  /\ registered' = registered \ {x}
  /\ Sweep({t \in Token : col[t].resource = x}, "revoked")
  /\ Elsewhere /\ UNCHANGED <<users, banned, services, closing, generation>>

\* deleteExpiredRefreshTokens, run by cron
DeleteExpired ==
  /\ DropRows({t \in rows : \/ col[t].expiresAt < now
                           \/ (revoked[t] # "active" /\ revokedAt[t] + TTL < now)})
  /\ Elsewhere /\ UNCHANGED dirVars

Tick ==
  /\ now < MaxTime /\ now' = now + 1
  /\ UNCHANGED <<tableVars, dirVars, histVars, req>>

---------------------------------------------------------------------------
\* The next statement of the handler in slot r.
Step(r) ==
  \/ Consume(r) \/ ConsumeMiss(r) \/ Inspect(r) \/ RevokeFamily(r) \/ Recheck(r)
  \/ LoadUser(r) \/ LoadService(r) \/ RejectOtherResource(r) \/ LoadResource(r)
  \/ IssueSucceeds(r) \/ IssueGuarded(r) \/ IssueFails(r) \/ IssueUndelivered(r)
  \/ RecoverCheck(r) \/ AttemptCheck(r) \/ Unrevoke(r) \/ UnrevokeFails(r)
  \/ FindToRevoke(r) \/ RevokeFound(r)

Arrive(r) ==
  \/ \E u \in User, s \in Service \cup {NONE}, x \in Resource \cup {NONE} : BeginLogin(r, u, s, x)
  \/ \E k \in Kind, t \in Token, s \in Service \cup {NONE} : Present(r, k, t, s)
  \/ \E k \in Kind, t \in Token, s \in Service \cup {NONE} : BeginRevocation(r, k, t, s)

Sweeps ==
  \/ \E u \in User : RevokeUserTokens(u) \/ \E s \in Service : RevokeUserServiceTokens(u, s)
  \/ \E t \in Token : RevokeOtherUserTokens(t) \/ RevokeTokenById(t)

Directory ==
  \/ "sweep" \in Admin /\ Sweeps
  \/ "ban" \in Admin /\ \E u \in User : Ban(u) \/ Unban(u)
  \/ "delete_user" \in Admin /\ \E u \in User : BeginUserDeletion(u) \/ DeleteUser(u)
  \/ "delete_service" \in Admin /\ \E s \in Service : RevokeAllServiceTokens(s) \/ DeleteService(s)
  \/ "registry" \in Admin /\ \E x \in Resource : CreateResourceServer(x) \/ DeleteResourceServer(x)
  \/ "cron" \in Admin /\ DeleteExpired

Next ==
  \/ \E r \in Request : Arrive(r) \/ Step(r) \/ Abort(r)
  \/ Directory \/ Tick

Spec == Init /\ [][Next]_vars

\* An awaited statement completes, or throws: a handler that has begun goes on.
Fairness == \A r \in Request : WF_vars(Step(r))
FairSpec == Spec /\ Fairness

---------------------------------------------------------------------------
(* Properties.                                                             *)

TableOK ==
  /\ rows \subseteq issued /\ delivered \subseteq issued /\ issued \subseteq Token
  /\ col \in [Token -> Columns]
  /\ revoked \in [Token -> Reason]
  /\ revokedAt \in [Token -> Nat]
  /\ parent \in [Token -> Token \cup {NONE}]

DirectoryOK ==
  /\ users \subseteq User /\ banned \subseteq User /\ services \subseteq Service
  /\ closing \subseteq User \cup Service
  /\ registered \subseteq Resource /\ generation \in [Resource -> Nat]

\* Every variable has its type.  Among others the retries of an unrevoke stay
\* within 0..3, a row is never deleted before it was inserted, and a client
\* holds no token that was not issued.
TypeOK ==
  /\ TableOK /\ DirectoryOK
  /\ now \in Nat
  /\ req \in [Request -> Handler]
  /\ reused \subseteq Family /\ loggedOut \subseteq Family

\* A token a client can still use.
Usable(t) == Active(t) /\ t \in delivered

\* Between its consumption of a token and its answer a rotation owns the right
\* to issue the successor, or to give the token back.
HoldingPC == {"recheck", "user", "service", "resource", "issue", "recover", "attempt", "unrevoke"}
Holds(r, t) == req[r].kind \in {"refresh", "grant"} /\ req[r].pc \in HoldingPC /\ req[r].tok = t

\* The right to continue family f: a usable token, or a rotation in flight.
Alive(f) == \/ \E t \in delivered : Usable(t) /\ col[t].family = f
            \/ \E r \in Request, t \in delivered : Holds(r, t) /\ col[t].family = f

\* However presentations, failed inserts and recoveries interleave, a family
\* never has two usable tokens, so a stolen token and its owner's token cannot
\* both be refreshed (findAndRevokeRefreshToken against unrevokeRefreshToken).
SingleUsable ==
  \A t1, t2 \in delivered :
    Usable(t1) /\ Usable(t2) /\ col[t1].family = col[t2].family => t1 = t2

\* A token buys at most one delivered successor in its life, whatever is
\* retried or handed back in between.
RotateOnce ==
  \A t1, t2 \in delivered :
    parent[t1] # NONE /\ parent[t1] = parent[t2] => t1 = t2

\* A family that has neither a usable token nor a rotation in flight is over:
\* no recovery, late insert or cascade brings it back.
ExhaustedIsFinal ==
  [][\A f \in UsedFamily : ~Alive(f) => ~Alive(f)']_vars

\* Only a rotation is ever undone: a row revoked for any other reason (logout,
\* ban, reuse) never becomes active again, even if the revocation overtook a
\* recovery that was under way.
RevocationIsFinal ==
  [][\A t \in rows : revoked[t] \in {"reuse_detected", "revoked"} => revoked'[t] # "active"]_vars

\* All tokens of a family speak for the same user, service and resource
\* registration, through both refresh endpoints and any service that presents
\* them: a rotation never changes what was granted.
FamilyUniform ==
  \A t1, t2 \in issued : col[t1].family = col[t2].family =>
    [col[t1] EXCEPT !.expiresAt = 0] = [col[t2] EXCEPT !.expiresAt = 0]

\* No pair is issued for a resource unless the registration under which the
\* family was granted is still the current one, even when the resource is
\* deleted and registered again while the handler runs.
ResourceBound ==
  [][\A t \in delivered' \ delivered :
       LET c == col'[t]
           p == parent'[t]
       IN c.resource # NONE =>
            /\ c.resource \in registered /\ generation[c.resource] = c.gen
            /\ p # NONE => col[p].resource = c.resource /\ col[p].gen = c.gen]_vars

\* A request that arrives while its user is suspended gets no tokens unless the
\* suspension is lifted while it runs.
BarredGetsNothing ==
  [][\A t \in delivered' \ delivered, r \in Request :
       req[r].barred => req'[r] = req[r]]_vars

\* Every handler answers: the retries of a failing unrevoke end.
Answered == \A r \in Request : ~At(r, "idle") ~> At(r, "idle")

---------------------------------------------------------------------------
(* The inductive invariant behind the theorems of RefreshTokensProofs.     *)

\* A handler runs the statements of its own kind.
Placed(q) ==
  \/ q.kind = "none" /\ q.pc = "idle"
  \/ q.kind = "login" /\ q.pc \in {"user", "resource", "issue"} /\ q.tok = NONE
  \/ q.kind \in {"refresh", "grant"} /\ q.pc \notin {"idle", "find", "drop"}
  \/ q.kind \in {"logout", "revoke"} /\ q.pc \in {"find", "drop"}

\* A handler that was given a token was given one that a client received, and
\* from its first look at the row it knows the family.
Informed(q) ==
  /\ q.kind \notin {"none", "login"} => q.tok \in delivered
  /\ q.kind \in {"refresh", "grant"} /\ q.pc \notin {"consume", "inspect"}
       => q.ctx.family = col[q.tok].family

HandlerOK ==
  /\ \A t \in issued : col[t].family \in Family
  /\ \A r \in Request : Placed(req[r]) /\ Informed(req[r])

\* The right to continue a family has one owner: while a rotation holds it no
\* token of the family is usable and no second rotation holds it.
OneOwner ==
  /\ SingleUsable
  /\ \A r \in Request, t, t2 \in delivered :
       Holds(r, t) /\ col[t].family = col[t2].family => ~Active(t2)
  /\ \A r, r2 \in Request, t, t2 \in delivered :
       Holds(r, t) /\ Holds(r2, t2) /\ col[t].family = col[t2].family => r = r2

\* A token that has a delivered successor is spent.
SpentIsSpent ==
  \A t \in delivered : parent[t] # NONE =>
    /\ parent[t] \in delivered
    /\ col[parent[t]].family = col[t].family
    /\ ~Active(parent[t])
    /\ \A r \in Request : ~Holds(r, parent[t])

RotationInv == HandlerOK /\ OneOwner /\ SpentIsSpent /\ RotateOnce

---------------------------------------------------------------------------
(* What comments and documents say, and the interleavings refute.          *)

\* README and the diagram in refresh-token-rotation.ts: once TOKEN_REUSE is
\* answered the whole family is revoked.
ReuseEndsFamily == \A f \in reused : \A t \in rows : col[t].family = f => ~Active(t)

\* docs/api-id.md: POST /auth/logout revokes the family of the refresh token.
LogoutEndsFamily == \A f \in loggedOut : \A t \in rows : col[t].family = f => ~Active(t)

\* banUserWithRevocation: no state in which the ban is set and tokens remain.
BannedHasNoActiveToken == \A t \in rows : col[t].user \in banned => ~Active(t)
============================================================================
