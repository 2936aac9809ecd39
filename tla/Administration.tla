--------------------------- MODULE Administration ---------------------------
(***************************************************************************)
(* Roles, suspension, forced logout and deletion of users: the REST routes *)
(* of the id worker, the tools of the MCP server, and a user's own         *)
(* requests, against logins and refreshes that run at the same time.       *)
(*                                                                         *)
(* A user holds at most one of each: an active refresh token, a BFF        *)
(* session, a usable access token with the role admin.  (One with the role *)
(* user gives no more than being logged in.  A session of the MCP server   *)
(* gives nothing without such a token, and is left out.)  A handler        *)
(* is a process with the statements it has still to execute; its checks    *)
(* and reads up to the first of them are one step, and a request that is   *)
(* one UPDATE is one step as a whole.  What happens inside a token family  *)
(* is in RefreshTokens, the services that keep a user from being deleted   *)
(* in ServiceOwnership.                                                    *)
(***************************************************************************)
EXTENDS Integers, Sequences

CONSTANTS
  User,
  Boot,        \* the user with the address BOOTSTRAP_ADMIN_EMAIL
  Request      \* slots for handlers that run at the same time

ASSUME BootAssumption == Boot \in User

VARIABLES
  role,        \* the role in a user's row, "none" without a row
  banned,
  refresh,     \* users with an active refresh token
  bff,         \* the role in the cookie of a user's active BFF session, or "none"
  power,       \* users with a usable access token that says admin
  req,
  disturbed    \* history: handlers whose user's row or sessions others have changed

rows == <<role, banned>>
sessions == <<refresh, bff>>
vars == <<rows, sessions, power, req, disturbed>>

Role == {"user", "admin"}
Statement == {"load", "issue", "session", "role", "ban", "tokens", "bff", "row"}
Known == {u \in User : role[u] # "none"}
Idle == [do |-> <<>>, door |-> "rest", by |-> Boot, for |-> Boot, role |-> "user"]

Init ==
  /\ role = [u \in User |-> "user"] /\ banned = {}
  /\ refresh = {} /\ bff = [u \in User |-> "none"] /\ power = {}
  /\ req = [r \in Request |-> Idle] /\ disturbed = {}

Free(r) == req[r].do = <<>>
At(r, s) == ~Free(r) /\ Head(req[r].do) = s
Begin(r, do, door, by, for, new) ==
  /\ Free(r)
  /\ req' = [req EXCEPT ![r] = [Idle EXCEPT !.do = do, !.door = door, !.by = by,
                                            !.for = for, !.role = new]]
BeginOwn(r, do, u, new) == Begin(r, do, "rest", Boot, u, new)
Answer(r) == req' = [req EXCEPT ![r] = Idle]
Done(r) ==
  IF Len(req[r].do) = 1 THEN Answer(r) ELSE req' = [req EXCEPT ![r].do = Tail(@)]

---------------------------------------------------------------------------
(* Sessions begin: POST /auth/exchange, POST /auth/refresh                 *)

\* finalizeLogin makes the first administrator, in one statement.
Bootstrap ==
  /\ Boot \in Known \ banned /\ \A u \in User : role[u] # "admin"
  /\ role' = [role EXCEPT ![Boot] = "admin"]
  /\ UNCHANGED <<banned, sessions, power, req>>

\* A user's id is a new one: a member of User stands for another once nothing that
\* still runs is about the one before.
Register(u) ==
  /\ u \notin Known /\ \A r \in Request : Free(r) \/ u \notin {req[r].by, req[r].for}
  /\ role' = [role EXCEPT ![u] = "user"]
  /\ UNCHANGED <<banned, sessions, power, req>>

Login(r, u) ==
  /\ u \in Known \ banned /\ bff[u] = "none"
  /\ BeginOwn(r, <<"issue", "session">>, u, role[u])
  /\ UNCHANGED <<rows, sessions, power>>

\* The presented token is consumed, then the user is read.
Refresh(r, u) ==
  /\ u \in refresh /\ refresh' = refresh \ {u}
  /\ BeginOwn(r, <<"load", "issue">>, u, "user")
  /\ UNCHANGED <<rows, bff, power>>

RoleFor_Cookie(u) == bff[u]
RoleFor(u) == role[u]

LoadUser(r) ==
  /\ At(r, "load")
  /\ IF req[r].for \notin Known \ banned THEN Answer(r)
     ELSE req' = [req EXCEPT ![r].do = Tail(@), ![r].role = RoleFor(req[r].for)]
  /\ UNCHANGED <<rows, sessions, power>>

Empower(r) == power' = IF req[r].role = "admin" THEN power \cup {req[r].for} ELSE power

\* The new refresh token; a refresh delivers it with the access token, and the
\* cookie of the BFF takes over the role.  Both INSERTs refer to the user's row, and
\* fail without it.
Issue(r) ==
  LET q == req[r] IN
  /\ At(r, "issue") /\ q.for \in Known
  /\ refresh' = refresh \cup {q.for}
  /\ IF Len(q.do) > 1 THEN UNCHANGED <<bff, power>>
     ELSE /\ Empower(r)
          /\ bff' = [bff EXCEPT ![q.for] = IF @ = "none" THEN @ ELSE q.role]
  /\ Done(r)
  /\ UNCHANGED rows

CreateSession(r) ==
  /\ At(r, "session") /\ req[r].for \in Known
  /\ bff' = [bff EXCEPT ![req[r].for] = req[r].role]
  /\ Empower(r)
  /\ Done(r)
  /\ UNCHANGED <<rows, refresh>>

\* Fifteen minutes, or the jti is on the list of revoked tokens.
Expire(u) ==
  /\ u \in power /\ power' = power \ {u}
  /\ UNCHANGED <<rows, sessions, req>>

---------------------------------------------------------------------------
(* Requests that end sessions                                              *)

\* One BFF session, one refresh token: POST /auth/logout, which does both, and the
\* routes of the user and of an administrator that name one of them
RevokeOneBff(u) ==
  /\ bff[u] # "none" /\ bff' = [bff EXCEPT ![u] = "none"]
  /\ UNCHANGED <<rows, refresh, power, req>>

RevokeOneToken(u) ==
  /\ u \in refresh /\ refresh' = refresh \ {u}
  /\ UNCHANGED <<rows, bff, power, req>>

\* DELETE /users/me/tokens, /users/:id/tokens, and the tool revoke_user_sessions
Everywhere_NoBff(door) == <<"tokens">>
Everywhere(door) == IF door = "mcp" THEN <<"tokens">> ELSE <<"tokens", "bff">>

LogoutEverywhere(r, u) ==
  /\ u \in Known \ banned
  /\ BeginOwn(r, Everywhere("rest"), u, "user")
  /\ UNCHANGED <<rows, sessions, power>>

\* authMiddleware, adminMiddleware and requireTargetUser, or the middlewares of
\* the MCP worker and requireUserValidation: the role is the token's, only the
\* suspension and that there is a row are looked up
Admitted(by) == by \in power \ banned

\* Only the REST routes look at who asks and at what the target is.
NotOneself_Anyone(door, by, for) == TRUE
NotOneself(door, by, for) == door = "rest" => by # for

ChangeRole(r, door, by, for, new) ==
  /\ Admitted(by) /\ NotOneself(door, by, for) /\ for \in Known /\ role[for] # new
  /\ Begin(r, <<"role">>, IF by = for THEN door ELSE "rest", by, for, new)
  /\ UNCHANGED <<rows, sessions, power>>

BanUser(r, door, by, for) ==
  /\ Admitted(by) /\ NotOneself(door, by, for) /\ for \in Known
  /\ door = "rest" => role[for] # "admin" /\ for \notin banned
  /\ Begin(r, <<"ban">>, IF by = for THEN door ELSE "rest", by, for, "user")
  /\ UNCHANGED <<rows, sessions, power>>

\* Of somebody who is not suspended the REST route refuses it, and the tool changes
\* nothing.
UnbanUser(by, for) ==
  /\ Admitted(by) /\ for \in banned
  /\ banned' = banned \ {for}
  /\ UNCHANGED <<role, sessions, power, req>>

EndSessions(r, door, by, for) ==
  /\ Admitted(by) /\ for \in Known
  /\ Begin(r, Everywhere(door), door, Boot, for, "user")
  /\ UNCHANGED <<rows, sessions, power>>

\* DELETE /users/:id and the tool delete_user, DELETE /users/me.  Who owns services is
\* refused, which is a handler that does not begin.
Deletion == <<"tokens", "bff", "row">>

DeleteUser(r, door, by, for) ==
  /\ Admitted(by) /\ NotOneself(door, by, for) /\ for \in Known
  /\ Begin(r, Deletion, "rest", by, for, "user")
  /\ UNCHANGED <<rows, sessions, power>>

DeleteOwnAccount(r, u) ==
  /\ u \in Known \ banned
  /\ Begin(r, Deletion, "rest", u, u, "user")
  /\ UNCHANGED <<rows, sessions, power>>

---------------------------------------------------------------------------
(* Their statements                                                        *)

RevokeTokens(r) ==
  /\ At(r, "tokens") /\ refresh' = refresh \ {req[r].for} /\ Done(r)
  /\ UNCHANGED <<rows, bff, power>>

RevokeBff(r) ==
  /\ At(r, "bff") /\ bff' = [bff EXCEPT ![req[r].for] = "none"] /\ Done(r)
  /\ UNCHANGED <<rows, refresh, power>>

\* The batches of a suspension and of a change of role, which fail when the user has
\* been deleted: there is no row, and nothing of the user's to sweep.
Swept_TokensOnly(u) == refresh' = refresh \ {u} /\ UNCHANGED bff
Swept(u) == refresh' = refresh \ {u} /\ bff' = [bff EXCEPT ![u] = "none"]

RoleBatch(r) ==
  /\ At(r, "role") /\ req[r].for \in Known /\ Swept(req[r].for)
  /\ role' = [role EXCEPT ![req[r].for] = req[r].role]
  /\ Done(r) /\ UNCHANGED <<banned, power>>

BanBatch(r) ==
  /\ At(r, "ban") /\ req[r].for \in Known /\ Swept(req[r].for)
  /\ banned' = banned \cup {req[r].for}
  /\ Done(r) /\ UNCHANGED <<role, power>>

\* With the row go the rows that refer to it, whatever began since the sweeps; no
\* middleware takes an access token of somebody who is not there.
DeleteRow(r) ==
  /\ At(r, "row") /\ Swept(req[r].for)
  /\ role' = [role EXCEPT ![req[r].for] = "none"]
  /\ banned' = banned \ {req[r].for} /\ power' = power \ {req[r].for}
  /\ Done(r)

\* A statement fails: the rest is not executed.
Abort(r) ==
  /\ ~Free(r) /\ Answer(r)
  /\ UNCHANGED <<rows, sessions, power>>

---------------------------------------------------------------------------
Admin(r) ==
  /\ Free(r)
  /\ \E by, for \in User, door \in {"rest", "mcp"} :
       \/ \E new \in Role : ChangeRole(r, door, by, for, new)
       \/ BanUser(r, door, by, for)
       \/ EndSessions(r, door, by, for) \/ DeleteUser(r, door, by, for)

Own(r) == \E u \in User :
  Login(r, u) \/ Refresh(r, u) \/ LogoutEverywhere(r, u) \/ DeleteOwnAccount(r, u)

Execute(r) ==
  \/ LoadUser(r) \/ Issue(r) \/ CreateSession(r)
  \/ RevokeTokens(r) \/ RevokeBff(r)
  \/ RoleBatch(r) \/ BanBatch(r) \/ DeleteRow(r)

\* What runs without having read or swept anything that a property asks about
Unwatched == {<<>>, <<"role">>, <<"ban">>, Deletion, <<"bff", "row">>, <<"row">>}
Of(u) == <<role[u], u \in banned, u \in refresh, bff[u]>>
Observe ==
  disturbed' = {r \in Request : /\ req'[r].do \notin Unwatched
                                /\ \/ r \in disturbed
                                   \/ req'[r] = req[r] /\ Of(req[r].for)' # Of(req[r].for)}

Step ==
  \/ Bootstrap
  \/ \E u \in User : Register(u) \/ Expire(u) \/ RevokeOneBff(u) \/ RevokeOneToken(u)
  \/ \E by, for \in User : UnbanUser(by, for)
  \/ \E r \in Request : Admin(r) \/ Own(r) \/ Execute(r) \/ Abort(r)
Next == Step /\ Observe
Spec == Init /\ [][Next]_vars

---------------------------------------------------------------------------
(* Properties.                                                             *)

TypeOK ==
  /\ role \in [User -> Role \cup {"none"}] /\ banned \subseteq User
  /\ refresh \subseteq User /\ bff \in [User -> Role \cup {"none"}]
  /\ power \subseteq User /\ disturbed \subseteq Request
  /\ \A r \in Request : /\ \A i \in 1..Len(req[r].do) : req[r].do[i] \in Statement
                        /\ req[r].door \in {"rest", "mcp"}
                        /\ {req[r].by, req[r].for} \subseteq User /\ req[r].role \in Role

Active == {u \in User \ banned : role[u] = "admin"}

\* The last administrator that can act goes by deleting the own account, by its own
\* request over the MCP server, or by the request of somebody who is an administrator
\* that can act no more: the request was let in before, or on an access token that
\* still says admin.
AdminLeavesForCause ==
  Active # {} /\ Active' = {} =>
    \E r \in Request : /\ req'[r] # req[r]
                       /\ \/ req[r].by \notin Active
                          \/ req[r].by = req[r].for /\ (req[r].door = "mcp" \/ At(r, "row"))
KeepsAnAdmin == [][AdminLeavesForCause]_vars

\* A token or a cookie comes to say admin of somebody who is not only through a
\* login or a refresh that read the row before the role was taken away.
Misled(u) == bff[u] = "admin" /\ role[u] # "admin"
ReadBeforeTaken ==
  \A u \in User : role'[u] # "admin" /\ (u \in power' \ power \/ (Misled(u)' /\ ~Misled(u))) =>
    \E r \in disturbed : req'[r] # req[r] /\ req[r].for = u /\ req[r].role = "admin"
SessionRoleFromRow == [][ReadBeforeTaken]_vars

\* Somebody suspended has a session only through a request that was admitted before.
Held(u) == (IF u \in refresh THEN {"tokens"} ELSE {}) \cup
           (IF bff[u] # "none" THEN {"bff"} ELSE {})
Inside(u) == u \in banned /\ Held(u) # {}
AdmittedBefore ==
  \A u \in User : Inside(u)' /\ ~Inside(u) =>
    \E r \in disturbed : req'[r] # req[r] /\ req[r].for = u
SuspendedStaysOut == [][AdmittedBefore]_vars

\* A logout everywhere and a forced one come to their last statement with nothing
\* left but what it takes, unless a session began or the user changed while they
\* ran.  (The MCP tool leaves the BFF sessions.)
Last(r) == Len(req[r].do) = 1 /\ (At(r, "tokens") \/ At(r, "bff"))
Taken(r) == {Head(req[r].do)} \cup IF req[r].door = "mcp" THEN {"bff"} ELSE {}
LogoutReachesAll ==
  \A r \in Request \ disturbed : Last(r) => Held(req[r].for) \subseteq Taken(r)
=============================================================================
