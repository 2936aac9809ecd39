----------------------------- MODULE AuthCodes -----------------------------
(***************************************************************************)
(* Authorization codes in the id worker: the provider's callback creates   *)
(* one, POST /auth/exchange or the authorization_code grant of             *)
(* POST /api/token turns it into a token pair, and the exchange of a BFF   *)
(* also into a bff_sessions row.                                           *)
(*                                                                         *)
(* A handler is a process; a step is one SQL statement together with the   *)
(* code up to the next await.  A code and its hash, and the session that a *)
(* code leads to, are one value of Code.  There is one resource URI, whose *)
(* registrations are the values of Generation.                             *)
(***************************************************************************)
EXTENDS Integers

CONSTANTS
  Code, User, Service,
  Public,       \* services that authenticate by client_id alone
  Redirect,     \* redirect URIs
  Callback,     \* those of the BFFs
  Verifier,     \* PKCE verifiers; a challenge is named by its verifier
  Generation,   \* resource_servers.id
  Request,      \* slots for handlers that run at the same time
  NONE,         \* SQL NULL, an absent parameter, no client credentials
  Lifetime,     \* 60 s
  MaxTime       \* bound on the clock

ASSUME ConstantsAssumption ==
  /\ NONE \notin Code \cup User \cup Service \cup Redirect \cup Verifier \cup Generation
  /\ Public \subseteq Service /\ Callback \subseteq Redirect
  /\ Lifetime \in Nat /\ MaxTime \in Nat

VARIABLES
  rows,         \* codes that have a row in auth_codes
  created,      \* codes ever inserted
  used,         \* codes with used_at
  owner, client, redirect, challenge, generation, expiresAt,   \* written by the INSERT
  users, banned, services,
  registered,   \* id of the resource's row, NONE without one
  past,         \* ids of rows it had before
  sessions,     \* codes whose bff_sessions row is active
  now,
  req,          \* the handler in each slot
  pairs         \* history: token pairs inserted on behalf of a code

columns  == <<owner, client, redirect, challenge, generation, expiresAt>>
rowVars  == <<rows, created, used, columns>>
dirVars  == <<users, banned, services, registered, past>>
vars     == <<rowVars, dirVars, sessions, pairs, now, req>>

\* The handler that consumed a code has the right to its pair in these steps.
HolderPC == {"owner", "auth", "target", "issue"}
PC == {"idle", "user", "redirect", "resource", "create", "client", "consume", "session"} \cup HolderPC
Handler == [pc : PC, code : Code \cup {NONE}, user : User \cup {NONE},
            client : Service \cup {NONE}, redirect : Redirect \cup {NONE},
            verifier : Verifier \cup {NONE}, gen : Generation \cup {NONE},
            flag : BOOLEAN, barred : SUBSET User]
Idle == [pc |-> "idle", code |-> NONE, user |-> NONE, client |-> NONE, redirect |-> NONE,
         verifier |-> NONE, gen |-> NONE, flag |-> FALSE, barred |-> {}]

At(r, pc) == req[r].pc = pc
\* flag: a login that names the resource; a redemption by POST /auth/exchange.
Enter(r, pc, c, u, cl, uri, ver, flag, barred) ==
  /\ At(r, "idle")
  /\ req' = [req EXCEPT ![r] =
       [pc |-> pc, code |-> c, user |-> u, client |-> cl, redirect |-> uri, verifier |-> ver,
        gen |-> NONE, flag |-> flag, barred |-> barred]]
Goto(r, pc, u, g) ==
  req' = [req EXCEPT ![r] =
    [pc |-> pc, code |-> req[r].code, user |-> u, client |-> req[r].client,
     redirect |-> req[r].redirect, verifier |-> req[r].verifier, gen |-> g,
     flag |-> req[r].flag, barred |-> req[r].barred]]
Advance(r, pc) == Goto(r, pc, req[r].user, req[r].gen)
\* The response is sent, whatever it says, and the slot is free.
Answer(r) == req' = [req EXCEPT ![r] = Idle]

Init ==
  /\ rows = {} /\ created = {} /\ used = {}
  /\ owner = [c \in Code |-> NONE] /\ client = [c \in Code |-> NONE]
  /\ redirect = [c \in Code |-> NONE] /\ challenge = [c \in Code |-> NONE]
  /\ generation = [c \in Code |-> NONE] /\ expiresAt = [c \in Code |-> 0]
  /\ users = User /\ banned = {} /\ services = Service
  /\ registered = NONE /\ past = {}
  /\ sessions = {} /\ now = 0
  /\ req = [r \in Request |-> Idle]
  /\ pairs = [c \in Code |-> 0]

Delete(codes) ==
  /\ rows' = rows \ codes
  /\ UNCHANGED <<created, used, columns>>
Unmoved == UNCHANGED <<rowVars, dirVars, sessions, pairs, now>>

---------------------------------------------------------------------------
(* GET /auth/callback, from the point where the provider has said who the  *)
(* user is.  handleLogin has checked the parameters of the login: a BFF    *)
(* names one of its callbacks, a service one of its URIs and perhaps the   *)
(* resource, and either may send a PKCE challenge.  An account that is     *)
(* gone logs in as another User.                                           *)

BeginCallback(r, u, cl, uri, ver, target) ==
  /\ IF cl = NONE THEN uri \in Callback /\ ~target
     ELSE cl \in services /\ uri \notin Callback /\ (target => registered # NONE)
  /\ Enter(r, "user", NONE, u, cl, uri, ver, target, {})
  /\ Unmoved

\* resolveUserAccount
ResolveUser(r) ==
  /\ At(r, "user")
  /\ IF req[r].user \in users \ banned
     THEN Advance(r, IF req[r].client = NONE THEN "create" ELSE "redirect")
     ELSE Answer(r)
  /\ Unmoved

\* validateFinalRedirect: the URIs of a service go with it
CheckRedirect(r) ==
  /\ At(r, "redirect")
  /\ IF req[r].client \in services
     THEN Advance(r, IF req[r].flag THEN "resource" ELSE "create")
     ELSE Answer(r)
  /\ Unmoved

FixGeneration(r) ==
  /\ At(r, "resource")
  /\ IF registered = NONE THEN Answer(r) ELSE Goto(r, "create", req[r].user, registered)
  /\ Unmoved

\* createAuthCode; foreign keys to users and services
CreateAuthCode(r, c) ==
  /\ At(r, "create") /\ c \in Code \ created
  /\ req[r].user \in users /\ req[r].client \in services \cup {NONE}
  /\ rows' = rows \cup {c} /\ created' = created \cup {c}
  /\ owner' = [owner EXCEPT ![c] = req[r].user]
  /\ client' = [client EXCEPT ![c] = req[r].client]
  /\ redirect' = [redirect EXCEPT ![c] = req[r].redirect]
  /\ challenge' = [challenge EXCEPT ![c] = req[r].verifier]
  /\ generation' = [generation EXCEPT ![c] = req[r].gen]
  /\ expiresAt' = [expiresAt EXCEPT ![c] = now + Lifetime]
  /\ Answer(r)
  /\ UNCHANGED <<used, dirVars, sessions, pairs, now>>

---------------------------------------------------------------------------
(* POST /auth/exchange and POST /api/token: a code is redeemed.            *)

\* An exchange consumes first; /api/token first looks for its client.
BeginExchange(r, c, cl, uri, ver) ==
  /\ c \in created
  /\ Enter(r, "consume", c, NONE, cl, uri, ver, TRUE, banned)
  /\ Unmoved

BeginTokenRequest(r, c, cl, uri, ver) ==
  /\ c \in created
  /\ Enter(r, "client", c, NONE, cl, uri, ver, FALSE, banned)
  /\ Unmoved

\* resolveOAuthClient
AuthenticateClient(r) ==
  /\ At(r, "client")
  /\ IF req[r].client \in services THEN Advance(r, "consume") ELSE Answer(r)
  /\ Unmoved

\* The tests on the row that need no database: the client (/api/token; an
\* exchange authenticates later), the URI, that an exchange brings no code for
\* the resource, and PKCE.
ProvesPossession(q, c) == challenge[c] = NONE \/ challenge[c] = q.verifier
Fits_AnyClient(q, c) ==
  /\ redirect[c] = q.redirect
  /\ q.flag => generation[c] = NONE
  /\ ~q.flag => (q.client \in Public => challenge[c] # NONE)
  /\ ProvesPossession(q, c)
Fits(q, c) ==
  /\ redirect[c] = q.redirect
  /\ IF q.flag THEN generation[c] = NONE
     ELSE client[c] = q.client /\ (q.client \in Public => challenge[c] # NONE)
  /\ ProvesPossession(q, c)

\* findAndConsumeAuthCode: one UPDATE, whatever the tests then say
Consumable_Used(c) == c \in rows /\ now <= expiresAt[c]
Consumable(c) == c \in rows \ used /\ now <= expiresAt[c]

Consume(r) ==
  /\ At(r, "consume")
  /\ LET c == req[r].code
     IN IF Consumable(c)
        THEN /\ used' = used \cup {c}
             /\ IF Fits(req[r], c) THEN Goto(r, "owner", owner[c], NONE) ELSE Answer(r)
        ELSE Answer(r) /\ UNCHANGED used
  /\ UNCHANGED <<rows, created, columns, dirVars, sessions, pairs, now>>

Suspended_Unchecked(u) == FALSE
Suspended(u) == u \in banned

\* The column values came with the UPDATE and do not change.
LoadOwner(r) ==
  /\ At(r, "owner")
  /\ LET q == req[r]
     IN IF q.user \notin users \/ Suspended(q.user) THEN Answer(r)
        ELSE IF q.flag /\ client[q.code] # NONE THEN Advance(r, "auth")
        ELSE IF generation[q.code] # NONE THEN Advance(r, "target")
        ELSE Advance(r, "issue")
  /\ Unmoved

\* authenticateService, and the code's service_id
AuthenticateService(r) ==
  /\ At(r, "auth")
  /\ IF req[r].client \in services /\ req[r].client = client[req[r].code]
     THEN Advance(r, "issue") ELSE Answer(r)
  /\ Unmoved

\* findResourceServerByUri, and the generation the code was created under
SameGeneration_UriOnly(g) == registered # NONE
SameGeneration(g) == registered = g

LoadResource(r) ==
  /\ At(r, "target")
  /\ IF SameGeneration(generation[req[r].code])
     THEN Goto(r, "issue", req[r].user, registered) ELSE Answer(r)
  /\ Unmoved

\* issueTokenPair: the INSERT needs the user and the service, and for the
\* resource the registration that was looked up.
InsertHolds(q) ==
  /\ q.user \in users
  /\ client[q.code] \in services \cup {NONE}
  /\ q.gen \in {NONE, registered}

\* serviceId === null: the tokens are for a BFF
NeedsSession(c) == client[c] = NONE

Issue(r) ==
  /\ At(r, "issue") /\ InsertHolds(req[r])
  /\ pairs' = [pairs EXCEPT ![req[r].code] = @ + 1]
  /\ IF NeedsSession(req[r].code) THEN Advance(r, "session") ELSE Answer(r)
  /\ UNCHANGED <<rowVars, dirVars, sessions, now>>

\* createBffSession, only for a BFF
CreateSession(r) ==
  /\ At(r, "session")
  /\ req[r].user \in users
  /\ sessions' = sessions \cup {req[r].code}
  /\ Answer(r)
  /\ UNCHANGED <<rowVars, dirVars, pairs, now>>

\* Any statement may throw, a key or the guard of an INSERT may not hold, a
\* scope or a subject may be refused, the isolate may be evicted: nothing more
\* is executed, and nothing is undone.
Abort(r) ==
  /\ ~At(r, "idle")
  /\ Answer(r)
  /\ Unmoved

---------------------------------------------------------------------------
(* Other handlers.                                                         *)

\* cron: cleanupExpiredAuthCodes
DeleteExpired ==
  /\ Delete({c \in rows : expiresAt[c] < now \/ c \in used})
  /\ UNCHANGED <<dirVars, sessions, pairs, now, req>>

\* banUserWithRevocation: one batch
Ban(u) ==
  /\ u \in users \ banned /\ banned' = banned \cup {u}
  /\ sessions' = {c \in sessions : owner[c] # u}
  /\ UNCHANGED <<rowVars, users, services, registered, past, pairs, now, req>>

\* A request that arrived under the suspension is no longer barred by it.
Unban(u) ==
  /\ u \in banned /\ banned' = banned \ {u}
  /\ req' = [r \in Request |-> [req[r] EXCEPT !.barred = @ \ {u}]]
  /\ UNCHANGED <<rowVars, users, services, registered, past, sessions, pairs, now>>

\* ON DELETE CASCADE of auth_codes and bff_sessions
DeleteUser(u) ==
  /\ u \in users /\ users' = users \ {u}
  /\ Delete({c \in rows : owner[c] = u})
  /\ sessions' = {c \in sessions : owner[c] # u}
  /\ UNCHANGED <<banned, services, registered, past, pairs, now, req>>

DeleteService(s) ==
  /\ s \in services /\ services' = services \ {s}
  /\ Delete({c \in rows : client[c] = s})
  /\ UNCHANGED <<users, banned, registered, past, sessions, pairs, now, req>>

CreateResource(g) ==
  /\ registered = NONE /\ g \notin past
  /\ registered' = g
  /\ UNCHANGED <<rowVars, users, banned, services, past, sessions, pairs, now, req>>

DeleteResource ==
  /\ registered # NONE
  /\ registered' = NONE /\ past' = past \cup {registered}
  /\ UNCHANGED <<rowVars, users, banned, services, sessions, pairs, now, req>>

Tick ==
  /\ now < MaxTime /\ now' = now + 1
  /\ UNCHANGED <<rowVars, dirVars, sessions, pairs, req>>

---------------------------------------------------------------------------
Login(r) ==
  \/ \E u \in User, cl \in Service \cup {NONE}, uri \in Redirect,
        ver \in Verifier \cup {NONE}, target \in BOOLEAN :
       BeginCallback(r, u, cl, uri, ver, target)
  \/ ResolveUser(r) \/ CheckRedirect(r) \/ FixGeneration(r)
  \/ \E c \in Code : CreateAuthCode(r, c)

Redeem(r) ==
  \/ \E c \in Code, uri \in Redirect, ver \in Verifier \cup {NONE} :
       \/ \E cl \in (Service \ Public) \cup {NONE} : BeginExchange(r, c, cl, uri, ver)
       \/ \E cl \in Service : BeginTokenRequest(r, c, cl, uri, ver)
  \/ AuthenticateClient(r) \/ Consume(r) \/ LoadOwner(r) \/ AuthenticateService(r)
  \/ LoadResource(r) \/ Issue(r) \/ CreateSession(r)

Directory ==
  \/ \E u \in User : Ban(u) \/ Unban(u) \/ DeleteUser(u)
  \/ \E s \in Service : DeleteService(s)
  \/ \E g \in Generation : CreateResource(g)
  \/ DeleteResource

Next ==
  \/ \E r \in Request : Login(r) \/ Redeem(r) \/ Abort(r)
  \/ DeleteExpired \/ Directory \/ Tick

Spec == Init /\ [][Next]_vars

---------------------------------------------------------------------------
(* Properties.                                                             *)

\* Does r insert a token pair in this step?
Pays(r) == At(r, "issue") /\ pairs' # pairs /\ req'[r] # req[r]

\* What a handler that is past its first step knows.
Knows(q) ==
  /\ q.pc \in HolderPC \cup {"client", "consume", "session"} => q.code \in created
  /\ q.pc \in HolderPC \cup {"user", "redirect", "resource", "create", "session"} => q.user \in User
  /\ q.pc \in HolderPC => q.code \in used
  /\ q.pc = "session" => client[q.code] = NONE /\ owner[q.code] = q.user

\* Every variable has its type; a handler that redeems has consumed an existing
\* code and knows its user, and only a BFF's handler comes to create a session.
TypeOK ==
  /\ rows \subseteq created /\ created \subseteq Code /\ used \subseteq created
  /\ owner \in [Code -> User \cup {NONE}] /\ client \in [Code -> Service \cup {NONE}]
  /\ redirect \in [Code -> Redirect \cup {NONE}] /\ challenge \in [Code -> Verifier \cup {NONE}]
  /\ generation \in [Code -> Generation \cup {NONE}] /\ expiresAt \in [Code -> Nat]
  /\ users \subseteq User /\ banned \subseteq User /\ services \subseteq Service
  /\ registered \in Generation \cup {NONE} /\ past \subseteq Generation
  /\ sessions \subseteq created /\ now \in Nat
  /\ req \in [Request -> Handler] /\ \A r \in Request : Knows(req[r])
  /\ pairs \in [Code -> Nat]

\* However many exchanges and token requests present a code, at both endpoints,
\* before and after the clean-up, it buys at most one token pair.
OnePair == \A c \in Code : pairs[c] <= 1

\* A pair goes to the party the login was for: the request names the redirect
\* URI of the login, proves its PKCE challenge, and comes from its service.
PairFitsLogin ==
  [][\A r \in Request : Pays(r) =>
       LET q == req[r] IN
       /\ q.redirect = redirect[q.code]
       /\ challenge[q.code] \in {NONE, q.verifier}
       /\ client[q.code] \in {NONE, q.client}]_vars

\* Deleting a resource ends what was granted for it: a code created under one
\* registration buys nothing under the next, whichever statements of the login
\* and of the redemption the deletion falls between.
ResourceBound ==
  [][\A r \in Request : Pays(r) =>
       generation[req[r].code] \in {NONE, registered}]_vars

\* Nobody's suspension is outrun by a redemption that arrives after it, whenever
\* the code was created: it gets neither tokens nor a session.
BarredGetsNothing ==
  [][\A r \in Request :
       req'[r] # req[r] /\ (pairs' # pairs \/ ~(sessions' \subseteq sessions)) =>
         owner[req[r].code] \notin req[r].barred]_vars

\* A handler that has consumed c and may issue its pair.
Holding(r, c) == req[r].pc \in HolderPC /\ req[r].code = c

\* The right to the pair of a code lies in its unused row, then in one handler,
\* and is then spent.
OneRight ==
  /\ \A c \in Code \ used : pairs[c] = 0
  /\ \A c \in Code, r \in Request : Holding(r, c) => pairs[c] = 0
  /\ \A c \in Code, r1, r2 \in Request : Holding(r1, c) /\ Holding(r2, c) => r1 = r2
  /\ OnePair

\* The stage of a code in the abstract specification.
StageOf(c) ==
  CASE c \notin created -> "new"
    [] c \in rows \ used /\ pairs[c] = 0 -> "open"
    [] c \in created /\ c \notin rows \ used /\ pairs[c] = 1 -> "used"
    [] c \in created /\ c \notin rows \ used /\ pairs[c] = 0 ->
         IF \E r \in Request : Holding(r, c) THEN "taken" ELSE "void"
    [] OTHER -> "twice"

Grants == INSTANCE OneTimeGrant WITH Grant <- Code, stage <- [c \in Code |-> StageOf(c)]

\* The code flow implements the one-time grant: one request takes a code, and
\* either turns it into one pair or, whichever test it fails, spoils it.
GrantOnce == Grants!Spec
============================================================================
