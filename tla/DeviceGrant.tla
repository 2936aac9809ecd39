---------------------------- MODULE DeviceGrant ----------------------------
(***************************************************************************)
(* Device authorization (RFC 8628) in the id worker: a device polls with   *)
(* its device_code while users approve or deny it by its user_code.        *)
(*                                                                         *)
(* A handler is a process; a step is one SQL statement together with the   *)
(* code up to the next await.  device_code, user_code and row id are one   *)
(* value of Code.  Scopes are left out except that their check, which runs *)
(* after the row is gone, may fail.                                        *)
(***************************************************************************)
EXTENDS Integers

CONSTANTS
  Code,         \* device codes, each created at most once
  User,         \* users.id
  Service,      \* services.id
  Request,      \* slots for handlers that run at the same time
  NONE,         \* SQL NULL
  Interval,     \* POLLING_INTERVAL_SEC
  Lifetime,     \* DEVICE_CODE_LIFETIME_SEC
  MaxTime       \* bound on the clock

ASSUME ConstantsAssumption ==
  /\ NONE \notin Code \cup User \cup Service
  /\ Interval \in Nat /\ Lifetime \in Nat /\ MaxTime \in Nat

VARIABLES
  rows,         \* codes that have a row in device_codes
  created,      \* codes ever inserted
  service, expiresAt,   \* columns written by the INSERT
  approvedBy,   \* user_id, set together with approved_at
  denied,       \* codes with denied_at
  polledAt,     \* last_polled_at; -1 for NULL
  users, banned, services,      \* rows of users, those with banned_at, services
  now,
  req,          \* the handler in each slot
  pairs,        \* history: token pairs inserted on behalf of a code
  decided       \* history: decisions that /verify answered, per code

rowVars  == <<rows, created, service, expiresAt, approvedBy, denied, polledAt>>
dirVars  == <<users, banned, services>>
histVars == <<pairs, decided>>
vars     == <<rowVars, dirVars, histVars, now, req>>

PC == {"idle", "user", "find", "write", "lookup", "throttle", "owner", "delete", "take", "issue"}
Handler == [pc : PC, code : Code \cup {NONE}, actor : User \cup Service \cup {NONE},
            approve : BOOLEAN, owner : User \cup {NONE},
            late : BOOLEAN, barred : SUBSET User]
Idle == [pc |-> "idle", code |-> NONE, actor |-> NONE, approve |-> FALSE, owner |-> NONE,
         late |-> FALSE, barred |-> {}]

At(r, pc) == req[r].pc = pc
Enter(r, pc, c, who, approve, late, barred) ==
  req' = [req EXCEPT ![r] =
    [pc |-> pc, code |-> c, actor |-> who, approve |-> approve, owner |-> NONE,
     late |-> late, barred |-> barred]]
Goto(r, pc, u) ==
  req' = [req EXCEPT ![r] =
    [pc |-> pc, code |-> req[r].code, actor |-> req[r].actor, approve |-> req[r].approve,
     owner |-> u, late |-> req[r].late, barred |-> req[r].barred]]
\* The response is sent, whatever it says, and the slot is free.
Answer(r) == req' = [req EXCEPT ![r] = Idle]

Init ==
  /\ rows = {} /\ created = {} /\ denied = {}
  /\ service = [c \in Code |-> NONE]
  /\ expiresAt = [c \in Code |-> 0]
  /\ approvedBy = [c \in Code |-> NONE]
  /\ polledAt = [c \in Code |-> -1]
  /\ users = User /\ banned = {} /\ services = Service
  /\ now = 0
  /\ req = [r \in Request |-> Idle]
  /\ pairs = [c \in Code |-> 0]
  /\ decided = [c \in Code |-> 0]

Expired(c) == expiresAt[c] < now
Delete(codes) ==
  /\ rows' = rows \ codes
  /\ UNCHANGED <<created, service, expiresAt, approvedBy, denied, polledAt>>

---------------------------------------------------------------------------
(* POST /api/device/code.                                                  *)

\* createDeviceCode; a user_code that is taken is drawn again, at most three
\* times, and a request that draws none leaves no row.
CreateDeviceCode(c, s) ==
  /\ c \in Code \ created /\ s \in services
  /\ rows' = rows \cup {c} /\ created' = created \cup {c}
  /\ service' = [service EXCEPT ![c] = s]
  /\ expiresAt' = [expiresAt EXCEPT ![c] = now + Lifetime]
  /\ UNCHANGED <<approvedBy, denied, polledAt, dirVars, histVars, now, req>>

\* deleteExpiredDeviceCodes: not awaited by /code, and run by cron
DeleteExpired ==
  /\ Delete({c \in rows : Expired(c)})
  /\ UNCHANGED <<dirVars, histVars, now, req>>

---------------------------------------------------------------------------
(* POST /api/device/verify: a user decides.  An access token outlives its  *)
(* user.  The request that only shows the service's name is left out.      *)

BeginVerify(r, u, c, approve) ==
  /\ At(r, "idle")
  /\ c \in created
  /\ Enter(r, "user", c, u, approve, FALSE, {})
  /\ UNCHANGED <<rowVars, dirVars, histVars, now>>

\* rejectBannedUserMiddleware
RejectBannedUser(r) ==
  /\ At(r, "user")
  /\ IF req[r].actor \in users \ banned THEN Goto(r, "find", NONE) ELSE Answer(r)
  /\ UNCHANGED <<rowVars, dirVars, histVars, now>>

\* Neither approved nor denied yet, and not expired.
Undecided(c) == approvedBy[c] = NONE /\ c \notin denied

FindToDecide(r) ==
  /\ At(r, "find")
  /\ LET c == req[r].code
     IN IF c \in rows /\ ~Expired(c) /\ Undecided(c) THEN Goto(r, "write", NONE) ELSE Answer(r)
  /\ UNCHANGED <<rowVars, dirVars, histVars, now>>

\* approveDeviceCode and denyDeviceCode: by id, with no test of what the row
\* holds by now; the answer is the same if the row is gone.
Decide(r) ==
  /\ At(r, "write")
  /\ LET c == req[r].code
         u == req[r].actor
     IN /\ IF req[r].approve
           THEN /\ c \in rows => u \in users        \* foreign key
                /\ approvedBy' = [approvedBy EXCEPT ![c] = IF c \in rows THEN u ELSE @]
                /\ UNCHANGED denied
           ELSE /\ denied' = IF c \in rows THEN denied \cup {c} ELSE denied
                /\ UNCHANGED approvedBy
        /\ decided' = [decided EXCEPT ![c] = @ + 1]
  /\ Answer(r)
  /\ UNCHANGED <<rows, created, service, expiresAt, polledAt, dirVars, pairs, now>>

---------------------------------------------------------------------------
(* POST /api/token, grant_type device_code: the device polls.              *)

\* From now on no poll of c may succeed.
Refused(c, s) == c \notin rows \/ c \in denied \/ Expired(c) \/ service[c] # s

BeginPoll(r, s, c) ==
  /\ At(r, "idle")
  /\ s \in services /\ c \in created
  /\ Enter(r, "lookup", c, s, FALSE, Refused(c, s), banned)
  /\ UNCHANGED <<rowVars, dirVars, histVars, now>>

\* findDeviceCodeByHash and the tests on what it returned; a refusal that the
\* row is the cause of deletes the row.
Verdict_ApprovedFirst(c) ==
  IF Expired(c) THEN "delete"
  ELSE IF approvedBy[c] # NONE THEN "owner"
  ELSE IF c \in denied THEN "delete" ELSE "throttle"
Verdict(c) ==
  IF Expired(c) \/ c \in denied THEN "delete"
  ELSE IF approvedBy[c] = NONE THEN "throttle" ELSE "owner"

LookUp(r) ==
  /\ At(r, "lookup")
  /\ LET c == req[r].code
     IN IF c \notin rows \/ service[c] # req[r].actor THEN Answer(r)
        ELSE Goto(r, Verdict(c), approvedBy[c])
  /\ UNCHANGED <<rowVars, dirVars, histVars, now>>

\* tryUpdateDeviceCodePolledAt: authorization_pending or slow_down
Throttle(r) ==
  /\ At(r, "throttle")
  /\ LET c == req[r].code
     IN polledAt' = IF c \in rows /\ (polledAt[c] = -1 \/ polledAt[c] < now - Interval)
                    THEN [polledAt EXCEPT ![c] = now] ELSE polledAt
  /\ Answer(r)
  /\ UNCHANGED <<rows, created, service, expiresAt, approvedBy, denied, dirVars, histVars, now>>

\* The user who had approved when the row was looked up.
Suspended_Unchecked(u) == FALSE
Suspended(u) == u \in banned

LoadOwner(r) ==
  /\ At(r, "owner")
  /\ LET u == req[r].owner
     IN IF u \notin users THEN Answer(r)
        ELSE IF Suspended(u) THEN Goto(r, "delete", u)
        ELSE Goto(r, "take", u)
  /\ UNCHANGED <<rowVars, dirVars, histVars, now>>

\* deleteDeviceCode: whatever the row holds by now
DeleteCode(r) ==
  /\ At(r, "delete")
  /\ Delete({req[r].code})
  /\ Answer(r)
  /\ UNCHANGED <<dirVars, histVars, now>>

\* deleteApprovedDeviceCode deletes one row or none, and reports which.
Takes_Anyway(c) == TRUE
Takes(c) == c \in rows /\ approvedBy[c] # NONE

TakeCode(r) ==
  /\ At(r, "take")
  /\ LET c == req[r].code
     IN IF Takes(c)
        THEN Delete({c}) /\ (Goto(r, "issue", req[r].owner) \/ Answer(r))   \* or no valid scope
        ELSE Answer(r) /\ UNCHANGED rowVars
  /\ UNCHANGED <<dirVars, histVars, now>>

\* issueTokenPair: its INSERT needs the user and the service.
Issue(r) ==
  /\ At(r, "issue")
  /\ req[r].owner \in users /\ req[r].actor \in services
  /\ pairs' = [pairs EXCEPT ![req[r].code] = @ + 1]
  /\ Answer(r)
  /\ UNCHANGED <<rowVars, dirVars, decided, now>>

\* Any statement may throw, a foreign key may not hold, the isolate may be
\* evicted: nothing more is executed.
Abort(r) ==
  /\ ~At(r, "idle")
  /\ Answer(r)
  /\ UNCHANGED <<rowVars, dirVars, histVars, now>>

---------------------------------------------------------------------------
(* Other handlers.                                                         *)

Ban(u) ==
  /\ u \in users \ banned /\ banned' = banned \cup {u}
  /\ UNCHANGED <<rowVars, users, services, histVars, now, req>>

\* A request that arrived under the suspension is no longer barred by it.
Unban(u) ==
  /\ u \in banned /\ banned' = banned \ {u}
  /\ req' = [r \in Request |-> [req[r] EXCEPT !.barred = @ \ {u}]]
  /\ UNCHANGED <<rowVars, users, services, histVars, now>>

\* ON DELETE CASCADE of device_codes.user_id and device_codes.service_id
DeleteUser(u) ==
  /\ u \in users /\ users' = users \ {u}
  /\ Delete({c \in rows : approvedBy[c] = u})
  /\ UNCHANGED <<banned, services, histVars, now, req>>

DeleteService(s) ==
  /\ s \in services /\ services' = services \ {s}
  /\ Delete({c \in rows : service[c] = s})
  /\ UNCHANGED <<users, banned, histVars, now, req>>

Tick ==
  /\ now < MaxTime /\ now' = now + 1
  /\ UNCHANGED <<rowVars, dirVars, histVars, req>>

---------------------------------------------------------------------------
Verify(r) ==
  \/ \E u \in User, c \in Code, approve \in BOOLEAN : BeginVerify(r, u, c, approve)
  \/ RejectBannedUser(r) \/ FindToDecide(r) \/ Decide(r)

Poll(r) ==
  \/ \E s \in Service, c \in Code : BeginPoll(r, s, c)
  \/ LookUp(r) \/ Throttle(r) \/ LoadOwner(r) \/ DeleteCode(r) \/ TakeCode(r) \/ Issue(r)

Directory ==
  \/ \E u \in User : Ban(u) \/ Unban(u) \/ DeleteUser(u)
  \/ \E s \in Service : DeleteService(s)

Next ==
  \/ \E c \in Code, s \in Service : CreateDeviceCode(c, s)
  \/ DeleteExpired
  \/ \E r \in Request : Verify(r) \/ Poll(r) \/ Abort(r)
  \/ Directory \/ Tick

Spec == Init /\ [][Next]_vars

---------------------------------------------------------------------------
(* Properties.                                                             *)

\* What a handler that is past its first step knows.
Knows(q) ==
  /\ q.pc # "idle" => q.code \in created
  /\ q.pc \in {"user", "find", "write"} => q.actor \in User
  /\ q.pc \in {"lookup", "owner", "take", "issue"} => q.actor \in Service
  /\ q.pc \in {"owner", "take", "issue"} => q.owner \in User

\* Every variable has its type; a poll that looks for the user who approved, or
\* goes on to issue tokens, has one, and only codes that exist are decided.
TypeOK ==
  /\ rows \subseteq created /\ created \subseteq Code /\ denied \subseteq created
  /\ service \in [Code -> Service \cup {NONE}] /\ expiresAt \in [Code -> Nat]
  /\ approvedBy \in [Code -> User \cup {NONE}]
  /\ polledAt \in [Code -> Nat \cup {-1}]
  /\ users \subseteq User /\ banned \subseteq User /\ services \subseteq Service
  /\ now \in Nat
  /\ req \in [Request -> Handler] /\ \A r \in Request : Knows(req[r])
  /\ pairs \in [Code -> Nat] /\ decided \in [Code -> Nat]

\* However many polls run at once, a device code buys at most one token pair
\* (deleteApprovedDeviceCode against the look-ups before it).
OnePair == \A c \in Code : pairs[c] <= 1

\* A poll that arrives when the code is already denied, expired, gone or of
\* another service gets no pair, whatever the other decisions on the same code
\* write while it runs.
RefusedStaysRefused ==
  [][\A r \in Request : At(r, "issue") /\ pairs' # pairs /\ req'[r] # req[r] => ~req[r].late]_vars

\* Nobody's suspension is outrun by a poll that arrives after it.
BarredGetsNothing ==
  [][\A r \in Request :
       At(r, "issue") /\ pairs' # pairs /\ req'[r] # req[r] => req[r].owner \notin req[r].barred]_vars

\* A handler that has deleted the row of c and may issue its pair.
Issuing(r, c) == At(r, "issue") /\ req[r].code = c

\* The right to the pair of a code lies in its row, then in one handler, and is
\* then spent.
OneRight ==
  /\ \A c \in rows : pairs[c] = 0 /\ \A r \in Request : ~Issuing(r, c)
  /\ \A c \in Code, r \in Request : Issuing(r, c) => pairs[c] = 0
  /\ \A c \in Code, r1, r2 \in Request : Issuing(r1, c) /\ Issuing(r2, c) => r1 = r2
  /\ \A c \in Code \ created : pairs[c] = 0
  /\ OnePair

\* The stage of a code in the abstract specification.
StageOf(c) ==
  CASE c \notin created -> "new"
    [] c \in rows /\ pairs[c] = 0 -> "open"
    [] c \notin rows /\ c \in created /\ pairs[c] = 1 -> "used"
    [] c \notin rows /\ c \in created /\ pairs[c] = 0 ->
         IF \E r \in Request : Issuing(r, c) THEN "taken" ELSE "void"
    [] OTHER -> "twice"

Grants == INSTANCE OneTimeGrant WITH Grant <- Code, stage <- [c \in Code |-> StageOf(c)]

\* The device flow implements the one-time grant: a code is taken by one poll,
\* which issues one pair or loses the code for good.
GrantOnce == Grants!Spec

---------------------------------------------------------------------------
\* docs/api-id.md: a code that is already approved or denied is answered
\* CODE_ALREADY_USED, so /verify accepts one decision per code.
DecidedOnce == \A c \in Code : decided[c] <= 1
=============================================================================
