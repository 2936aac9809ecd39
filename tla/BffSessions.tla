---------------------------- MODULE BffSessions ----------------------------
(***************************************************************************)
(* BFF sessions (bff_sessions) and their binding to a device (DBSC): the   *)
(* internal endpoints /auth/dbsc/{bind,challenge,verify,status} of the id  *)
(* worker, the revocations that race them, and a sensitive operation of a  *)
(* BFF, which passes requireDbscBoundSession and authMiddleware.           *)
(*                                                                         *)
(* A handler is a process; a step is one SQL statement together with the   *)
(* code up to the next await.  A proof JWT is what its checks tell apart:  *)
(* the key that signed it, its jti and its aud.                            *)
(***************************************************************************)
EXTENDS Integers

CONSTANTS
  Session, User,
  Origin,       \* origins of the BFFs
  Key,          \* public keys of devices
  Nonce,        \* random, each issued at most once
  Request,      \* slots for handlers that run at the same time
  NONE,         \* SQL NULL
  Enforce,      \* DBSC_ENFORCE_SENSITIVE
  SessionLife,  \* BFF_SESSION_MAX_AGE_SECONDS
  NonceLife,    \* 60 s
  MaxTime       \* bound on the clock

ASSUME ConstantsAssumption ==
  /\ NONE \notin Session \cup User \cup Origin \cup Key \cup Nonce
  /\ Enforce \in BOOLEAN
  /\ SessionLife \in Nat /\ NonceLife \in Nat /\ MaxTime \in Nat

VARIABLES
  rows,         \* sessions that have a row in bff_sessions
  created,      \* sessions ever inserted
  owner, origin, expiresAt,     \* written by the INSERT
  revoked,      \* sessions with revoked_at
  key,          \* device_public_key_jwk
  nonces,       \* nonces that have a row in dbsc_challenges
  issued,       \* nonces ever inserted
  about, nonceEnd,      \* their session_id and expires_at
  consumed,     \* nonces with consumed_at
  now,
  req,          \* the handler in each slot
  confirmed,    \* history: keys of which /bind said that they are bound
  accepted,     \* history: number of proofs accepted per nonce
  done          \* history: number of sensitive operations per session

sessionVars == <<rows, created, owner, origin, expiresAt, revoked, key>>
nonceVars   == <<nonces, issued, about, nonceEnd, consumed>>
histVars    == <<confirmed, accepted, done>>
vars        == <<sessionVars, nonceVars, histVars, now, req>>

PC == {"idle", "bind", "store", "challenge", "insert", "verify", "consume",
       "status", "auth", "run"}
Handler == [pc : PC, ses : Session \cup {NONE}, from : Origin \cup {NONE},
            key : Key \cup {NONE}, nonce : Nonce \cup {NONE}, aud : Origin \cup {NONE},
            late : BOOLEAN, degraded : BOOLEAN]
Idle == [pc |-> "idle", ses |-> NONE, from |-> NONE, key |-> NONE, nonce |-> NONE,
         aud |-> NONE, late |-> FALSE, degraded |-> FALSE]

At(r, pc) == req[r].pc = pc
\* The response is sent, whatever it says, and the slot is free.
Answer(r) == req' = [req EXCEPT ![r] = Idle]
Goto(r, pc, degraded) ==
  req' = [req EXCEPT ![r] =
    [pc |-> pc, ses |-> req[r].ses, from |-> req[r].from, key |-> req[r].key,
     nonce |-> req[r].nonce, aud |-> req[r].aud, late |-> req[r].late,
     degraded |-> degraded]]
\* The handler goes on to pc if the test holds and refuses otherwise.
Require(r, test, pc) == IF test THEN Goto(r, pc, req[r].degraded) ELSE Answer(r)
Unmoved == UNCHANGED <<sessionVars, nonceVars, histVars, now>>

Init ==
  /\ rows = {} /\ created = {} /\ revoked = {}
  /\ owner = [s \in Session |-> NONE] /\ origin = [s \in Session |-> NONE]
  /\ expiresAt = [s \in Session |-> 0] /\ key = [s \in Session |-> NONE]
  /\ nonces = {} /\ issued = {} /\ consumed = {}
  /\ about = [n \in Nonce |-> NONE] /\ nonceEnd = [n \in Nonce |-> 0]
  /\ now = 0
  /\ req = [r \in Request |-> Idle]
  /\ confirmed = [s \in Session |-> {}]
  /\ accepted = [n \in Nonce |-> 0]
  /\ done = [s \in Session |-> 0]

\* findActiveBffSession
Active_Revoked(s) == s \in rows /\ expiresAt[s] > now
Active(s) == s \in rows \ revoked /\ expiresAt[s] > now

\* A request carries the id of a session that was once created; its BFF names
\* itself in X-BFF-Origin.
Enter(r, pc, s, from, k, n, aud) ==
  /\ At(r, "idle") /\ s \in created
  /\ req' = [req EXCEPT ![r] =
       [pc |-> pc, ses |-> s, from |-> from, key |-> k, nonce |-> n, aud |-> aud,
        late |-> ~(s \in rows \ revoked /\ expiresAt[s] > now), degraded |-> FALSE]]
  /\ Unmoved

---------------------------------------------------------------------------
(* The rows of bff_sessions.                                               *)

CreateSession(s, u, o) ==
  /\ s \in Session \ created
  /\ rows' = rows \cup {s} /\ created' = created \cup {s}
  /\ owner' = [owner EXCEPT ![s] = u] /\ origin' = [origin EXCEPT ![s] = o]
  /\ expiresAt' = [expiresAt EXCEPT ![s] = now + SessionLife]
  /\ UNCHANGED <<revoked, key, nonceVars, histVars, now, req>>

Revoke(gone) ==
  /\ revoked' = revoked \cup (gone \cap rows)
  /\ UNCHANGED <<rows, created, owner, origin, expiresAt, key, nonceVars, histVars, now, req>>

\* Logout; a user or an administrator ends one session of a user
RevokeSession(s) == s \in rows \ revoked /\ Revoke({s})

\* Everything of a user: logout everywhere, suspension, an administrator
RevokeAllByUser(u) == (\E s \in rows \ revoked : owner[s] = u) /\ Revoke({s \in Session : owner[s] = u})

\* deleteUser: ON DELETE CASCADE to the sessions and their challenges
DeleteUser(u) ==
  LET gone == {s \in rows : owner[s] = u}
  IN /\ gone # {}
     /\ rows' = rows \ gone
     /\ nonces' = {n \in nonces : about[n] \notin gone}
     /\ UNCHANGED <<created, owner, origin, expiresAt, revoked, key, issued, about, nonceEnd,
                    consumed, histVars, now, req>>

---------------------------------------------------------------------------
(* POST /auth/dbsc/bind, on behalf of a browser's /auth/dbsc/start.        *)

FindToBind(r) ==
  /\ At(r, "bind")
  /\ LET s == req[r].ses
     IN Require(r, Active(s) /\ req[r].from = origin[s], "store")
  /\ Unmoved

\* bindDeviceKeyToBffSession, and the answer by the number of rows it changed
Bindable_Again(s) == Active(s)
Bindable(s) == Active(s) /\ key[s] = NONE

StoreKey(r) ==
  /\ At(r, "store")
  /\ LET s == req[r].ses
         k == req[r].key
     IN IF Bindable(s)
        THEN /\ key' = [key EXCEPT ![s] = k]
             /\ confirmed' = [confirmed EXCEPT ![s] = @ \cup {k}]
        ELSE UNCHANGED <<key, confirmed>>
  /\ Answer(r)
  /\ UNCHANGED <<rows, created, owner, origin, expiresAt, revoked, nonceVars, accepted, done, now>>

---------------------------------------------------------------------------
(* POST /auth/dbsc/challenge and /auth/dbsc/verify, on behalf of           *)
(* /auth/dbsc/refresh.                                                     *)

FindToChallenge(r) ==
  /\ At(r, "challenge")
  /\ LET s == req[r].ses
     IN Require(r, Active(s) /\ key[s] # NONE /\ req[r].from = origin[s], "insert")
  /\ Unmoved

\* issueDbscChallenge: its foreign key needs the session's row
InsertNonce(r, n) ==
  /\ At(r, "insert") /\ n \in Nonce \ issued
  /\ req[r].ses \in rows
  /\ nonces' = nonces \cup {n} /\ issued' = issued \cup {n}
  /\ about' = [about EXCEPT ![n] = req[r].ses]
  /\ nonceEnd' = [nonceEnd EXCEPT ![n] = now + NonceLife]
  /\ Answer(r)
  /\ UNCHANGED <<sessionVars, consumed, histVars, now>>

\* The session, its origin, the stored key against the signature, and the
\* session's own origin against aud
ProofHolds_AnyKey(q) ==
  /\ Active(q.ses) /\ key[q.ses] # NONE
  /\ q.from = origin[q.ses] /\ q.aud = origin[q.ses]

ProofHolds_DeclaredAudience(q) ==
  /\ Active(q.ses) /\ key[q.ses] # NONE
  /\ q.from = origin[q.ses]
  /\ q.key = key[q.ses]

ProofHolds(q) ==
  /\ Active(q.ses) /\ key[q.ses] # NONE
  /\ q.from = origin[q.ses]
  /\ q.key = key[q.ses] /\ q.aud = origin[q.ses]

CheckProof(r) ==
  /\ At(r, "verify")
  /\ Require(r, ProofHolds(req[r]), "consume")
  /\ Unmoved

\* consumeDbscChallenge: one UPDATE, and the answer by its number of rows
Fresh_AnySession(n, s) == n \in nonces \ consumed /\ nonceEnd[n] > now
Fresh_Consumed(n, s) == n \in nonces /\ about[n] = s /\ nonceEnd[n] > now
Fresh(n, s) == n \in nonces \ consumed /\ about[n] = s /\ nonceEnd[n] > now

ConsumeNonce(r) ==
  /\ At(r, "consume")
  /\ LET n == req[r].nonce
     IN IF Fresh(n, req[r].ses)
        THEN /\ consumed' = consumed \cup {n}
             /\ accepted' = [accepted EXCEPT ![n] = @ + 1]
        ELSE UNCHANGED <<consumed, accepted>>
  /\ Answer(r)
  /\ UNCHANGED <<sessionVars, nonces, issued, about, nonceEnd, confirmed, done, now>>

\* cron: cleanupStaleDbscChallenges, an hour after the end or the use
CleanUpNonces(old) ==
  /\ old # {} /\ old \subseteq {n \in nonces : nonceEnd[n] < now \/ n \in consumed}
  /\ nonces' = nonces \ old
  /\ UNCHANGED <<sessionVars, issued, about, nonceEnd, consumed, histVars, now, req>>

---------------------------------------------------------------------------
(* A sensitive request to a BFF: requireDbscBoundSession asks              *)
(* /auth/dbsc/status, and the operation is forwarded to the id worker.     *)

\* A session that is not active, or of another BFF, counts as unbound.
DeviceBound(q) == Active(q.ses) /\ q.from = origin[q.ses] /\ key[q.ses] # NONE

MayProceed_WarnOnly(q) == TRUE
MayProceed(q) == DeviceBound(q) \/ ~Enforce

RequireBound(r) ==
  /\ At(r, "status")
  /\ \/ Require(r, MayProceed(req[r]), "auth")
     \/ Goto(r, "auth", TRUE)       \* no usable answer: fail open
  /\ Unmoved

\* authMiddleware, with X-BFF-Session-Id
Authenticate(r) ==
  /\ At(r, "auth")
  /\ Require(r, Active(req[r].ses), "run")
  /\ Unmoved

RunOperation(r) ==
  /\ At(r, "run")
  /\ done' = [done EXCEPT ![req[r].ses] = 1]
  /\ Answer(r)
  /\ UNCHANGED <<sessionVars, nonceVars, confirmed, accepted, now>>

\* Any statement may throw and the isolate may be evicted.
Abort(r) ==
  /\ ~At(r, "idle")
  /\ Answer(r)
  /\ Unmoved

Tick ==
  /\ now < MaxTime /\ now' = now + 1
  /\ UNCHANGED <<sessionVars, nonceVars, histVars, req>>

---------------------------------------------------------------------------
Arrive(r, s, from) ==
  \/ \E k \in Key : Enter(r, "bind", s, from, k, NONE, NONE)
  \/ Enter(r, "challenge", s, from, NONE, NONE, NONE)
  \/ \E k \in Key, n \in issued, aud \in Origin : Enter(r, "verify", s, from, k, n, aud)
  \/ from = origin[s] /\ Enter(r, "status", s, from, NONE, NONE, NONE)

Handle(r) ==
  \/ FindToBind(r) \/ StoreKey(r) \/ FindToChallenge(r) \/ \E n \in Nonce : InsertNonce(r, n)
  \/ CheckProof(r) \/ ConsumeNonce(r) \/ RequireBound(r) \/ Authenticate(r) \/ RunOperation(r)
  \/ Abort(r)

Next ==
  \/ \E s \in Session, u \in User, o \in Origin : CreateSession(s, u, o)
  \/ \E s \in Session : RevokeSession(s)
  \/ \E u \in User : RevokeAllByUser(u) \/ DeleteUser(u)
  \/ \E r \in Request, s \in Session, from \in Origin : Arrive(r, s, from)
  \/ \E r \in Request : Handle(r)
  \/ \E old \in SUBSET Nonce : CleanUpNonces(old)
  \/ Tick

Spec == Init /\ [][Next]_vars

---------------------------------------------------------------------------
(* Properties.                                                             *)

\* What a handler that has arrived knows.
Knows(q) ==
  /\ q.pc # "idle" => q.ses \in created /\ q.from \in Origin
  /\ q.pc \in {"bind", "store", "verify", "consume"} => q.key \in Key
  /\ q.pc \in {"verify", "consume"} => q.nonce \in issued
  /\ q.pc = "consume" => q.key = key[q.ses]

\* Every variable has its type; a proof that has passed its checks was signed by
\* the key that is still the session's.
TypeOK ==
  /\ rows \subseteq created /\ created \subseteq Session /\ revoked \subseteq created
  /\ owner \in [Session -> User \cup {NONE}] /\ origin \in [Session -> Origin \cup {NONE}]
  /\ expiresAt \in [Session -> Nat] /\ key \in [Session -> Key \cup {NONE}]
  /\ nonces \subseteq issued /\ issued \subseteq Nonce /\ consumed \subseteq issued
  /\ about \in [Nonce -> Session \cup {NONE}] /\ nonceEnd \in [Nonce -> Nat]
  /\ now \in Nat
  /\ req \in [Request -> Handler] /\ \A r \in Request : Knows(req[r])
  /\ confirmed \in [Session -> SUBSET Key] /\ accepted \in [Nonce -> Nat]
  /\ done \in [Session -> {0, 1}]

\* A challenge is answered once, however many copies of its proof are verified
\* at the same time and however late.
NonceOnce == \A n \in Nonce : accepted[n] <= 1

\* A browser that was told its key is bound can rely on it: no parallel or later
\* registration replaces the key, and none is told so beside it.
ConfirmedKeyHolds == \A s \in Session : confirmed[s] \subseteq {key[s]}

\* A proof is accepted only of the key that is bound to the session, for the
\* session's own BFF, and over a nonce issued for that session and not yet over.
ProofFitsSession ==
  [][\A n \in Nonce : accepted'[n] # accepted[n] =>
       \E r \in Request : LET q == req[r] IN
         /\ At(r, "consume") /\ req'[r] # q /\ q.nonce = n
         /\ about[n] = q.ses /\ nonceEnd[n] > now
         /\ q.key = key[q.ses] /\ q.from = origin[q.ses] /\ q.aud = q.from]_vars

\* A session that is over when a request arrives gives it nothing: no key is
\* bound, no nonce issued, no proof accepted, no operation run.  And a session that
\* ends while a key is being registered gets none.
OverIsOver ==
  [][/\ \A r \in Request :
         req[r].late /\ req'[r] # req[r] => UNCHANGED <<key, issued, accepted, done>>
     /\ \A s \in Session : key'[s] # key[s] => s \in rows \ revoked /\ expiresAt[s] > now]_vars

\* Under enforcement a sensitive operation runs only for a session with a device
\* key, unless the status could not be had.
EnforcedMeansBound ==
  [][\A r \in Request :
       At(r, "run") /\ done' # done /\ req'[r] # req[r] =>
         key[req[r].ses] # NONE \/ req[r].degraded \/ ~Enforce]_vars
=============================================================================
