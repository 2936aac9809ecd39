------------------------- MODULE BffSessionsProofs -------------------------
(***************************************************************************)
(* Theorems about BffSessions, for every number of sessions, keys, nonces  *)
(* and parallel handlers, and any clock.                                   *)
(***************************************************************************)
EXTENDS BffSessions, TLAPS

RowsOK ==
  /\ rows \subseteq created /\ created \subseteq Session /\ revoked \subseteq created
  /\ owner \in [Session -> User \cup {NONE}] /\ origin \in [Session -> Origin \cup {NONE}]
  /\ expiresAt \in [Session -> Nat] /\ key \in [Session -> Key \cup {NONE}]
NoncesOK ==
  /\ nonces \subseteq issued /\ issued \subseteq Nonce /\ consumed \subseteq issued
  /\ about \in [Nonce -> Session \cup {NONE}] /\ nonceEnd \in [Nonce -> Nat]
RestOK ==
  /\ now \in Nat
  /\ confirmed \in [Session -> SUBSET Key] /\ accepted \in [Nonce -> Nat]
  /\ done \in [Session -> {0, 1}]

\* What the checks a handler has passed still say, at each of its steps.
Holds(q) ==
  /\ q.pc # "idle" /\ q.late => ~Active(q.ses)
  /\ q.pc \in {"store", "insert", "consume", "run"} => ~q.late
  /\ q.pc = "consume" => q.from = origin[q.ses] /\ q.aud = origin[q.ses]
  /\ q.pc \in {"auth", "run"} => key[q.ses] # NONE \/ q.degraded \/ ~Enforce

SlotsOK == req \in [Request -> Handler] /\ \A r \in Request : Knows(req[r]) /\ Holds(req[r])

\* A nonce was accepted as often as it was consumed; a key that /bind said is
\* bound is the key of the session.
Accounts ==
  /\ \A n \in Nonce : accepted[n] = IF n \in consumed THEN 1 ELSE 0
  /\ \A s \in Session : confirmed[s] \subseteq {key[s]}

IInv == RowsOK /\ NoncesOK /\ RestOK /\ SlotsOK /\ Accounts

LEMMA TypeFollows == IInv => TypeOK
BY DEF IInv, TypeOK, RowsOK, NoncesOK, RestOK, SlotsOK

LEMMA IdleOK == Idle \in Handler /\ Idle.pc = "idle" /\ ~Idle.late
BY DEF Idle, Handler, PC

LEMMA InitHolds == Init => IInv
<1>. SUFFICES ASSUME Init PROVE IInv
  OBVIOUS
<1>1. SlotsOK
  BY IdleOK DEF Init, SlotsOK, Knows, Holds
<1>2. RowsOK /\ NoncesOK /\ RestOK /\ Accounts
  BY DEF Init, RowsOK, NoncesOK, RestOK, Accounts
<1>. QED
  BY <1>1, <1>2 DEF IInv

---------------------------------------------------------------------------
(* What no step takes back: an origin, a device key, the end of a session. *)

Ageing ==
  /\ created \subseteq created' /\ issued \subseteq issued'
  /\ \A s \in created : /\ origin'[s] = origin[s]
                        /\ key[s] # NONE => key'[s] = key[s]
                        /\ ~Active(s) => ~Active(s)'

LEMMA QuietAges ==
  ASSUME RowsOK, RestOK, UNCHANGED <<rows, created, origin, expiresAt, revoked, key>>,
         issued \subseteq issued', now' \in Nat, now' >= now
  PROVE  Ageing
<1>1. ASSUME NEW s \in created, ~Active(s)
      PROVE  ~Active(s)'
  <2>1. expiresAt[s] \in Nat
    BY DEF RowsOK
  <2>. QED
    BY <1>1, <2>1 DEF Active, RestOK
<1>. QED
  BY <1>1 DEF Ageing

LEMMA Ages ==
  ASSUME RowsOK, NoncesOK, RestOK, SlotsOK, [Next]_vars
  PROVE  Ageing
<1>1. ASSUME NEW s \in Session, NEW u \in User, NEW o \in Origin, CreateSession(s, u, o)
      PROVE  Ageing
  BY <1>1 DEF CreateSession, nonceVars, Ageing, Active, RowsOK
<1>2. ASSUME NEW gone, Revoke(gone)
      PROVE  Ageing
  BY <1>2 DEF Revoke, nonceVars, Ageing, Active, RowsOK
<1>3. ASSUME NEW u \in User, DeleteUser(u)
      PROVE  Ageing
  BY <1>3 DEF DeleteUser, Ageing, Active, RowsOK
<1>4. ASSUME NEW r \in Request, StoreKey(r)
      PROVE  Ageing
  <2>1. req[r].ses \in Session
    BY <1>4 DEF StoreKey, SlotsOK, Knows, At, RowsOK
  <2>. QED
    BY <1>4, <2>1 DEF StoreKey, Bindable, nonceVars, Ageing, Active, RowsOK
<1>5. CASE Tick
  BY QuietAges, <1>5 DEF Tick, sessionVars, nonceVars, RestOK
<1>6. ASSUME NEW r \in Request, NEW s \in Session, NEW from \in Origin, Arrive(r, s, from)
      PROVE  Ageing
  BY QuietAges, <1>6 DEF Arrive, Enter, Unmoved, sessionVars, nonceVars, RestOK
<1>7. ASSUME NEW r \in Request, Handle(r)
      PROVE  Ageing
  <2>1. CASE StoreKey(r)
    BY <1>4, <2>1
  <2>2. ASSUME NEW n \in Nonce, InsertNonce(r, n)
        PROVE  Ageing
    BY QuietAges, <2>2 DEF InsertNonce, sessionVars, RestOK
  <2>3. CASE ConsumeNonce(r) \/ RunOperation(r)
    BY QuietAges, <2>3 DEF ConsumeNonce, RunOperation, sessionVars, nonceVars, RestOK
  <2>4. CASE FindToBind(r) \/ FindToChallenge(r) \/ CheckProof(r) \/ RequireBound(r)
             \/ Authenticate(r) \/ Abort(r)
    <3>1. Unmoved
      BY <2>4 DEF FindToBind, FindToChallenge, CheckProof, RequireBound, Authenticate, Abort
    <3>. QED
      BY QuietAges, <3>1 DEF Unmoved, sessionVars, nonceVars, RestOK
  <2>. QED
    BY <1>7, <2>1, <2>2, <2>3, <2>4 DEF Handle
<1>8. ASSUME NEW old \in SUBSET Nonce, CleanUpNonces(old)
      PROVE  Ageing
  BY QuietAges, <1>8 DEF CleanUpNonces, sessionVars, RestOK
<1>9. CASE UNCHANGED vars
  BY QuietAges, <1>9 DEF vars, sessionVars, nonceVars, RestOK
<1>. QED
  BY <1>1, <1>2, <1>3, <1>5, <1>6, <1>7, <1>8, <1>9 DEF Next, RevokeSession, RevokeAllByUser

---------------------------------------------------------------------------
(* The slots.  What a handler knows stays true until it moves.             *)

LEMMA StillHolds ==
  ASSUME Ageing, NEW q \in Handler, Knows(q), Holds(q)
  PROVE  Knows(q)' /\ Holds(q)'
BY ConstantsAssumption DEF Ageing, Knows, Holds

LEMMA SlotsQuiet ==
  ASSUME SlotsOK, Ageing, UNCHANGED req
  PROVE  SlotsOK'
BY ConstantsAssumption DEF SlotsOK, Ageing, Knows, Holds

\* One slot changes.
LEMMA SlotStep ==
  ASSUME SlotsOK, Ageing, NEW r \in Request, NEW q \in Handler,
         req' = [req EXCEPT ![r] = q], Knows(q), Holds(q)
  PROVE  SlotsOK'
<1>1. Knows(q)' /\ Holds(q)'
  BY StillHolds
<1>2. req' \in [Request -> Handler]
  BY DEF SlotsOK
<1>3. ASSUME NEW p \in Request, p # r
      PROVE  Knows(req[p])' /\ Holds(req[p])'
  <2>1. PICK o \in Handler : o = req[p] /\ o = req'[p]
    BY <1>3 DEF SlotsOK
  <2>2. Knows(o)' /\ Holds(o)'
    BY <2>1, StillHolds DEF SlotsOK
  <2>. QED
    BY <2>1, <2>2 DEF Knows, Holds
<1>4. (Knows(req[r]) /\ Holds(req[r]))'
  BY <1>1 DEF SlotsOK, Knows, Holds
<1>. QED
  BY <1>2, <1>3, <1>4 DEF SlotsOK

LEMMA AnswerStep ==
  ASSUME SlotsOK, Ageing, NEW r \in Request, Answer(r)
  PROVE  SlotsOK'
<1>1. Knows(Idle) /\ Holds(Idle)
  BY IdleOK DEF Knows, Holds
<1>. QED
  BY <1>1, IdleOK, SlotStep DEF Answer

\* What is known of the handler in a slot.
LEMMA SlotFacts ==
  ASSUME SlotsOK, RowsOK, NEW r \in Request
  PROVE  /\ req[r] \in Handler /\ Knows(req[r]) /\ Holds(req[r])
         /\ ~At(r, "idle") => req[r].ses \in created /\ req[r].ses \in Session
         /\ (At(r, "bind") \/ At(r, "store")) => req[r].key \in Key
         /\ (At(r, "verify") \/ At(r, "consume")) => req[r].nonce \in issued
BY DEF SlotsOK, RowsOK, Knows, At

\* A handler goes on when a test held.
LEMMA GotoStep ==
  ASSUME SlotsOK, RowsOK, Ageing, NEW r \in Request, NEW pc \in PC, NEW degraded \in BOOLEAN,
         ~At(r, "idle"), Goto(r, pc, degraded), pc # "verify",
         pc \in {"bind", "store"} => At(r, "bind"),
         pc = "consume" => At(r, "verify") /\ ProofHolds(req[r]),
         pc \in {"store", "insert", "run"} => Active(req[r].ses),
         pc \in {"auth", "run"} => key[req[r].ses] # NONE \/ degraded \/ ~Enforce
  PROVE  SlotsOK'
<1>1. req[r] \in Handler /\ req[r].ses \in created /\ Knows(req[r]) /\ Holds(req[r])
  BY SlotFacts
<1>2. PICK q : q = [pc |-> pc, ses |-> req[r].ses, from |-> req[r].from, key |-> req[r].key,
                    nonce |-> req[r].nonce, aud |-> req[r].aud, late |-> req[r].late,
                    degraded |-> degraded]
  OBVIOUS
<1>3. q \in Handler
  BY <1>1, <1>2 DEF Handler
<1>4. Knows(q)
  BY <1>1, <1>2 DEF Knows, At, ProofHolds
<1>5. Holds(q)
  BY <1>1, <1>2 DEF Holds, At, ProofHolds
<1>. QED
  BY <1>2, <1>3, <1>4, <1>5, SlotStep DEF Goto

LEMMA EnterStep ==
  ASSUME SlotsOK, RowsOK, NoncesOK, Ageing, NEW r \in Request, NEW s \in Session, NEW from \in Origin,
         Arrive(r, s, from)
  PROVE  SlotsOK'
<1>1. PICK pc \in {"bind", "challenge", "verify", "status"}, k \in Key \cup {NONE},
           n \in Nonce \cup {NONE}, aud \in Origin \cup {NONE} :
        /\ Enter(r, pc, s, from, k, n, aud)
        /\ pc \in {"bind", "verify"} => k \in Key
        /\ pc = "verify" => n \in issued
  BY DEF Arrive, NoncesOK
<1>2. PICK q : q = [pc |-> pc, ses |-> s, from |-> from, key |-> k, nonce |-> n, aud |-> aud,
                    late |-> ~(s \in rows \ revoked /\ expiresAt[s] > now), degraded |-> FALSE]
  OBVIOUS
<1>3. q \in Handler
  BY <1>2 DEF Handler, PC
<1>4. Knows(q) /\ Holds(q)
  BY <1>1, <1>2 DEF Enter, Knows, Holds, Active
<1>. QED
  BY <1>1, <1>2, <1>3, <1>4, SlotStep DEF Enter

---------------------------------------------------------------------------
(* The inductive invariant: one step per statement.                        *)

LEMMA RevocationKeeps ==
  ASSUME IInv, NEW gone, Revoke(gone), Ageing
  PROVE  IInv'
BY SlotsQuiet DEF IInv, Revoke, nonceVars, histVars, RowsOK, NoncesOK, RestOK, Accounts

LEMMA DirectoryKeeps ==
  ASSUME IInv, Ageing,
         \/ \E s \in Session, u \in User, o \in Origin : CreateSession(s, u, o)
         \/ \E u \in User : DeleteUser(u)
         \/ \E old \in SUBSET Nonce : CleanUpNonces(old)
         \/ Tick
  PROVE  IInv'
<1>1. UNCHANGED <<req, histVars, consumed, key>>
  BY DEF CreateSession, DeleteUser, CleanUpNonces, Tick, sessionVars, nonceVars
<1>2. SlotsOK' /\ Accounts'
  BY <1>1, SlotsQuiet DEF IInv, histVars, Accounts
<1>3. RowsOK'
  BY ConstantsAssumption
     DEF CreateSession, DeleteUser, CleanUpNonces, Tick, sessionVars, IInv, RowsOK, RestOK
<1>4. NoncesOK'
  BY DEF CreateSession, DeleteUser, CleanUpNonces, Tick, nonceVars, IInv, NoncesOK
<1>5. RestOK'
  BY <1>1 DEF CreateSession, DeleteUser, CleanUpNonces, Tick, histVars, IInv, RestOK
<1>. QED
  BY <1>2, <1>3, <1>4, <1>5 DEF IInv

\* A step that moves no more than a slot.
LEMMA UnmovedKeeps ==
  ASSUME IInv, Unmoved, SlotsOK'
  PROVE  IInv'
BY DEF IInv, Unmoved, sessionVars, nonceVars, histVars, RowsOK, NoncesOK, RestOK, Accounts

LEMMA BindKeeps ==
  ASSUME IInv, Ageing, NEW r \in Request, FindToBind(r) \/ StoreKey(r)
  PROVE  IInv'
<1>1. CASE FindToBind(r)
  <2>1. Answer(r) \/ (Goto(r, "store", req[r].degraded) /\ Active(req[r].ses))
    BY <1>1 DEF FindToBind, Require
  <2>2. req[r].degraded \in BOOLEAN /\ At(r, "bind") /\ Unmoved
    BY <1>1, SlotFacts DEF FindToBind, IInv, Handler
  <2>3. SlotsOK'
    BY <2>1, <2>2, AnswerStep, GotoStep DEF IInv, At, PC
  <2>. QED
    BY <2>2, <2>3, UnmovedKeeps
<1>2. CASE StoreKey(r)
  <2>1. req[r].ses \in Session /\ req[r].key \in Key
    BY <1>2, SlotFacts DEF StoreKey, IInv, At
  <2>2. SlotsOK'
    BY <1>2, AnswerStep DEF StoreKey, IInv
  <2>3. RowsOK' /\ NoncesOK' /\ RestOK'
    BY <1>2, <2>1 DEF StoreKey, nonceVars, IInv, RowsOK, NoncesOK, RestOK
  <2>4. Accounts'
    BY <1>2, <2>1, ConstantsAssumption
       DEF StoreKey, Bindable, nonceVars, IInv, RowsOK, RestOK, Accounts
  <2>. QED
    BY <2>2, <2>3, <2>4 DEF IInv
<1>. QED
  BY <1>1, <1>2

LEMMA ChallengeKeeps ==
  ASSUME IInv, Ageing, NEW r \in Request, FindToChallenge(r) \/ \E n \in Nonce : InsertNonce(r, n)
  PROVE  IInv'
<1>1. CASE FindToChallenge(r)
  <2>1. Answer(r) \/ (Goto(r, "insert", req[r].degraded) /\ Active(req[r].ses))
    BY <1>1 DEF FindToChallenge, Require
  <2>2. req[r].degraded \in BOOLEAN /\ At(r, "challenge") /\ Unmoved
    BY <1>1, SlotFacts DEF FindToChallenge, IInv, Handler
  <2>3. SlotsOK'
    BY <2>1, <2>2, AnswerStep, GotoStep DEF IInv, At, PC
  <2>. QED
    BY <2>2, <2>3, UnmovedKeeps
<1>2. ASSUME NEW n \in Nonce, InsertNonce(r, n)
      PROVE  IInv'
  <2>1. req[r].ses \in Session
    BY <1>2, SlotFacts DEF InsertNonce, IInv, At
  <2>2. SlotsOK'
    BY <1>2, AnswerStep DEF InsertNonce, IInv
  <2>3. RowsOK' /\ NoncesOK' /\ RestOK' /\ Accounts'
    BY <1>2, <2>1, ConstantsAssumption
       DEF InsertNonce, sessionVars, histVars, IInv, RowsOK, NoncesOK, RestOK, Accounts
  <2>. QED
    BY <2>2, <2>3 DEF IInv
<1>. QED
  BY <1>1, <1>2

LEMMA VerifyKeeps ==
  ASSUME IInv, Ageing, NEW r \in Request, CheckProof(r) \/ ConsumeNonce(r)
  PROVE  IInv'
<1>1. CASE CheckProof(r)
  <2>1. Answer(r) \/ (Goto(r, "consume", req[r].degraded) /\ ProofHolds(req[r]))
    BY <1>1 DEF CheckProof, Require
  <2>2. req[r].degraded \in BOOLEAN /\ At(r, "verify") /\ Unmoved
    BY <1>1, SlotFacts DEF CheckProof, IInv, Handler
  <2>3. SlotsOK'
    BY <2>1, <2>2, AnswerStep, GotoStep DEF IInv, At, PC
  <2>. QED
    BY <2>2, <2>3, UnmovedKeeps
<1>2. CASE ConsumeNonce(r)
  <2>1. req[r].nonce \in issued
    BY <1>2, SlotFacts DEF ConsumeNonce, IInv, At
  <2>2. SlotsOK'
    BY <1>2, AnswerStep DEF ConsumeNonce, IInv
  <2>3. RowsOK' /\ NoncesOK' /\ RestOK'
    BY <1>2, <2>1 DEF ConsumeNonce, sessionVars, IInv, RowsOK, NoncesOK, RestOK
  <2>4. Accounts'
    BY <1>2, <2>1 DEF ConsumeNonce, Fresh, sessionVars, IInv, NoncesOK, RestOK, Accounts
  <2>. QED
    BY <2>2, <2>3, <2>4 DEF IInv
<1>. QED
  BY <1>1, <1>2

LEMMA OperationKeeps ==
  ASSUME IInv, Ageing, NEW r \in Request, RequireBound(r) \/ Authenticate(r) \/ RunOperation(r)
  PROVE  IInv'
<1>1. CASE RequireBound(r) \/ Authenticate(r)
  <2>1. PICK degraded \in BOOLEAN : degraded = req[r].degraded
    BY SlotFacts DEF IInv, Handler
  <2>2. ~At(r, "idle") /\ Unmoved /\ Holds(req[r])
    BY <1>1, SlotFacts DEF RequireBound, Authenticate, IInv, At
  <2>3. \/ Answer(r)
        \/ Goto(r, "auth", degraded) /\ (key[req[r].ses] # NONE \/ ~Enforce)
        \/ Goto(r, "auth", TRUE)
        \/ /\ Goto(r, "run", degraded) /\ Active(req[r].ses)
           /\ key[req[r].ses] # NONE \/ degraded \/ ~Enforce
    BY <1>1, <2>1, <2>2
       DEF RequireBound, Authenticate, Require, MayProceed, DeviceBound, Holds, At
  <2>4. SlotsOK'
    BY <2>2, <2>3, AnswerStep, GotoStep DEF IInv, PC
  <2>. QED
    BY <2>2, <2>4, UnmovedKeeps
<1>2. CASE RunOperation(r)
  <2>1. req[r].ses \in Session
    BY <1>2, SlotFacts DEF RunOperation, IInv, At
  <2>2. SlotsOK'
    BY <1>2, AnswerStep DEF RunOperation, IInv
  <2>3. RowsOK' /\ NoncesOK' /\ RestOK' /\ Accounts'
    BY <1>2, <2>1
       DEF RunOperation, sessionVars, nonceVars, IInv, RowsOK, NoncesOK, RestOK, Accounts
  <2>. QED
    BY <2>2, <2>3 DEF IInv
<1>. QED
  BY <1>1, <1>2

LEMMA NextKeeps == IInv /\ [Next]_vars => IInv' /\ Ageing
<1>. SUFFICES ASSUME IInv, [Next]_vars PROVE IInv' /\ Ageing
  OBVIOUS
<1>1. Ageing
  BY Ages DEF IInv
<1>2. ASSUME NEW r \in Request, NEW s \in Session, NEW from \in Origin, Arrive(r, s, from)
      PROVE  IInv'
  BY <1>1, <1>2, EnterStep, UnmovedKeeps DEF IInv, Arrive, Enter
<1>3. ASSUME NEW r \in Request, Handle(r)
      PROVE  IInv'
  <2>1. CASE Abort(r)
    BY <1>1, <2>1, AnswerStep, UnmovedKeeps DEF IInv, Abort
  <2>. QED
    BY <1>1, <1>3, <2>1, BindKeeps, ChallengeKeeps, VerifyKeeps, OperationKeeps DEF Handle
<1>4. CASE (\E s \in Session : RevokeSession(s)) \/ (\E u \in User : RevokeAllByUser(u))
  BY <1>1, <1>4, RevocationKeeps DEF RevokeSession, RevokeAllByUser
<1>5. CASE UNCHANGED vars
  BY <1>1, <1>5, SlotsQuiet, UnmovedKeeps DEF vars, Unmoved, IInv
<1>. QED
  BY <1>1, <1>2, <1>3, <1>4, <1>5, DirectoryKeeps DEF Next

---------------------------------------------------------------------------
(* The theorems.                                                           *)

\* The invariant of all that follows.
THEOREM Invariant == Spec => []IInv
<1>1. IInv /\ [Next]_vars => IInv'
  BY NextKeeps
<1>. QED
  BY <1>1, InitHolds, PTL DEF Spec

\* Every variable keeps its type, and a proof that has passed its checks was
\* signed by the key that is still the session's.
THEOREM TypeCorrect == Spec => []TypeOK
BY Invariant, TypeFollows, PTL

\* consumeDbscChallenge accepts a nonce once, whatever runs beside it.
THEOREM NonceIsOnce == Spec => []NonceOnce
<1>1. IInv => NonceOnce
  BY DEF IInv, Accounts, NonceOnce
<1>. QED
  BY <1>1, Invariant, PTL

\* A key that /auth/dbsc/bind confirmed stays the session's key, and no other was
\* ever confirmed for it.
THEOREM ConfirmedKeyStays == Spec => []ConfirmedKeyHolds
<1>1. IInv => ConfirmedKeyHolds
  BY DEF IInv, Accounts, ConfirmedKeyHolds
<1>. QED
  BY <1>1, Invariant, PTL

---------------------------------------------------------------------------
(* What one step may do, from the invariant.                               *)

\* The four statements that change what the action properties speak of.
LEMMA FourWrites ==
  ASSUME [Next]_vars
  PROVE  \/ UNCHANGED <<key, issued, accepted, done>>
         \/ \E r \in Request : \/ StoreKey(r) \/ ConsumeNonce(r) \/ RunOperation(r)
                             \/ \E n \in Nonce : InsertNonce(r, n)
<1>1. CASE \E s \in Session, u \in User, o \in Origin : CreateSession(s, u, o)
  BY <1>1 DEF CreateSession, nonceVars, histVars
<1>2. CASE \E s \in Session : RevokeSession(s)
  BY <1>2 DEF RevokeSession, Revoke, nonceVars, histVars
<1>3. CASE \E u \in User : RevokeAllByUser(u) \/ DeleteUser(u)
  BY <1>3 DEF RevokeAllByUser, Revoke, DeleteUser, nonceVars, histVars
<1>4. CASE \E old \in SUBSET Nonce : CleanUpNonces(old)
  BY <1>4 DEF CleanUpNonces, sessionVars, histVars
<1>5. CASE Tick \/ UNCHANGED vars
  BY <1>5 DEF Tick, vars, sessionVars, nonceVars, histVars
<1>6. CASE \E r \in Request, s \in Session, from \in Origin : Arrive(r, s, from)
  BY <1>6 DEF Arrive, Enter, Unmoved, sessionVars, nonceVars, histVars
<1>7. ASSUME NEW r \in Request,
             \/ FindToBind(r) \/ FindToChallenge(r) \/ CheckProof(r)
             \/ RequireBound(r) \/ Authenticate(r) \/ Abort(r)
      PROVE  UNCHANGED <<key, issued, accepted, done>>
  <2>1. Unmoved
    BY <1>7 DEF FindToBind, FindToChallenge, CheckProof, RequireBound, Authenticate, Abort
  <2>. QED
    BY <2>1 DEF Unmoved, sessionVars, nonceVars, histVars
<1>8. ASSUME NEW r \in Request, Handle(r)
      PROVE  \/ UNCHANGED <<key, issued, accepted, done>>
             \/ StoreKey(r) \/ ConsumeNonce(r) \/ RunOperation(r)
             \/ \E n \in Nonce : InsertNonce(r, n)
  BY <1>7, <1>8 DEF Handle
<1>. QED
  BY <1>1, <1>2, <1>3, <1>4, <1>5, <1>6, <1>8 DEF Next

LEMMA OnlyConsumeAccepts ==
  ASSUME IInv, [Next]_vars, NEW n \in Nonce, accepted'[n] # accepted[n]
  PROVE  \E r \in Request : ConsumeNonce(r) /\ req[r].nonce = n /\ Fresh(n, req[r].ses)
<1>1. PICK r \in Request : ConsumeNonce(r)
  BY FourWrites DEF StoreKey, RunOperation, InsertNonce, histVars
<1>2. accepted \in [Nonce -> Nat]
  BY DEF IInv, RestOK
<1>. QED
  BY <1>1, <1>2 DEF ConsumeNonce

\* The step that accepts a proof finds the nonce unused, of this session and not
\* over, and the key, the origin and the audience as they were checked.
THEOREM AcceptedProofFits == Spec => ProofFitsSession
<1>1. ASSUME IInv, [Next]_vars, NEW n \in Nonce, accepted'[n] # accepted[n]
      PROVE  \E r \in Request : LET q == req[r] IN
               /\ At(r, "consume") /\ req'[r] # q /\ q.nonce = n
               /\ about[n] = q.ses /\ nonceEnd[n] > now
               /\ q.key = key[q.ses] /\ q.from = origin[q.ses] /\ q.aud = q.from
  <2>1. PICK r \in Request : ConsumeNonce(r) /\ req[r].nonce = n /\ Fresh(n, req[r].ses)
    BY <1>1, OnlyConsumeAccepts
  <2>2. At(r, "consume") /\ Knows(req[r]) /\ Holds(req[r])
    BY <1>1, <2>1, SlotFacts DEF ConsumeNonce, IInv
  <2>3. req'[r] = Idle
    BY <1>1, <2>1 DEF ConsumeNonce, Answer, IInv, SlotsOK
  <2>4. req'[r] # req[r]
    BY <2>2, <2>3, IdleOK DEF At
  <2>. QED
    BY <2>1, <2>2, <2>4 DEF At, Knows, Holds, Fresh
<1>2. IInv /\ [Next]_vars => [\A n \in Nonce : accepted'[n] # accepted[n] =>
        \E r \in Request : LET q == req[r] IN
          /\ At(r, "consume") /\ req'[r] # q /\ q.nonce = n
          /\ about[n] = q.ses /\ nonceEnd[n] > now
          /\ q.key = key[q.ses] /\ q.from = origin[q.ses] /\ q.aud = q.from]_vars
  BY <1>1
<1>. QED
  BY <1>2, Invariant, PTL DEF Spec, ProofFitsSession

LEMMA LateGetsNothing ==
  ASSUME IInv, [Next]_vars, NEW r \in Request, req'[r] # req[r], req[r].late
  PROVE  UNCHANGED <<key, issued, accepted, done>>
<1>1. Holds(req[r])
  BY SlotFacts DEF IInv
<1>2. ASSUME NEW p \in Request, StoreKey(p) \/ (\E n \in Nonce : InsertNonce(p, n))
             \/ ConsumeNonce(p) \/ RunOperation(p)
      PROVE  FALSE
  <2>1. Answer(p)
    BY <1>2 DEF StoreKey, InsertNonce, ConsumeNonce, RunOperation
  <2>2. p = r
    BY <2>1 DEF Answer, IInv, SlotsOK
  <2>. QED
    BY <1>1, <1>2, <2>2 DEF StoreKey, InsertNonce, ConsumeNonce, RunOperation, Holds, At
<1>. QED
  BY <1>2, FourWrites

LEMMA KeyOfActive ==
  ASSUME IInv, [Next]_vars, NEW s \in Session, key'[s] # key[s]
  PROVE  s \in rows \ revoked /\ expiresAt[s] > now
<1>1. PICK p \in Request : StoreKey(p)
  BY FourWrites DEF InsertNonce, ConsumeNonce, RunOperation, sessionVars
<1>2. key' = [key EXCEPT ![req[p].ses] = req[p].key] /\ Bindable(req[p].ses)
  BY <1>1 DEF StoreKey
<1>3. req[p].ses = s
  BY <1>2 DEF IInv, SlotsOK, TypeOK
<1>. QED
  BY <1>2, <1>3 DEF Bindable, Active

\* A request that arrives for a session that is over is refused before it binds a
\* key, gets a nonce, has a proof accepted or runs an operation; and a session that
\* ends before the UPDATE of a registration gets no key.
THEOREM OverStaysOver == Spec => OverIsOver
<1>1. IInv /\ [Next]_vars => [\A r \in Request :
        req[r].late /\ req'[r] # req[r] => UNCHANGED <<key, issued, accepted, done>>]_vars
  BY LateGetsNothing
<1>2. IInv /\ [Next]_vars => [\A s \in Session :
        key'[s] # key[s] => s \in rows \ revoked /\ expiresAt[s] > now]_vars
  BY KeyOfActive
<1>3. IInv /\ [Next]_vars =>
        [/\ \A r \in Request :
              req[r].late /\ req'[r] # req[r] => UNCHANGED <<key, issued, accepted, done>>
         /\ \A s \in Session :
              key'[s] # key[s] => s \in rows \ revoked /\ expiresAt[s] > now]_vars
  BY <1>1, <1>2
<1>. QED
  BY <1>3, Invariant, PTL DEF Spec, OverIsOver

\* Under DBSC_ENFORCE_SENSITIVE a sensitive operation runs for a session with a
\* device key, or after a failure of the status call.
THEOREM EnforcementHolds == Spec => EnforcedMeansBound
<1>1. IInv /\ [Next]_vars => [\A r \in Request :
        At(r, "run") /\ done' # done /\ req'[r] # req[r] =>
          key[req[r].ses] # NONE \/ req[r].degraded \/ ~Enforce]_vars
  BY SlotFacts DEF IInv, At, Holds
<1>. QED
  BY <1>1, Invariant, PTL DEF Spec, EnforcedMeansBound
=============================================================================
