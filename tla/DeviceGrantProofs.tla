------------------------- MODULE DeviceGrantProofs -------------------------
(***************************************************************************)
(* Theorems about DeviceGrant, for every number of codes, users, services  *)
(* and parallel handlers, and any clock.                                   *)
(***************************************************************************)
EXTENDS DeviceGrant, TLAPS

RowsOK ==
  /\ rows \subseteq created /\ created \subseteq Code /\ denied \subseteq created
  /\ service \in [Code -> Service \cup {NONE}] /\ expiresAt \in [Code -> Nat]
  /\ approvedBy \in [Code -> User \cup {NONE}]
  /\ polledAt \in [Code -> Nat \cup {-1}]
RestOK ==
  /\ users \subseteq User /\ banned \subseteq User /\ services \subseteq Service
  /\ now \in Nat
  /\ pairs \in [Code -> Nat] /\ decided \in [Code -> Nat]
SlotsOK == req \in [Request -> Handler] /\ \A r \in Request : Knows(req[r])

\* Now and in the next state.
LEMMA TypeParts ==
  /\ TypeOK <=> RowsOK /\ RestOK /\ SlotsOK
  /\ TypeOK' <=> RowsOK' /\ RestOK' /\ SlotsOK'
BY DEF TypeOK, RowsOK, RestOK, SlotsOK

LEMMA IdleOK == Idle \in Handler /\ Idle.pc = "idle"
BY DEF Idle, Handler, PC

LEMMA InitType == Init => TypeOK
<1>. SUFFICES ASSUME Init PROVE TypeOK
  OBVIOUS
<1>1. SlotsOK
  BY IdleOK DEF Init, SlotsOK, Knows
<1>2. RowsOK /\ RestOK
  BY DEF Init, RowsOK, RestOK
<1>. QED
  BY <1>1, <1>2, TypeParts

---------------------------------------------------------------------------
(* The slot of one request changes; codes that were created stay created.  *)

LEMMA SlotStep ==
  ASSUME SlotsOK, NEW r \in Request, NEW q \in Handler,
         req' = [req EXCEPT ![r] = q], Knows(q)', created \subseteq created'
  PROVE  SlotsOK'
BY DEF SlotsOK, Knows

LEMMA AnswerStep ==
  ASSUME SlotsOK, NEW r \in Request, Answer(r), created \subseteq created'
  PROVE  SlotsOK'
<1>1. Knows(Idle)'
  BY IdleOK DEF Knows
<1>. QED
  BY <1>1, IdleOK, SlotStep DEF Answer

LEMMA GotoStep ==
  ASSUME SlotsOK, NEW r \in Request, NEW pc \in PC, NEW u \in User \cup {NONE},
         ~At(r, "idle"), Goto(r, pc, u), created \subseteq created',
         pc \in {"user", "find", "write"} => req[r].actor \in User,
         pc \in {"lookup", "owner", "take", "issue"} => req[r].actor \in Service,
         pc \in {"owner", "take", "issue"} => u \in User
  PROVE  SlotsOK'
<1>1. req[r] \in Handler /\ req[r].code \in created
  BY DEF SlotsOK, Knows, At
<1>2. PICK q : q = [pc |-> pc, code |-> req[r].code, actor |-> req[r].actor, approve |-> req[r].approve,
                    owner |-> u, late |-> req[r].late, barred |-> req[r].barred]
  OBVIOUS
<1>3. q \in Handler
  BY <1>1, <1>2 DEF Handler
<1>4. Knows(q)'
  BY <1>1, <1>2 DEF Knows
<1>. QED
  BY <1>2, <1>3, <1>4, SlotStep DEF Goto

LEMMA EnterStep ==
  ASSUME SlotsOK, RowsOK, NEW r \in Request, NEW pc \in {"user", "lookup"}, NEW c \in created,
         NEW who \in User \cup Service, NEW approve \in BOOLEAN, NEW late \in BOOLEAN,
         NEW barred \in SUBSET User, Enter(r, pc, c, who, approve, late, barred),
         pc = "user" => who \in User, pc = "lookup" => who \in Service, created \subseteq created'
  PROVE  SlotsOK'
<1>1. PICK q : q = [pc |-> pc, code |-> c, actor |-> who, approve |-> approve, owner |-> NONE,
                    late |-> late, barred |-> barred]
  OBVIOUS
<1>2. q \in Handler
  BY <1>1 DEF Handler, PC, RowsOK
<1>3. Knows(q)'
  BY <1>1 DEF Knows
<1>. QED
  BY <1>1, <1>2, <1>3, SlotStep DEF Enter

\* What is known of the handler in a slot.
LEMMA SlotFacts ==
  ASSUME SlotsOK, RowsOK, NEW r \in Request
  PROVE  /\ req[r] \in Handler /\ req[r].owner \in User \cup {NONE}
         /\ ~At(r, "idle") => req[r].code \in created /\ req[r].code \in Code
         /\ (At(r, "user") \/ At(r, "find") \/ At(r, "write")) => req[r].actor \in User
         /\ (At(r, "lookup") \/ At(r, "owner") \/ At(r, "take") \/ At(r, "issue"))
              => req[r].actor \in Service
         /\ (At(r, "owner") \/ At(r, "take") \/ At(r, "issue")) => req[r].owner \in User
<1>1. req[r] \in Handler /\ Knows(req[r])
  BY DEF SlotsOK
<1>. QED
  BY <1>1 DEF Knows, At, Handler, RowsOK

LEMMA DeleteRows ==
  ASSUME RowsOK, NEW codes, Delete(codes)
  PROVE  RowsOK' /\ created \subseteq created'
BY DEF RowsOK, Delete

LEMMA RowsQuiet == ASSUME RowsOK, UNCHANGED rowVars PROVE RowsOK' /\ created \subseteq created'
BY DEF RowsOK, rowVars

LEMMA RestQuiet ==
  ASSUME RestOK, UNCHANGED <<dirVars, histVars, now>> PROVE RestOK'
BY DEF RestOK, dirVars, histVars

LEMMA SlotsQuiet ==
  ASSUME SlotsOK, UNCHANGED req, created \subseteq created' PROVE SlotsOK'
BY DEF SlotsOK, Knows

---------------------------------------------------------------------------
(* Type correctness: one step per statement.                               *)

LEMMA CreateType ==
  ASSUME TypeOK, NEW c \in Code, NEW s \in Service, CreateDeviceCode(c, s)
  PROVE  TypeOK'
<1>1. RowsOK'
  BY ConstantsAssumption, TypeParts DEF CreateDeviceCode, RowsOK, RestOK
<1>2. RestOK'
  BY TypeParts, RestQuiet DEF CreateDeviceCode
<1>3. SlotsOK'
  BY TypeParts, SlotsQuiet DEF CreateDeviceCode
<1>. QED
  BY <1>1, <1>2, <1>3, TypeParts

LEMMA VerifyType ==
  ASSUME TypeOK, NEW r \in Request, Verify(r)
  PROVE  TypeOK'
<1>1. RowsOK /\ RestOK /\ SlotsOK
  BY TypeParts
<1>2. ASSUME NEW u \in User, NEW c \in Code, NEW approve \in BOOLEAN, BeginVerify(r, u, c, approve)
      PROVE  TypeOK'
  <2>1. RowsOK' /\ created \subseteq created' /\ RestOK'
    BY <1>1, <1>2, RowsQuiet, RestQuiet DEF BeginVerify
  <2>2. SlotsOK'
    <3>1. Enter(r, "user", c, u, approve, FALSE, {}) /\ c \in created
      BY <1>2 DEF BeginVerify
    <3>2. {} \in SUBSET User /\ FALSE \in BOOLEAN /\ u \in User \cup Service
      OBVIOUS
    <3>. QED
      BY <1>1, <2>1, <3>1, <3>2, EnterStep
  <2>. QED
    BY <2>1, <2>2, TypeParts
<1>3. CASE RejectBannedUser(r) \/ FindToDecide(r)
  <2>1. RowsOK' /\ created \subseteq created' /\ RestOK'
    BY <1>1, <1>3, RowsQuiet, RestQuiet DEF RejectBannedUser, FindToDecide
  <2>2. ~At(r, "idle") /\ req[r].actor \in User
    BY <1>1, <1>3, SlotFacts DEF RejectBannedUser, FindToDecide, At
  <2>3. Answer(r) \/ Goto(r, "find", NONE) \/ Goto(r, "write", NONE)
    BY <1>3 DEF RejectBannedUser, FindToDecide
  <2>4. SlotsOK'
    BY <1>1, <2>1, <2>2, <2>3, AnswerStep, GotoStep DEF PC
  <2>. QED
    BY <2>1, <2>4, TypeParts
<1>4. CASE Decide(r)
  <2>1. req[r].code \in created /\ req[r].code \in Code /\ req[r].actor \in User
    BY <1>1, <1>4, SlotFacts DEF Decide, At
  <2>2. RowsOK' /\ created \subseteq created'
    BY <1>1, <1>4, <2>1 DEF Decide, RowsOK
  <2>3. RestOK'
    BY <1>1, <1>4, <2>1 DEF Decide, RestOK, dirVars
  <2>4. SlotsOK'
    BY <1>1, <1>4, <2>2, AnswerStep DEF Decide
  <2>. QED
    BY <2>2, <2>3, <2>4, TypeParts
<1>. QED
  BY <1>2, <1>3, <1>4 DEF Verify

LEMMA PollType ==
  ASSUME TypeOK, NEW r \in Request, Poll(r)
  PROVE  TypeOK'
<1>1. RowsOK /\ RestOK /\ SlotsOK
  BY TypeParts
<1>2. ASSUME NEW s \in Service, NEW c \in Code, BeginPoll(r, s, c)
      PROVE  TypeOK'
  <2>1. RowsOK' /\ created \subseteq created' /\ RestOK'
    BY <1>1, <1>2, RowsQuiet, RestQuiet DEF BeginPoll
  <2>2. SlotsOK'
    <3>1. Enter(r, "lookup", c, s, FALSE, Refused(c, s), banned) /\ c \in created
      BY <1>2 DEF BeginPoll
    <3>2. Refused(c, s) \in BOOLEAN /\ banned \in SUBSET User
      BY <1>1 DEF Refused, RestOK
    <3>. QED
      BY <1>1, <2>1, <3>1, <3>2, EnterStep
  <2>. QED
    BY <2>1, <2>2, TypeParts
<1>3. CASE LookUp(r)
  <2>1. RowsOK' /\ created \subseteq created' /\ RestOK'
    BY <1>1, <1>3, RowsQuiet, RestQuiet DEF LookUp
  <2>2. ~At(r, "idle") /\ req[r].actor \in Service /\ req[r].code \in Code
    BY <1>1, <1>3, SlotFacts DEF LookUp, At
  <2>3. PICK u \in User \cup {NONE} : u = approvedBy[req[r].code]
    BY <1>1, <2>2 DEF RowsOK
  <2>4. \/ Answer(r)
        \/ Goto(r, "delete", u) \/ Goto(r, "throttle", u)
        \/ Goto(r, "owner", u) /\ u # NONE
    BY <1>3, <2>3 DEF LookUp, Verdict
  <2>5. SlotsOK'
    BY <1>1, <2>1, <2>2, <2>3, <2>4, AnswerStep, GotoStep DEF PC
  <2>. QED
    BY <2>1, <2>5, TypeParts
<1>4. CASE Throttle(r)
  <2>1. ~At(r, "idle")
    BY <1>4 DEF Throttle, At
  <2>2. RowsOK' /\ created \subseteq created'
    BY <1>1, <1>4, <2>1, SlotFacts DEF Throttle, RowsOK, RestOK
  <2>3. RestOK' /\ SlotsOK'
    BY <1>1, <1>4, <2>2, RestQuiet, AnswerStep DEF Throttle
  <2>. QED
    BY <2>2, <2>3, TypeParts
<1>5. CASE LoadOwner(r)
  <2>1. RowsOK' /\ created \subseteq created' /\ RestOK'
    BY <1>1, <1>5, RowsQuiet, RestQuiet DEF LoadOwner
  <2>2. ~At(r, "idle") /\ req[r].actor \in Service /\ req[r].owner \in User
    BY <1>1, <1>5, SlotFacts DEF LoadOwner, At
  <2>3. Answer(r) \/ Goto(r, "delete", req[r].owner) \/ Goto(r, "take", req[r].owner)
    BY <1>5 DEF LoadOwner
  <2>4. SlotsOK'
    BY <1>1, <2>1, <2>2, <2>3, AnswerStep, GotoStep DEF PC
  <2>. QED
    BY <2>1, <2>4, TypeParts
<1>6. CASE DeleteCode(r)
  <2>1. RowsOK' /\ created \subseteq created' /\ RestOK'
    BY <1>1, <1>6, DeleteRows, RestQuiet DEF DeleteCode
  <2>2. SlotsOK'
    BY <1>1, <1>6, <2>1, AnswerStep DEF DeleteCode
  <2>. QED
    BY <2>1, <2>2, TypeParts
<1>7. CASE TakeCode(r)
  <2>1. RowsOK' /\ created \subseteq created' /\ RestOK'
    BY <1>1, <1>7, DeleteRows, RowsQuiet, RestQuiet DEF TakeCode
  <2>2. ~At(r, "idle") /\ req[r].actor \in Service /\ req[r].owner \in User
    BY <1>1, <1>7, SlotFacts DEF TakeCode, At
  <2>3. Answer(r) \/ Goto(r, "issue", req[r].owner)
    BY <1>7 DEF TakeCode
  <2>4. SlotsOK'
    BY <1>1, <2>1, <2>2, <2>3, AnswerStep, GotoStep DEF PC
  <2>. QED
    BY <2>1, <2>4, TypeParts
<1>8. CASE Issue(r)
  <2>1. RowsOK' /\ created \subseteq created'
    BY <1>1, <1>8, RowsQuiet DEF Issue
  <2>2. RestOK'
    BY <1>1, <1>8, SlotFacts DEF Issue, RestOK, dirVars, At
  <2>3. SlotsOK'
    BY <1>1, <1>8, <2>1, AnswerStep DEF Issue
  <2>. QED
    BY <2>1, <2>2, <2>3, TypeParts
<1>. QED
  BY <1>2, <1>3, <1>4, <1>5, <1>6, <1>7, <1>8 DEF Poll

LEMMA AbortType ==
  ASSUME TypeOK, NEW r \in Request, Abort(r)
  PROVE  TypeOK'
<1>1. RowsOK' /\ created \subseteq created' /\ RestOK'
  BY TypeParts, RowsQuiet, RestQuiet DEF Abort
<1>. QED
  BY <1>1, TypeParts, AnswerStep DEF Abort

LEMMA DirectoryType ==
  ASSUME TypeOK, Directory
  PROVE  TypeOK'
<1>1. RowsOK /\ RestOK /\ SlotsOK
  BY TypeParts
<1>2. ASSUME NEW u \in User, Unban(u)
      PROVE  TypeOK'
  <2>1. RowsOK' /\ created' = created
    BY <1>1, <1>2 DEF Unban, RowsOK, rowVars
  <2>2. RestOK'
    BY <1>1, <1>2 DEF Unban, RestOK, histVars
  <2>3. \A r \in Request : [req[r] EXCEPT !.barred = @ \ {u}] \in Handler
    BY <1>1 DEF SlotsOK, Handler
  <2>4. req' \in [Request -> Handler]
    BY <1>2, <2>3 DEF Unban
  <2>5. ASSUME NEW r \in Request
        PROVE  Knows(req[r])'
    <3>1. req[r] \in Handler /\ Knows(req[r])
      BY <1>1 DEF SlotsOK
    <3>2. /\ req'[r].pc = req[r].pc /\ req'[r].code = req[r].code
          /\ req'[r].actor = req[r].actor /\ req'[r].owner = req[r].owner
      BY <1>2, <3>1 DEF Unban, Handler
    <3>. QED
      BY <2>1, <3>1, <3>2 DEF Knows
  <2>. QED
    BY <2>1, <2>2, <2>4, <2>5, TypeParts DEF SlotsOK
<1>3. ASSUME NEW u \in User, Ban(u) \/ DeleteUser(u)
      PROVE  TypeOK'
  <2>1. RowsOK' /\ created \subseteq created'
    BY <1>1, <1>3, RowsQuiet, DeleteRows DEF Ban, DeleteUser
  <2>2. RestOK'
    BY <1>1, <1>3 DEF Ban, DeleteUser, RestOK, histVars
  <2>3. SlotsOK'
    BY <1>1, <1>3, <2>1, SlotsQuiet DEF Ban, DeleteUser
  <2>. QED
    BY <2>1, <2>2, <2>3, TypeParts
<1>4. ASSUME NEW s \in Service, DeleteService(s)
      PROVE  TypeOK'
  <2>1. RowsOK' /\ created \subseteq created'
    BY <1>1, <1>4, DeleteRows DEF DeleteService
  <2>2. RestOK'
    BY <1>1, <1>4 DEF DeleteService, RestOK, histVars
  <2>3. SlotsOK'
    BY <1>1, <1>4, <2>1, SlotsQuiet DEF DeleteService
  <2>. QED
    BY <2>1, <2>2, <2>3, TypeParts
<1>. QED
  BY <1>2, <1>3, <1>4 DEF Directory

LEMMA NextType == TypeOK /\ [Next]_vars => TypeOK'
<1>. SUFFICES ASSUME TypeOK, [Next]_vars PROVE TypeOK'
  OBVIOUS
<1>1. RowsOK /\ RestOK /\ SlotsOK
  BY TypeParts
<1>2. CASE DeleteExpired
  <2>1. RowsOK' /\ created \subseteq created' /\ RestOK'
    BY <1>1, <1>2, DeleteRows, RestQuiet DEF DeleteExpired
  <2>. QED
    BY <1>1, <1>2, <2>1, SlotsQuiet, TypeParts DEF DeleteExpired
<1>3. CASE Tick
  <2>1. RowsOK' /\ created \subseteq created'
    BY <1>1, <1>3, RowsQuiet DEF Tick
  <2>2. RestOK'
    BY <1>1, <1>3 DEF Tick, RestOK, dirVars, histVars
  <2>. QED
    BY <1>1, <1>3, <2>1, <2>2, SlotsQuiet, TypeParts DEF Tick
<1>4. CASE UNCHANGED vars
  <2>1. RowsOK' /\ created \subseteq created' /\ RestOK' /\ UNCHANGED req
    BY <1>1, <1>4, RowsQuiet, RestQuiet DEF vars
  <2>. QED
    BY <1>1, <2>1, SlotsQuiet, TypeParts
<1>. QED
  BY <1>2, <1>3, <1>4, CreateType, VerifyType, PollType, AbortType, DirectoryType DEF Next

\* Every reachable state of the device flow is type correct; a poll that is
\* about to issue tokens knows a user and a service to issue them for.
THEOREM TypeCorrect == Spec => []TypeOK
BY InitType, NextType, PTL DEF Spec

---------------------------------------------------------------------------
(* What a step does to the right to a token pair: six effects stand for    *)
(* all statements, and are all that the next theorems need.                *)

SameIssuing == \A q \in Request, d \in Code : Issuing(q, d)' <=> Issuing(q, d)

Quiet == UNCHANGED <<rows, created, pairs>> /\ SameIssuing
Offers(c) ==
  /\ c \in Code \ created /\ rows' = rows \cup {c} /\ created' = created \cup {c}
  /\ UNCHANGED pairs /\ SameIssuing
Loses(codes) ==
  /\ rows' = rows \ codes /\ UNCHANGED <<created, pairs>> /\ SameIssuing
TakesRight(r, c) ==
  /\ c \in rows /\ rows' = rows \ {c} /\ UNCHANGED <<created, pairs>>
  /\ \A q \in Request, d \in Code : Issuing(q, d)' <=> Issuing(q, d) \/ (q = r /\ d = c)
EndsIssuing(r, c) ==
  /\ Issuing(r, c) /\ UNCHANGED <<rows, created>>
  /\ \A q \in Request, d \in Code : Issuing(q, d)' <=> Issuing(q, d) /\ q # r
Uses(r, c) == EndsIssuing(r, c) /\ pairs' = [pairs EXCEPT ![c] = @ + 1]
Drops(r, c) == EndsIssuing(r, c) /\ UNCHANGED pairs

Effect ==
  \/ Quiet
  \/ \E c \in Code : Offers(c)
  \/ \E codes \in SUBSET Code : Loses(codes)
  \/ \E r \in Request, c \in Code : TakesRight(r, c) \/ Uses(r, c) \/ Drops(r, c)

LEMMA AnswerKeepsIssuing ==
  ASSUME TypeOK, NEW r \in Request, Answer(r), ~At(r, "issue")
  PROVE  SameIssuing
BY IdleOK DEF TypeOK, Answer, SameIssuing, Issuing, At

LEMMA AnswerEndsIssuing ==
  ASSUME TypeOK, NEW r \in Request, Answer(r), UNCHANGED <<rows, created>>, At(r, "issue")
  PROVE  EndsIssuing(r, req[r].code) /\ req[r].code \in Code
<1>1. req[r].code \in Code
  BY DEF TypeOK, Knows, At
<1>2. \A q \in Request : req'[q] = IF q = r THEN Idle ELSE req[q]
  BY DEF TypeOK, Answer
<1>. QED
  BY <1>1, <1>2, IdleOK DEF EndsIssuing, Issuing, At

LEMMA GotoKeepsIssuing ==
  ASSUME TypeOK, NEW r \in Request, NEW pc \in PC, NEW u, Goto(r, pc, u),
         ~At(r, "issue"), pc # "issue"
  PROVE  SameIssuing
<1>1. \A q \in Request : q # r => req'[q] = req[q]
  BY DEF TypeOK, Goto
<1>2. req'[r].pc = pc
  BY DEF TypeOK, Goto
<1>. QED
  BY <1>1, <1>2 DEF SameIssuing, Issuing, At

LEMMA EnterKeepsIssuing ==
  ASSUME TypeOK, NEW r \in Request, NEW pc \in {"user", "lookup"}, NEW c, NEW who,
         NEW approve, NEW late, NEW barred, At(r, "idle"),
         Enter(r, pc, c, who, approve, late, barred)
  PROVE  SameIssuing
<1>1. \A q \in Request : q # r => req'[q] = req[q]
  BY DEF TypeOK, Enter
<1>2. req'[r].pc = pc
  BY DEF TypeOK, Enter
<1>. QED
  BY <1>1, <1>2 DEF SameIssuing, Issuing, At

LEMMA SameReq == ASSUME UNCHANGED req PROVE SameIssuing
BY DEF SameIssuing, Issuing, At

LEMMA DeleteLoses ==
  ASSUME TypeOK, NEW codes, Delete(codes), UNCHANGED pairs, SameIssuing
  PROVE  Effect
<1>. DEFINE lost == codes \cap Code
<1>1. Loses(lost) /\ lost \in SUBSET Code
  BY DEF TypeOK, Delete, Loses
<1>. QED
  BY <1>1 DEF Effect

LEMMA VerifyEffect ==
  ASSUME TypeOK, NEW r \in Request, Verify(r)
  PROVE  Effect
<1>1. UNCHANGED <<rows, created, pairs>>
  BY DEF Verify, BeginVerify, RejectBannedUser, FindToDecide, Decide, rowVars, histVars
<1>2. SameIssuing
  <2>1. ASSUME NEW u \in User, NEW c \in Code, NEW approve \in BOOLEAN, BeginVerify(r, u, c, approve)
        PROVE  SameIssuing
    BY <2>1, EnterKeepsIssuing DEF BeginVerify
  <2>2. CASE RejectBannedUser(r) \/ FindToDecide(r)
    <3>1. Answer(r) \/ Goto(r, "find", NONE) \/ Goto(r, "write", NONE)
      BY <2>2 DEF RejectBannedUser, FindToDecide
    <3>2. ~At(r, "issue")
      BY <2>2 DEF RejectBannedUser, FindToDecide, At
    <3>. QED
      BY <3>1, <3>2, AnswerKeepsIssuing, GotoKeepsIssuing DEF PC
  <2>3. CASE Decide(r)
    BY <2>3, AnswerKeepsIssuing DEF Decide, At
  <2>. QED
    BY <2>1, <2>2, <2>3 DEF Verify
<1>. QED
  BY <1>1, <1>2 DEF Effect, Quiet

LEMMA PollEffect ==
  ASSUME TypeOK, NEW r \in Request, Poll(r)
  PROVE  Effect
<1>1. ASSUME NEW s \in Service, NEW c \in Code, BeginPoll(r, s, c)
      PROVE  Effect
  BY <1>1, EnterKeepsIssuing DEF BeginPoll, rowVars, histVars, Effect, Quiet
<1>2. CASE LookUp(r)
  <2>. DEFINE u == approvedBy[req[r].code]
  <2>1. Answer(r) \/ Goto(r, "delete", u) \/ Goto(r, "throttle", u) \/ Goto(r, "owner", u)
    BY <1>2 DEF LookUp, Verdict
  <2>2. ~At(r, "issue") /\ UNCHANGED <<rows, created, pairs>>
    BY <1>2 DEF LookUp, At, rowVars, histVars
  <2>3. SameIssuing
    BY <2>1, <2>2, AnswerKeepsIssuing, GotoKeepsIssuing DEF PC
  <2>. QED
    BY <2>2, <2>3 DEF Effect, Quiet
<1>3. CASE Throttle(r)
  <2>1. ~At(r, "issue") /\ Answer(r) /\ UNCHANGED <<rows, created, pairs>>
    BY <1>3 DEF Throttle, At, histVars
  <2>. QED
    BY <2>1, AnswerKeepsIssuing DEF Effect, Quiet
<1>4. CASE LoadOwner(r)
  <2>. DEFINE u == req[r].owner
  <2>1. Answer(r) \/ Goto(r, "delete", u) \/ Goto(r, "take", u)
    BY <1>4 DEF LoadOwner
  <2>2. ~At(r, "issue") /\ UNCHANGED <<rows, created, pairs>>
    BY <1>4 DEF LoadOwner, At, rowVars, histVars
  <2>3. SameIssuing
    BY <2>1, <2>2, AnswerKeepsIssuing, GotoKeepsIssuing DEF PC
  <2>. QED
    BY <2>2, <2>3 DEF Effect, Quiet
<1>5. CASE DeleteCode(r)
  <2>1. SameIssuing /\ Delete({req[r].code}) /\ UNCHANGED pairs
    BY <1>5, AnswerKeepsIssuing DEF DeleteCode, At, histVars
  <2>. QED
    BY <2>1, DeleteLoses
<1>6. CASE TakeCode(r)
  <2>. DEFINE c == req[r].code
  <2>1. At(r, "take") /\ ~At(r, "issue") /\ c \in Code
    BY <1>6 DEF TakeCode, At, TypeOK, Knows
  <2>2. CASE Takes(c) /\ Goto(r, "issue", req[r].owner)
    <3>1. c \in rows /\ Delete({c}) /\ UNCHANGED pairs
      BY <1>6, <2>2 DEF TakeCode, Takes, histVars
    <3>2. \A q \in Request : q # r => req'[q] = req[q]
      BY <2>2 DEF Goto, TypeOK
    <3>3. req'[r].pc = "issue" /\ req'[r].code = c
      BY <2>2 DEF Goto, TypeOK
    <3>4. TakesRight(r, c)
      BY <2>1, <3>1, <3>2, <3>3 DEF TakesRight, Delete, Issuing, At
    <3>. QED
      BY <2>1, <3>4 DEF Effect
  <2>3. CASE Takes(c) /\ Answer(r)
    <3>1. Delete({c}) /\ UNCHANGED pairs /\ SameIssuing
      BY <1>6, <2>1, <2>3, AnswerKeepsIssuing DEF TakeCode, histVars
    <3>. QED
      BY <3>1, DeleteLoses
  <2>4. CASE ~Takes(c)
    <3>1. Answer(r) /\ UNCHANGED <<rows, created, pairs>>
      BY <1>6, <2>4 DEF TakeCode, rowVars, histVars
    <3>. QED
      BY <2>1, <3>1, AnswerKeepsIssuing DEF Effect, Quiet
  <2>. QED
    BY <1>6, <2>2, <2>3, <2>4 DEF TakeCode
<1>7. CASE Issue(r)
  <2>1. EndsIssuing(r, req[r].code) /\ req[r].code \in Code
    BY <1>7, AnswerEndsIssuing DEF Issue, rowVars
  <2>2. Uses(r, req[r].code)
    BY <1>7, <2>1 DEF Issue, Uses
  <2>. QED
    BY <2>1, <2>2 DEF Effect
<1>. QED
  BY <1>1, <1>2, <1>3, <1>4, <1>5, <1>6, <1>7 DEF Poll

LEMMA AbortEffect ==
  ASSUME TypeOK, NEW r \in Request, Abort(r)
  PROVE  Effect
<1>1. Answer(r) /\ UNCHANGED <<rows, created, pairs>>
  BY DEF Abort, rowVars, histVars
<1>2. CASE At(r, "issue")
  BY <1>1, <1>2, AnswerEndsIssuing DEF Effect, Drops
<1>3. CASE ~At(r, "issue")
  BY <1>1, <1>3, AnswerKeepsIssuing DEF Effect, Quiet
<1>. QED
  BY <1>2, <1>3

LEMMA DirectoryEffect ==
  ASSUME TypeOK, Directory
  PROVE  Effect
<1>1. ASSUME NEW u \in User, Ban(u)
      PROVE  Effect
  BY <1>1, SameReq DEF Ban, rowVars, histVars, Effect, Quiet
<1>2. ASSUME NEW u \in User, Unban(u)
      PROVE  Effect
  <2>1. \A q \in Request : req'[q].pc = req[q].pc /\ req'[q].code = req[q].code
    BY <1>2 DEF Unban, TypeOK, Handler
  <2>2. SameIssuing
    BY <2>1 DEF SameIssuing, Issuing, At
  <2>. QED
    BY <1>2, <2>2 DEF Unban, rowVars, histVars, Effect, Quiet
<1>3. ASSUME NEW u \in User, DeleteUser(u)
      PROVE  Effect
  BY <1>3, SameReq, DeleteLoses DEF DeleteUser, histVars
<1>4. ASSUME NEW s \in Service, DeleteService(s)
      PROVE  Effect
  BY <1>4, SameReq, DeleteLoses DEF DeleteService, histVars
<1>. QED
  BY <1>1, <1>2, <1>3, <1>4 DEF Directory

LEMMA NextEffect ==
  ASSUME TypeOK, [Next]_vars
  PROVE  Effect
<1>1. ASSUME NEW c \in Code, NEW s \in Service, CreateDeviceCode(c, s)
      PROVE  Effect
  BY <1>1, SameReq DEF CreateDeviceCode, histVars, Effect, Offers
<1>2. CASE DeleteExpired
  BY <1>2, SameReq, DeleteLoses DEF DeleteExpired, histVars
<1>3. CASE Tick \/ UNCHANGED vars
  BY <1>3, SameReq DEF Tick, vars, rowVars, histVars, Effect, Quiet
<1>. QED
  BY <1>1, <1>2, <1>3, VerifyEffect, PollEffect, AbortEffect, DirectoryEffect DEF Next

---------------------------------------------------------------------------
(* One token pair per code.                                                *)

LEMMA InitOneRight == Init => OneRight
BY IdleOK DEF Init, OneRight, OnePair, Issuing, At

LEMMA EffectKeepsOneRight ==
  ASSUME TypeOK, OneRight, Effect
  PROVE  OneRight'
<1>. USE DEF OneRight, OnePair
<1>0. /\ rows \subseteq created /\ created \subseteq Code /\ pairs \in [Code -> Nat]
      /\ \A r \in Request, c \in Code : Issuing(r, c) => c \in created
  BY DEF TypeOK, Knows, Issuing, At
<1>1. CASE Quiet
  BY <1>0, <1>1 DEF Quiet, SameIssuing
<1>2. ASSUME NEW c \in Code, Offers(c)
      PROVE  OneRight'
  BY <1>0, <1>2 DEF Offers, SameIssuing
<1>3. ASSUME NEW codes \in SUBSET Code, Loses(codes)
      PROVE  OneRight'
  BY <1>0, <1>3 DEF Loses, SameIssuing
<1>4. ASSUME NEW r \in Request, NEW c \in Code, TakesRight(r, c)
      PROVE  OneRight'
  BY <1>0, <1>4 DEF TakesRight
<1>5. ASSUME NEW r \in Request, NEW c \in Code, Uses(r, c)
      PROVE  OneRight'
  <2>1. /\ c \in created /\ c \notin rows /\ pairs[c] = 0 /\ pairs'[c] = 1
        /\ \A d \in Code : d # c => pairs'[d] = pairs[d]
        /\ \A q \in Request : ~Issuing(q, c)'
    BY <1>0, <1>5 DEF Uses, EndsIssuing
  <2>2. \A q \in Request, d \in Code : Issuing(q, d)' => Issuing(q, d)
    BY <1>5 DEF Uses, EndsIssuing
  <2>. QED
    BY <1>0, <1>5, <2>1, <2>2 DEF Uses, EndsIssuing
<1>6. ASSUME NEW r \in Request, NEW c \in Code, Drops(r, c)
      PROVE  OneRight'
  BY <1>0, <1>6 DEF Drops, EndsIssuing
<1>. QED
  BY <1>1, <1>2, <1>3, <1>4, <1>5, <1>6 DEF Effect

Inv == TypeOK /\ OneRight

LEMMA InvHolds == Spec => []Inv
<1>1. Init => Inv
  BY InitType, InitOneRight DEF Inv
<1>2. Inv /\ [Next]_vars => Inv'
  BY NextType, NextEffect, EffectKeepsOneRight DEF Inv
<1>. QED
  BY <1>1, <1>2, PTL DEF Spec

\* However many polls of however many devices run at once, and whatever else
\* deletes rows meanwhile, a device code buys at most one token pair.
THEOREM DeviceCodeBuysOnePair == Spec => []OnePair
<1>1. Inv => OnePair
  BY DEF Inv, OneRight
<1>. QED
  BY <1>1, InvHolds, PTL

---------------------------------------------------------------------------
(* The device flow implements OneTimeGrant.                                *)

LEMMA StageValues ==
  ASSUME Inv, NEW c \in Code
  PROVE  /\ c \notin created => StageOf(c) = "new"
         /\ c \in rows => StageOf(c) = "open"
         /\ c \in created \ rows /\ pairs[c] = 1 => StageOf(c) = "used"
         /\ c \in created \ rows /\ pairs[c] = 0 /\ (\E r \in Request : Issuing(r, c))
              => StageOf(c) = "taken"
         /\ c \in created \ rows /\ pairs[c] = 0 /\ (\A r \in Request : ~Issuing(r, c))
              => StageOf(c) = "void"
         /\ pairs[c] \in {0, 1}
<1>1. rows \subseteq created /\ pairs[c] \in Nat /\ pairs[c] <= 1 /\ (c \in rows => pairs[c] = 0)
  BY DEF Inv, TypeOK, OneRight, OnePair
<1>. QED
  BY <1>1 DEF StageOf

LEMMA StageValuesNext ==
  ASSUME Inv', NEW c \in Code
  PROVE  /\ c \notin created' => StageOf(c)' = "new"
         /\ c \in rows' => StageOf(c)' = "open"
         /\ c \in created' \ rows' /\ pairs'[c] = 1 => StageOf(c)' = "used"
         /\ c \in created' \ rows' /\ pairs'[c] = 0 /\ (\E r \in Request : Issuing(r, c)')
              => StageOf(c)' = "taken"
         /\ c \in created' \ rows' /\ pairs'[c] = 0 /\ (\A r \in Request : ~Issuing(r, c)')
              => StageOf(c)' = "void"
<1>1. rows' \subseteq created' /\ pairs'[c] \in Nat /\ pairs'[c] <= 1 /\ (c \in rows' => pairs'[c] = 0)
  BY DEF Inv, TypeOK, OneRight, OnePair
<1>. QED
  BY <1>1 DEF StageOf

Stages == [c \in Code |-> StageOf(c)]

LEMMA EffectRefines ==
  ASSUME Inv, Inv', Effect
  PROVE  Grants!Next \/ UNCHANGED Stages
<1>0. /\ rows \subseteq created /\ created \subseteq Code
      /\ \A r \in Request, c \in Code : Issuing(r, c) => c \in created
      /\ \A c \in rows : \A r \in Request : ~Issuing(r, c)
      /\ \A c \in Code, r \in Request : Issuing(r, c) => pairs[c] = 0
      /\ pairs \in [Code -> Nat]
  BY DEF Inv, TypeOK, OneRight, Knows, Issuing, At
<1>1. CASE Quiet
  <2>1. ASSUME NEW c \in Code
        PROVE  StageOf(c)' = StageOf(c)
    BY <1>1, StageValues, StageValuesNext DEF Quiet, SameIssuing
  <2>. QED
    BY <2>1 DEF Stages
<1>2. ASSUME NEW c \in Code, Offers(c)
      PROVE  Grants!Next
  <2>1. StageOf(c) = "new" /\ StageOf(c)' = "open"
    BY <1>0, <1>2, StageValues, StageValuesNext DEF Offers
  <2>2. ASSUME NEW d \in Code, d # c
        PROVE  StageOf(d)' = StageOf(d)
    BY <1>2, <2>2, StageValues, StageValuesNext DEF Offers, SameIssuing
  <2>3. Grants!Offer(c)
    BY <2>1, <2>2 DEF Grants!Offer, Grants!Move
  <2>. QED
    BY <2>3 DEF Grants!Next
<1>3. ASSUME NEW codes \in SUBSET Code, Loses(codes)
      PROVE  Grants!Next
  <2>. DEFINE lost == codes \cap rows
  <2>1. ASSUME NEW d \in lost
        PROVE  StageOf(d) = "open" /\ StageOf(d)' = "void"
    <3>1. d \in Code /\ d \in rows /\ d \in created' \ rows' /\ pairs'[d] = 0
      BY <1>0, <1>3 DEF Loses, Inv, OneRight
    <3>2. \A r \in Request : ~Issuing(r, d)'
      BY <1>0, <1>3, <3>1 DEF Loses, SameIssuing
    <3>. QED
      BY <3>1, <3>2, StageValues, StageValuesNext
  <2>2. ASSUME NEW d \in Code, d \notin lost
        PROVE  StageOf(d)' = StageOf(d)
    BY <1>3, <2>2, StageValues, StageValuesNext DEF Loses, SameIssuing
  <2>3. Grants!Withdraw(lost)
    BY <1>0, <2>1, <2>2 DEF Grants!Withdraw
  <2>4. lost \in SUBSET Code
    OBVIOUS
  <2>. QED
    BY <2>3, <2>4 DEF Grants!Next
<1>4. ASSUME NEW r \in Request, NEW c \in Code, TakesRight(r, c)
      PROVE  Grants!Next
  <2>1. StageOf(c) = "open" /\ StageOf(c)' = "taken"
    <3>1. c \in created' \ rows' /\ pairs'[c] = 0 /\ Issuing(r, c)'
      BY <1>0, <1>4 DEF TakesRight, Inv, OneRight
    <3>. QED
      BY <1>4, <3>1, StageValues, StageValuesNext DEF TakesRight
  <2>2. ASSUME NEW d \in Code, d # c
        PROVE  StageOf(d)' = StageOf(d)
    BY <1>4, <2>2, StageValues, StageValuesNext DEF TakesRight
  <2>3. Grants!Take(c)
    BY <2>1, <2>2 DEF Grants!Take, Grants!Move
  <2>. QED
    BY <2>3 DEF Grants!Next
<1>5. ASSUME NEW r \in Request, NEW c \in Code, Uses(r, c) \/ Drops(r, c)
      PROVE  Grants!Next
  <2>1. c \in created \ rows /\ pairs[c] = 0 /\ StageOf(c) = "taken"
    BY <1>0, <1>5, StageValues DEF Uses, Drops, EndsIssuing
  <2>2. \A q \in Request : ~Issuing(q, c)'
    BY <1>5 DEF Uses, Drops, EndsIssuing, Inv, OneRight
  <2>3. ASSUME NEW d \in Code, d # c
        PROVE  StageOf(d)' = StageOf(d)
    <3>1. \A q \in Request : Issuing(q, d)' <=> Issuing(q, d)
      BY <1>5, <2>3 DEF Uses, Drops, EndsIssuing, Issuing
    <3>2. pairs'[d] = pairs[d] /\ UNCHANGED <<rows, created>>
      BY <1>0, <1>5, <2>3 DEF Uses, Drops, EndsIssuing
    <3>. QED
      BY <3>1, <3>2, StageValues, StageValuesNext
  <2>4. CASE Uses(r, c)
    <3>1. StageOf(c)' = "used"
      BY <1>0, <2>1, <2>4, StageValuesNext DEF Uses, EndsIssuing
    <3>2. Grants!Use(c)
      BY <2>1, <2>3, <3>1 DEF Grants!Use, Grants!Move
    <3>. QED
      BY <3>2 DEF Grants!Next
  <2>5. CASE Drops(r, c)
    <3>1. StageOf(c)' = "void"
      BY <2>1, <2>2, <2>5, StageValuesNext DEF Drops, EndsIssuing
    <3>2. Grants!Withdraw({c})
      BY <2>1, <2>3, <3>1 DEF Grants!Withdraw
    <3>3. {c} \in SUBSET Code
      OBVIOUS
    <3>. QED
      BY <3>2, <3>3 DEF Grants!Next
  <2>. QED
    BY <1>5, <2>4, <2>5
<1>. QED
  BY <1>1, <1>2, <1>3, <1>4, <1>5 DEF Effect

LEMMA InitRefines == Init => Grants!Init
BY DEF Init, Grants!Init, StageOf

\* Every behaviour of the device flow is one of the one-time grant: a code is
\* offered once, one poll takes it, and that poll issues one pair or loses it.
THEOREM DeviceFlowIsOneTimeGrant == Spec => GrantOnce
<1>1. Inv /\ Inv' /\ [Next]_vars => [Grants!Next]_Stages
  BY NextEffect, EffectRefines DEF Inv
<1>2. [Grants!Next]_Stages => [Grants!Next]_([c \in Code |-> StageOf(c)])
  BY DEF Stages
<1>. QED
  BY <1>1, <1>2, InitRefines, InvHolds, PTL DEF Spec, GrantOnce, Grants!Spec

---------------------------------------------------------------------------
(* What a poll was barred from when it arrived, it stays barred from.      *)

\* The suspensions a poll arrived under are still in force; a poll past the
\* owner's row is not of a suspended user it arrived under; a poll that came
\* too late finds its row refused and never passes the look-up.
Honest(q) ==
  /\ q.barred \subseteq banned
  /\ q.pc \in {"take", "issue"} => q.owner \notin q.barred
  /\ q.pc = "lookup" /\ q.late => Refused(q.code, q.actor)
  /\ q.pc \in {"owner", "take", "issue"} => ~q.late

AllHonest == \A r \in Request : Honest(req[r])

\* Nothing lifts a refusal: rows do not come back, denials and expiry stay.
RefusalsStay == \A c \in created, s \in Service : Refused(c, s) => Refused(c, s)'

LEMMA NextKeepsRefusals ==
  ASSUME TypeOK, [Next]_vars
  PROVE  RefusalsStay
<1>0. /\ now \in Nat /\ rows \subseteq created /\ created \subseteq Code
      /\ expiresAt \in [Code -> Nat] /\ service \in [Code -> Service \cup {NONE}]
  BY DEF TypeOK
<1>1. CASE /\ rows' \subseteq rows /\ denied \subseteq denied'
           /\ UNCHANGED <<service, expiresAt>> /\ (now' = now \/ now' = now + 1)
  BY <1>0, <1>1 DEF RefusalsStay, Refused, Expired
<1>2. ASSUME NEW c \in Code, NEW s \in Service, CreateDeviceCode(c, s)
      PROVE  RefusalsStay
  <2>1. \A d \in created : /\ d # c /\ (d \in rows' <=> d \in rows)
                           /\ service'[d] = service[d] /\ expiresAt'[d] = expiresAt[d]
    BY <1>0, <1>2 DEF CreateDeviceCode
  <2>. QED
    BY <1>2, <2>1 DEF CreateDeviceCode, RefusalsStay, Refused, Expired
<1>3. CASE DeleteExpired \/ Directory \/ Tick \/ UNCHANGED vars
  BY <1>1, <1>3 DEF DeleteExpired, Directory, Ban, Unban, DeleteUser, DeleteService, Tick,
                    Delete, vars, rowVars
<1>4. ASSUME NEW r \in Request, Verify(r)
      PROVE  RefusalsStay
  <2>1. /\ UNCHANGED <<rows, service, expiresAt, now>> /\ denied \subseteq denied'
    BY <1>4 DEF Verify, BeginVerify, RejectBannedUser, FindToDecide, Decide, rowVars
  <2>. QED
    BY <1>1, <2>1
<1>5. ASSUME NEW r \in Request, Poll(r) \/ Abort(r)
      PROVE  RefusalsStay
  <2>1. /\ rows' \subseteq rows /\ UNCHANGED <<denied, service, expiresAt, now>>
    BY <1>5 DEF Poll, BeginPoll, LookUp, Throttle, LoadOwner, DeleteCode, TakeCode, Issue, Abort,
                Delete, rowVars
  <2>. QED
    BY <1>1, <2>1
<1>. QED
  BY <1>2, <1>3, <1>4, <1>5 DEF Next

\* The other handlers stay honest while refusals and suspensions stay.
LEMMA HonestStays ==
  ASSUME TypeOK, RefusalsStay, banned \subseteq banned', NEW q \in Handler, Knows(q), Honest(q)
  PROVE  Honest(q)'
BY DEF Honest, Knows, RefusalsStay

LEMMA HonestSlot ==
  ASSUME TypeOK, AllHonest, RefusalsStay, banned \subseteq banned', NEW r \in Request,
         NEW q \in Handler, req' = [req EXCEPT ![r] = q], Honest(q)'
  PROVE  AllHonest'
<1>1. ASSUME NEW p \in Request, p # r
      PROVE  Honest(req[p])'
  <2>1. PICK h \in Handler : h = req[p]
    BY DEF TypeOK
  <2>2. Honest(h)' /\ req'[p] = h
    BY <1>1, <2>1, HonestStays DEF TypeOK, AllHonest
  <2>. QED
    BY <2>2 DEF Honest
<1>2. req'[r] = q
  BY DEF TypeOK
<1>3. Honest(req[r])'
  BY <1>2 DEF Honest
<1>. QED
  BY <1>1, <1>3 DEF AllHonest

LEMMA HonestAnswer ==
  ASSUME TypeOK, AllHonest, RefusalsStay, banned \subseteq banned', NEW r \in Request, Answer(r)
  PROVE  AllHonest'
<1>1. Honest(Idle)'
  BY DEF Honest, Idle
<1>. QED
  BY <1>1, IdleOK, HonestSlot DEF Answer

LEMMA HonestGoto ==
  ASSUME TypeOK, AllHonest, RefusalsStay, banned' = banned, NEW r \in Request, NEW pc \in PC,
         NEW u \in User \cup {NONE}, Goto(r, pc, u), pc # "lookup",
         pc \in {"take", "issue"} => u \notin req[r].barred,
         pc \in {"owner", "take", "issue"} => ~req[r].late
  PROVE  AllHonest'
<1>1. req[r] \in Handler /\ req[r].barred \subseteq banned
  BY DEF TypeOK, AllHonest, Honest
<1>2. PICK q : q = [pc |-> pc, code |-> req[r].code, actor |-> req[r].actor, approve |-> req[r].approve,
                    owner |-> u, late |-> req[r].late, barred |-> req[r].barred]
  OBVIOUS
<1>3. q \in Handler
  BY <1>1, <1>2 DEF Handler
<1>4. Honest(q)'
  BY <1>1, <1>2 DEF Honest
<1>. QED
  BY <1>2, <1>3, <1>4, HonestSlot DEF Goto

LEMMA HonestEnter ==
  ASSUME TypeOK, AllHonest, RefusalsStay, banned' = banned, NEW r \in Request,
         NEW pc \in {"user", "lookup"}, NEW c \in created, NEW who \in User \cup Service,
         NEW approve \in BOOLEAN, NEW late \in BOOLEAN, NEW barred \in SUBSET User,
         Enter(r, pc, c, who, approve, late, barred), barred \subseteq banned,
         pc = "lookup" => who \in Service, pc = "lookup" /\ late => Refused(c, who)
  PROVE  AllHonest'
<1>1. PICK q : q = [pc |-> pc, code |-> c, actor |-> who, approve |-> approve, owner |-> NONE,
                    late |-> late, barred |-> barred]
  OBVIOUS
<1>2. q \in Handler
  BY <1>1 DEF Handler, PC, TypeOK
<1>3. Honest(q)'
  <2>1. q.pc = "lookup" /\ q.late => Refused(c, who)'
    BY <1>1 DEF RefusalsStay
  <2>2. q.pc = "lookup" /\ q.late => Refused(q.code, q.actor)'
    BY <1>1, <2>1 DEF Refused, Expired
  <2>. QED
    BY <1>1, <2>2 DEF Honest
<1>. QED
  BY <1>1, <1>2, <1>3, HonestSlot DEF Enter

\* Every statement of a request keeps all polls honest.
LEMMA SlotHonest ==
  ASSUME Inv, AllHonest, RefusalsStay, NEW r \in Request, Verify(r) \/ Poll(r) \/ Abort(r)
  PROVE  AllHonest'
<1>0. /\ TypeOK /\ banned \in SUBSET User
      /\ NONE \in User \cup {NONE} /\ approvedBy \in [Code -> User \cup {NONE}]
  BY DEF Inv, TypeOK
<1>1. banned' = banned
  BY DEF Verify, BeginVerify, RejectBannedUser, FindToDecide, Decide, Poll, BeginPoll, LookUp,
         Throttle, LoadOwner, DeleteCode, TakeCode, Issue, Abort, dirVars
<1>2. CASE Answer(r)
  BY <1>0, <1>1, <1>2, HonestAnswer
<1>3. ASSUME NEW u \in User, NEW c \in Code, NEW approve \in BOOLEAN, BeginVerify(r, u, c, approve)
      PROVE  AllHonest'
  <2>1. Enter(r, "user", c, u, approve, FALSE, {}) /\ c \in created
    BY <1>3 DEF BeginVerify
  <2>2. FALSE \in BOOLEAN /\ {} \in SUBSET User /\ u \in User \cup Service
    OBVIOUS
  <2>. QED
    BY <1>0, <1>1, <2>1, <2>2, HonestEnter
<1>4. ASSUME NEW s \in Service, NEW c \in Code, BeginPoll(r, s, c)
      PROVE  AllHonest'
  <2>1. PICK late \in BOOLEAN : late = Refused(c, s)
    BY DEF Refused
  <2>2. Enter(r, "lookup", c, s, FALSE, late, banned) /\ c \in created
    BY <1>4, <2>1 DEF BeginPoll
  <2>3. s \in User \cup Service
    OBVIOUS
  <2>. QED
    BY <1>0, <1>1, <2>1, <2>2, <2>3, HonestEnter
<1>5. CASE RejectBannedUser(r) \/ FindToDecide(r)
  BY <1>0, <1>1, <1>2, <1>5, HonestGoto DEF RejectBannedUser, FindToDecide, PC
<1>6. CASE LookUp(r)
  <2>1. /\ At(r, "lookup") /\ req[r].code \in Code
        /\ req[r].late => Refused(req[r].code, req[r].actor)
    BY <1>0, <1>6 DEF LookUp, At, TypeOK, Knows, AllHonest, Honest
  <2>2. PICK u \in User \cup {NONE} : u = approvedBy[req[r].code]
    BY <1>0, <2>1
  <2>3. \/ Answer(r)
        \/ Goto(r, "delete", u) \/ Goto(r, "throttle", u)
        \/ Goto(r, "owner", u) /\ ~Refused(req[r].code, req[r].actor)
    BY <1>6, <2>2 DEF LookUp, Verdict, Refused
  <2>. QED
    BY <1>0, <1>1, <1>2, <2>1, <2>3, HonestGoto DEF PC
<1>7. CASE LoadOwner(r)
  <2>1. At(r, "owner") /\ ~req[r].late /\ req[r].barred \subseteq banned
    BY <1>7 DEF LoadOwner, At, AllHonest, Honest
  <2>2. PICK u \in User \cup {NONE} : u = req[r].owner
    BY <1>0 DEF TypeOK, Handler
  <2>3. Answer(r) \/ Goto(r, "delete", u) \/ (Goto(r, "take", u) /\ u \notin banned)
    BY <1>7, <2>2 DEF LoadOwner, Suspended
  <2>. QED
    BY <1>0, <1>1, <1>2, <2>1, <2>3, HonestGoto DEF PC
<1>8. CASE TakeCode(r)
  <2>1. At(r, "take") /\ ~req[r].late /\ req[r].owner \notin req[r].barred
    BY <1>8 DEF TakeCode, At, AllHonest, Honest
  <2>2. req[r].owner \in User \cup {NONE}
    BY <1>0 DEF TypeOK, Handler
  <2>3. Answer(r) \/ Goto(r, "issue", req[r].owner)
    BY <1>8 DEF TakeCode
  <2>. QED
    BY <1>0, <1>1, <1>2, <2>1, <2>2, <2>3, HonestGoto DEF PC
<1>9. CASE Decide(r) \/ Throttle(r) \/ DeleteCode(r) \/ Issue(r) \/ Abort(r)
  BY <1>2, <1>9 DEF Decide, Throttle, DeleteCode, Issue, Abort
<1>. QED
  BY <1>3, <1>4, <1>5, <1>6, <1>7, <1>8, <1>9 DEF Verify, Poll

LEMMA NextHonest ==
  ASSUME Inv, AllHonest, [Next]_vars
  PROVE  AllHonest'
<1>0. TypeOK /\ RefusalsStay
  BY NextKeepsRefusals DEF Inv
<1>1. CASE UNCHANGED req /\ banned \subseteq banned'
  <2>1. ASSUME NEW r \in Request
        PROVE  Honest(req[r])'
    <3>1. PICK h \in Handler : h = req[r]
      BY <1>0 DEF TypeOK
    <3>2. Honest(h)'
      BY <1>0, <1>1, <3>1, HonestStays DEF TypeOK, AllHonest
    <3>. QED
      BY <1>1, <3>1, <3>2 DEF Honest
  <2>. QED
    BY <2>1 DEF AllHonest
<1>2. ASSUME NEW u \in User, Unban(u)
      PROVE  AllHonest'
  <2>1. ASSUME NEW r \in Request
        PROVE  Honest(req[r])'
    <3>1. PICK h \in Handler : h = req[r]
      BY <1>0 DEF TypeOK
    <3>2. /\ req'[r].pc = h.pc /\ req'[r].owner = h.owner /\ req'[r].late = h.late
          /\ req'[r].code = h.code /\ req'[r].actor = h.actor /\ req'[r].barred = h.barred \ {u}
      BY <1>2, <3>1 DEF Unban, Handler
    <3>3. Honest(h) /\ Knows(h)
      BY <1>0, <3>1 DEF AllHonest, TypeOK
    <3>4. h.pc = "lookup" /\ h.late => Refused(h.code, h.actor)'
      BY <1>0, <3>3 DEF Honest, Knows, RefusalsStay
    <3>5. h.pc = "lookup" /\ h.late => Refused(req[r].code, req[r].actor)'
      BY <3>2, <3>4 DEF Refused, Expired
    <3>. QED
      BY <1>2, <3>2, <3>3, <3>5 DEF Unban, Honest
  <2>. QED
    BY <2>1 DEF AllHonest
<1>3. CASE \/ \E c \in Code, s \in Service : CreateDeviceCode(c, s)
           \/ DeleteExpired \/ Tick \/ UNCHANGED vars
  BY <1>1, <1>3 DEF CreateDeviceCode, DeleteExpired, Tick, vars, dirVars
<1>4. CASE Directory
  BY <1>1, <1>2, <1>4 DEF Directory, Ban, DeleteUser, DeleteService
<1>. QED
  BY <1>0, <1>3, <1>4, SlotHonest DEF Next

LEMMA HonestHolds == Spec => [](Inv /\ AllHonest)
<1>1. Init => AllHonest
  BY IdleOK DEF Init, AllHonest, Honest, Idle
<1>2. Inv /\ AllHonest /\ [Next]_vars => AllHonest'
  BY NextHonest
<1>. QED
  BY <1>1, <1>2, InvHolds, PTL DEF Spec

\* A poll that arrives when the code is already denied, expired, gone or of
\* another service gets no token pair, whatever other handlers do while it runs.
THEOREM RefusalIsFinal == Spec => RefusedStaysRefused
<1>1. AllHonest => \A r \in Request : At(r, "issue") => ~req[r].late
  BY DEF AllHonest, Honest, At
<1>2. AllHonest /\ [Next]_vars =>
        [\A r \in Request : At(r, "issue") /\ pairs' # pairs /\ req'[r] # req[r] => ~req[r].late]_vars
  BY <1>1
<1>. QED
  BY <1>2, HonestHolds, PTL DEF Spec, RefusedStaysRefused

\* A poll gets no token pair for a user who was suspended when it arrived and
\* has been ever since.
THEOREM SuspendedGetsNothing == Spec => BarredGetsNothing
<1>1. AllHonest => \A r \in Request : At(r, "issue") => req[r].owner \notin req[r].barred
  BY DEF AllHonest, Honest, At
<1>2. AllHonest /\ [Next]_vars =>
        [\A r \in Request : At(r, "issue") /\ pairs' # pairs /\ req'[r] # req[r]
                              => req[r].owner \notin req[r].barred]_vars
  BY <1>1
<1>. QED
  BY <1>2, HonestHolds, PTL DEF Spec, BarredGetsNothing
=============================================================================
