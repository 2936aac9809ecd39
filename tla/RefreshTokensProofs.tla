------------------------ MODULE RefreshTokensProofs ------------------------
(***************************************************************************)
(* Theorems about RefreshTokens, for every number of tokens, families,     *)
(* users, services, resources and parallel handlers, and any clock.        *)
(***************************************************************************)
EXTENDS RefreshTokens, TLAPS

Local == TypeOK /\ HandlerOK

LEMMA IdleOK == Idle \in Handler /\ Placed(Idle) /\ Idle.kind = "none" /\ NoColumns \in Columns
BY DEF Idle, NoColumns, Columns, PC, Reply, Handler, EntryPoint, Placed

LEMMA InitLocal == Init => Local
<1>. SUFFICES ASSUME Init PROVE Local
  OBVIOUS
<1>1. TableOK /\ DirectoryOK
  BY IdleOK DEF Init, TableOK, DirectoryOK, Reason
<1>2. req \in [Request -> Handler] /\ \A r \in Request : Placed(req[r]) /\ Informed(req[r])
  BY IdleOK DEF Init, Informed
<1>. QED
  BY <1>1, <1>2 DEF Init, Local, TypeOK, HandlerOK

\* What a later step may rely on after the slot of r changed to q.
LEMMA SlotStep ==
  ASSUME TypeOK, HandlerOK, NEW r \in Request, NEW q \in Handler,
         req' = [req EXCEPT ![r] = q], Placed(q), Informed(q)',
         \A t \in delivered : t \in delivered' /\ col'[t].family = col[t].family,
         \A t \in issued' : col'[t].family \in Family
  PROVE  req' \in [Request -> Handler] /\ HandlerOK'
BY DEF TypeOK, HandlerOK, Informed, Placed

\* Frame: the tables keep every delivered token and its family.
Keeps ==
  /\ \A t \in delivered : t \in delivered' /\ col'[t].family = col[t].family
  /\ \A t \in issued' : col'[t].family \in Family

LEMMA AnswerStep ==
  ASSUME TypeOK, HandlerOK, NEW r \in Request, NEW why, Answer(r, why), Keeps
  PROVE  req' \in [Request -> Handler] /\ HandlerOK'
<1>1. Informed(Idle)'
  BY IdleOK DEF Informed
<1>. QED
  BY <1>1, IdleOK, SlotStep DEF Answer, Keeps

\* A handler moves on within the statements of its kind; one that refreshes
\* knows the family from its first look at the row.
LEMMA MoveStep ==
  ASSUME TypeOK, HandlerOK, NEW r \in Request, ~At(r, "idle"),
         NEW pc \in PC, NEW c \in Columns, NEW n \in 0..3, NEW why \in Reply,
         req[r].kind = "login" => pc \in {"user", "resource", "issue"},
         req[r].kind \in {"logout", "revoke"} => pc \in {"find", "drop"},
         req[r].kind \in {"refresh", "grant"} =>
           /\ pc \notin {"idle", "find", "drop"}
           /\ pc \notin {"consume", "inspect"} => c.family = col[req[r].tok].family,
         Move(r, pc, c, n, why), Keeps
  PROVE  req' \in [Request -> Handler] /\ HandlerOK'
<1>1. req[r] \in Handler /\ Placed(req[r]) /\ Informed(req[r])
  BY DEF TypeOK, HandlerOK
<1>2. PICK q : q = [kind |-> req[r].kind, pc |-> pc, tok |-> req[r].tok, client |-> req[r].client,
                    ctx |-> c, tries |-> n, reply |-> why, barred |-> req[r].barred]
  OBVIOUS
<1>3. q \in Handler
  BY <1>1, <1>2 DEF Handler
<1>4. Placed(q)
  BY <1>1, <1>2 DEF Placed, At
<1>5. Informed(q)'
  <2>1. q.tok = req[r].tok /\ q.ctx = c /\ q.kind = req[r].kind /\ q.pc = pc
    BY <1>2
  <2>. QED
    BY <1>1, <2>1 DEF Informed, Keeps
<1>6. req' = [req EXCEPT ![r] = q]
  BY <1>2 DEF Move
<1>. QED
  BY <1>3, <1>4, <1>5, <1>6, SlotStep DEF Keeps

\* A request enters a free slot.
LEMMA EnterStep ==
  ASSUME TypeOK, HandlerOK, NEW r \in Request, NEW k \in EntryPoint, NEW pc \in PC,
         NEW t \in Token \cup {NONE}, NEW s \in Service \cup {NONE}, NEW c \in Columns,
         NEW b \in BOOLEAN, Enter(r, k, pc, t, s, c, b), Keeps,
         \/ k = "login" /\ pc = "user" /\ t = NONE
         \/ k \in {"refresh", "grant"} /\ pc = "consume" /\ t \in delivered
         \/ k \in {"logout", "revoke"} /\ pc = "find" /\ t \in delivered
  PROVE  req' \in [Request -> Handler] /\ HandlerOK'
<1>1. PICK q : q = [kind |-> k, pc |-> pc, tok |-> t, client |-> s, ctx |-> c, tries |-> 0,
                    reply |-> "none", barred |-> b]
  OBVIOUS
<1>2. q \in Handler
  BY <1>1 DEF Handler, Reply
<1>3. Placed(q) /\ Informed(q)'
  BY <1>1 DEF Placed, Informed, Keeps
<1>4. req' = [req EXCEPT ![r] = q]
  BY <1>1 DEF Enter
<1>. QED
  BY <1>2, <1>3, <1>4, SlotStep DEF Keeps

LEMMA QuietKeeps == ASSUME HandlerOK, UNCHANGED <<col, issued, delivered>> PROVE Keeps
BY DEF HandlerOK, Keeps

\* The tables after the statements that write them.
LEMMA MarkStep ==
  ASSUME TypeOK, HandlerOK, NEW t \in Token, NEW why \in Reason, Mark(t, why)
  PROVE  TableOK' /\ Keeps
BY DEF Mark, TypeOK, TableOK, HandlerOK, Keeps

LEMMA SweepStep ==
  ASSUME TypeOK, HandlerOK, NEW sel, NEW why \in Reason, Sweep(sel, why)
  PROVE  TableOK' /\ Keeps
BY DEF Sweep, TypeOK, TableOK, HandlerOK, Keeps

LEMMA InsertStep ==
  ASSUME TypeOK, HandlerOK, NEW t \in Token \ issued, NEW c \in Columns, c.family \in Family,
         NEW from \in Token \cup {NONE}, Insert(t, c, from),
         delivered' = delivered \/ delivered' = delivered \cup {t}
  PROVE  TableOK' /\ Keeps
BY DEF Insert, TypeOK, TableOK, HandlerOK, Keeps, Reason

LEMMA DropStep ==
  ASSUME TypeOK, HandlerOK, NEW sel, DropRows(sel)
  PROVE  TableOK' /\ Keeps
BY DEF DropRows, TypeOK, TableOK, HandlerOK, Keeps

LEMMA RestoreStep ==
  ASSUME TypeOK, HandlerOK, NEW t \in Token, Restore(t)
  PROVE  TableOK' /\ Keeps
BY DEF Restore, TypeOK, TableOK, HandlerOK, Keeps, Reason

LEMMA TableQuiet ==
  ASSUME TypeOK, HandlerOK, UNCHANGED tableVars
  PROVE  TableOK' /\ Keeps
BY DEF tableVars, TypeOK, TableOK, HandlerOK, Keeps

---------------------------------------------------------------------------
(* Type correctness: one lemma per statement of a handler.                 *)

LEMMA HandlerFacts ==
  ASSUME TypeOK, HandlerOK, NEW r \in Request
  PROVE  /\ req[r] \in Handler /\ Placed(req[r]) /\ Informed(req[r])
         /\ req[r].ctx \in Columns /\ req[r].tries \in 0..3 /\ req[r].reply \in Reply
         /\ req[r].tok \in Token \cup {NONE} /\ req[r].client \in Service \cup {NONE}
         /\ req[r].kind \in {"refresh", "grant", "logout", "revoke"} =>
              req[r].tok \in delivered /\ req[r].tok \in issued /\ req[r].tok \in Token
         /\ \A t \in Token : col[t] \in Columns
<1>1. req[r] \in Handler /\ Placed(req[r]) /\ Informed(req[r])
  BY DEF TypeOK, HandlerOK
<1>2. \A t \in Token : col[t] \in Columns
  BY DEF TypeOK, TableOK
<1>3. delivered \subseteq issued /\ issued \subseteq Token
  BY DEF TypeOK, TableOK
<1>. QED
  BY <1>1, <1>2, <1>3 DEF Handler, Informed

\* What is left of Local' once the tables and the slots are known to be right.
LEMMA Assemble ==
  ASSUME TypeOK, TableOK', UNCHANGED <<dirVars, histVars, now>>,
         req' \in [Request -> Handler], HandlerOK'
  PROVE  Local'
BY DEF Local, TypeOK, DirectoryOK, dirVars, histVars

LEMMA ConsumeLocal ==
  ASSUME TypeOK, HandlerOK, NEW r \in Request, Consume(r)
  PROVE  Local'
<1>1. req[r].kind \in {"refresh", "grant"} /\ req[r].tok \in Token /\ ~At(r, "idle")
  BY HandlerFacts DEF Consume, At, Placed
<1>2. TableOK' /\ Keeps
  BY <1>1, MarkStep DEF Consume, Reason
<1>3. col[req[r].tok] \in Columns
  BY <1>1, HandlerFacts
<1>4. req' \in [Request -> Handler] /\ HandlerOK'
  <2>. "recheck" \in PC /\ "user" \in PC /\ 0 \in 0..3
       /\ "TOKEN_EXPIRED" \in Reply /\ "SERVICE_MISMATCH" \in Reply /\ "none" \in Reply
    BY DEF PC, Reply
  <2>1. CASE Answer(r, "TOKEN_EXPIRED")
    BY <1>2, <2>1, AnswerStep
  <2>2. CASE Move(r, "recheck", col[req[r].tok], 0, "TOKEN_EXPIRED")
    BY <1>1, <1>2, <1>3, <2>2, MoveStep
  <2>3. CASE Move(r, "recheck", col[req[r].tok], 0, "SERVICE_MISMATCH")
    BY <1>1, <1>2, <1>3, <2>3, MoveStep
  <2>4. CASE Move(r, "user", col[req[r].tok], 0, "none")
    BY <1>1, <1>2, <1>3, <2>4, MoveStep
  <2>. QED
    BY <2>1, <2>2, <2>3, <2>4 DEF Consume
<1>. QED
  BY <1>2, <1>4, Assemble DEF Consume

\* A handler answers, or moves on knowing what it knew.
Advances(r) ==
  \/ \E why \in Reply : Answer(r, why)
  \/ \E pc \in PC, n \in 0..3, why \in Reply :
       /\ pc \notin {"idle", "consume", "inspect", "find", "drop"}
       /\ req[r].kind = "login" => pc \in {"user", "resource", "issue"}
       /\ Move(r, pc, req[r].ctx, n, why)

LEMMA AdvanceStep ==
  ASSUME TypeOK, HandlerOK, NEW r \in Request, req[r].kind \in {"login", "refresh", "grant"},
         ~At(r, "consume"), ~At(r, "inspect"), Advances(r), Keeps
  PROVE  req' \in [Request -> Handler] /\ HandlerOK'
<1>1. CASE \E why \in Reply : Answer(r, why)
  BY <1>1, AnswerStep
<1>2. ASSUME NEW pc \in PC, NEW n \in 0..3, NEW why \in Reply,
             pc \notin {"idle", "consume", "inspect", "find", "drop"},
             req[r].kind = "login" => pc \in {"user", "resource", "issue"},
             Move(r, pc, req[r].ctx, n, why)
      PROVE  req' \in [Request -> Handler] /\ HandlerOK'
  <2>1. req[r].ctx \in Columns /\ Placed(req[r]) /\ Informed(req[r])
    BY HandlerFacts
  <2>2. ~At(r, "idle")
    BY <2>1 DEF Placed, At
  <2>3. req[r].kind \in {"refresh", "grant"} => req[r].ctx.family = col[req[r].tok].family
    BY <2>1 DEF Informed, At
  <2>. QED
    BY <1>2, <2>1, <2>2, <2>3, MoveStep
<1>. QED
  BY <1>1, <1>2 DEF Advances

LEMMA QuietAdvance ==
  ASSUME TypeOK, HandlerOK, NEW r \in Request, req[r].kind \in {"login", "refresh", "grant"},
         ~At(r, "consume"), ~At(r, "inspect"), Advances(r),
         UNCHANGED <<tableVars, dirVars, histVars, now>>
  PROVE  Local'
<1>1. TableOK' /\ Keeps
  BY TableQuiet
<1>2. req' \in [Request -> Handler] /\ HandlerOK'
  BY <1>1, AdvanceStep
<1>. QED
  BY <1>1, <1>2, Assemble

LEMMA ConsumeMissLocal ==
  ASSUME TypeOK, HandlerOK, NEW r \in Request, ConsumeMiss(r)
  PROVE  Local'
<1>1. req[r].kind \in {"refresh", "grant"} /\ ~At(r, "idle")
  BY HandlerFacts DEF ConsumeMiss, At, Placed
<1>2. TableOK' /\ Keeps
  BY TableQuiet DEF ConsumeMiss
<1>3. req[r].ctx \in Columns /\ req[r].tries \in 0..3 /\ req[r].reply \in Reply /\ "inspect" \in PC
  BY HandlerFacts DEF PC
<1>4. req' \in [Request -> Handler] /\ HandlerOK'
  BY <1>1, <1>2, <1>3, MoveStep DEF ConsumeMiss, Goto
<1>. QED
  BY <1>2, <1>4, Assemble DEF ConsumeMiss

LEMMA InspectLocal ==
  ASSUME TypeOK, HandlerOK, NEW r \in Request, Inspect(r)
  PROVE  Local'
<1>1. req[r].kind \in {"refresh", "grant"} /\ ~At(r, "idle") /\ req[r].tok \in Token
  BY HandlerFacts DEF Inspect, At, Placed
<1>2. TableOK' /\ Keeps
  BY TableQuiet DEF Inspect
<1>3. col[req[r].tok] \in Columns /\ "family" \in PC /\ 0 \in 0..3 /\ "none" \in Reply
  BY <1>1, HandlerFacts DEF PC, Reply
<1>4. CASE Move(r, "family", col[req[r].tok], 0, "none")
  <2>1. req' \in [Request -> Handler] /\ HandlerOK'
    BY <1>1, <1>2, <1>3, <1>4, MoveStep
  <2>. QED
    BY <1>2, <2>1, Assemble DEF Inspect
<1>5. CASE Answer(r, "INVALID_TOKEN") \/ Answer(r, "TOKEN_ROTATED")
  <2>1. req' \in [Request -> Handler] /\ HandlerOK'
    BY <1>2, <1>5, AnswerStep
  <2>. QED
    BY <1>2, <2>1, Assemble DEF Inspect
<1>. QED
  BY <1>4, <1>5 DEF Inspect

LEMMA RevokeFamilyLocal ==
  ASSUME TypeOK, HandlerOK, NEW r \in Request, RevokeFamily(r)
  PROVE  Local'
<1>1. TableOK' /\ Keeps
  BY SweepStep DEF RevokeFamily, Reason
<1>2. req' \in [Request -> Handler] /\ HandlerOK'
  BY <1>1, AnswerStep DEF RevokeFamily
<1>3. req[r].ctx.family \in Family
  <2>1. Placed(req[r]) /\ Informed(req[r]) /\ req[r].pc = "family"
    BY HandlerFacts DEF RevokeFamily, At
  <2>2. req[r].kind \in {"refresh", "grant"}
    BY <2>1 DEF Placed
  <2>3. req[r].tok \in issued /\ req[r].ctx.family = col[req[r].tok].family
    BY <2>1, <2>2, HandlerFacts DEF Informed
  <2>. QED
    BY <2>3 DEF HandlerOK
<1>4. reused' \subseteq Family /\ loggedOut' \subseteq Family
  BY <1>3 DEF RevokeFamily, TypeOK
<1>. QED
  BY <1>1, <1>2, <1>4 DEF Local, TypeOK, DirectoryOK, dirVars, RevokeFamily

\* The statements of a handler that only read.
LEMMA Member == /\ {"recheck", "user", "service", "resource", "issue", "recover", "attempt",
                    "unrevoke"} \subseteq PC \ {"idle", "consume", "inspect", "find", "drop"}
                /\ {"ok", "none", "TOKEN_REUSE", "TOKEN_EXPIRED", "USER_GONE", "BANNED", "ERROR",
                    "SERVICE_GONE", "RESOURCE_MISMATCH", "RESOURCE_GONE", "RESOURCE_REFUSED"}
                     \subseteq Reply
                /\ 0 \in 0..3 /\ 3 \in 0..3
BY DEF PC, Reply

LEMMA Kinds ==
  ASSUME TypeOK, HandlerOK, NEW r \in Request
  PROVE  /\ At(r, "user") \/ At(r, "resource") \/ At(r, "issue")
              => req[r].kind \in {"login", "refresh", "grant"}
         /\ At(r, "consume") \/ At(r, "inspect") \/ At(r, "family") \/ At(r, "recheck")
              \/ At(r, "service") \/ At(r, "recover") \/ At(r, "attempt") \/ At(r, "unrevoke")
              => req[r].kind \in {"refresh", "grant"}
         /\ At(r, "find") \/ At(r, "drop") => req[r].kind \in {"logout", "revoke"}
BY HandlerFacts DEF At, Placed

LEMMA GotoAdvances ==
  ASSUME TypeOK, HandlerOK, NEW r \in Request,
         NEW pc \in PC \ {"idle", "consume", "inspect", "find", "drop"},
         req[r].kind = "login" => pc \in {"user", "resource", "issue"}, Goto(r, pc)
  PROVE  Advances(r)
BY HandlerFacts DEF Goto, Advances

LEMMA SettledAdvances ==
  ASSUME TypeOK, HandlerOK, NEW r \in Request, AnswerSettled(r)
  PROVE  Advances(r)
BY HandlerFacts DEF AnswerSettled, Advances

LEMMA ReadsLocal ==
  ASSUME TypeOK, HandlerOK, NEW r \in Request,
         \/ Recheck(r) \/ LoadUser(r) \/ LoadService(r) \/ RejectOtherResource(r)
         \/ RecoverCheck(r) \/ AttemptCheck(r) \/ IssueGuarded(r) \/ IssueFails(r)
  PROVE  Local'
<1>. USE Member
<1>1. CASE Recheck(r)
  <2>1. At(r, "recheck") /\ req[r].kind \in {"refresh", "grant"}
    BY <1>1, Kinds DEF Recheck
  <2>2. Advances(r)
    <3>1. CASE Answer(r, "TOKEN_REUSE") BY <3>1 DEF Advances
    <3>2. CASE AnswerSettled(r) BY <3>2, SettledAdvances
    <3>3. CASE Goto(r, "attempt") BY <2>1, <3>3, GotoAdvances
    <3>. QED BY <1>1, <3>1, <3>2, <3>3 DEF Recheck
  <2>. QED BY <1>1, <2>1, <2>2, QuietAdvance DEF Recheck, At
<1>2. CASE LoadUser(r)
  <2>1. At(r, "user") /\ req[r].kind \in {"login", "refresh", "grant"}
    BY <1>2, Kinds DEF LoadUser
  <2>2. Advances(r)
    <3>1. CASE Answer(r, "USER_GONE") \/ Answer(r, "BANNED") BY <3>1 DEF Advances
    <3>2. CASE req[r].kind = "refresh" /\ Goto(r, "service") BY <2>1, <3>2, GotoAdvances
    <3>3. CASE Goto(r, "resource") \/ Goto(r, "issue") BY <2>1, <3>3, GotoAdvances
    <3>. QED BY <1>2, <3>1, <3>2, <3>3 DEF LoadUser
  <2>. QED BY <1>2, <2>1, <2>2, QuietAdvance DEF LoadUser, At
<1>3. CASE LoadService(r)
  <2>1. At(r, "service") /\ req[r].kind \in {"refresh", "grant"}
    BY <1>3, Kinds DEF LoadService
  <2>2. Advances(r)
    <3>1. CASE Answer(r, "SERVICE_GONE") BY <3>1 DEF Advances
    <3>2. CASE Goto(r, "issue") BY <2>1, <3>2, GotoAdvances
    <3>. QED BY <1>3, <3>1, <3>2 DEF LoadService
  <2>. QED BY <1>3, <2>1, <2>2, QuietAdvance DEF LoadService, At
<1>4. CASE RejectOtherResource(r)
  <2>1. Advances(r)
    BY <1>4 DEF RejectOtherResource, Advances
  <2>. QED BY <1>4, <2>1, QuietAdvance DEF RejectOtherResource, At
<1>5. CASE RecoverCheck(r)
  <2>1. At(r, "recover") /\ req[r].kind \in {"refresh", "grant"}
    BY <1>5, Kinds DEF RecoverCheck
  <2>2. Advances(r)
    BY <1>5, <2>1 DEF RecoverCheck, Advances
  <2>. QED BY <1>5, <2>1, <2>2, QuietAdvance DEF RecoverCheck, At
<1>6. CASE AttemptCheck(r)
  <2>1. At(r, "attempt") /\ req[r].kind \in {"refresh", "grant"}
    BY <1>6, Kinds DEF AttemptCheck
  <2>2. Advances(r)
    <3>1. CASE AnswerSettled(r) BY <3>1, SettledAdvances
    <3>2. CASE Move(r, "unrevoke", req[r].ctx, 3, req[r].reply)
      BY <2>1, <3>2, HandlerFacts DEF Advances
    <3>. QED BY <1>6, <3>1, <3>2 DEF AttemptCheck
  <2>. QED BY <1>6, <2>1, <2>2, QuietAdvance DEF AttemptCheck, At
<1>7. CASE IssueGuarded(r)
  <2>1. At(r, "issue") /\ req[r].kind \in {"login", "refresh", "grant"}
    BY <1>7, Kinds DEF IssueGuarded
  <2>2. Advances(r)
    BY <1>7 DEF IssueGuarded, Advances
  <2>. QED BY <1>7, <2>1, <2>2, QuietAdvance DEF IssueGuarded, At
<1>8. CASE IssueFails(r)
  <2>1. At(r, "issue") /\ req[r].kind \in {"login", "refresh", "grant"}
    BY <1>8, Kinds DEF IssueFails
  <2>2. Advances(r)
    <3>1. CASE Answer(r, "ERROR") BY <3>1 DEF Advances
    <3>2. CASE req[r].kind # "login" /\ Goto(r, "recover") BY <3>2, GotoAdvances
    <3>. QED BY <1>8, <3>1, <3>2 DEF IssueFails, AfterFailure
  <2>. QED BY <1>8, <2>1, <2>2, QuietAdvance DEF IssueFails, At
<1>. QED
  BY <1>1, <1>2, <1>3, <1>4, <1>5, <1>6, <1>7, <1>8

LEMMA LoadResourceLocal ==
  ASSUME TypeOK, HandlerOK, NEW r \in Request, LoadResource(r)
  PROVE  Local'
<1>1. At(r, "resource") /\ ~At(r, "idle") /\ req[r].kind \in {"login", "refresh", "grant"}
  BY Kinds DEF LoadResource, At
<1>2. CASE Answer(r, "RESOURCE_GONE") \/ Answer(r, "RESOURCE_REFUSED")
  <2>1. Advances(r)
    BY <1>2, Member DEF Advances
  <2>. QED BY <1>1, <2>1, QuietAdvance DEF LoadResource, At
<1>3. ASSUME NEW c, c = [req[r].ctx EXCEPT !.gen = generation[req[r].ctx.resource]],
             SameGeneration(req[r].ctx.resource, req[r].ctx.gen),
             Move(r, "issue", c, 0, "none")
      PROVE  Local'
  <2>1. req[r].ctx \in Columns /\ Informed(req[r])
    BY HandlerFacts
  <2>2. generation[req[r].ctx.resource] \in Nat
    BY <1>3 DEF SameGeneration, TypeOK, DirectoryOK
  <2>3. c \in Columns /\ c.family = req[r].ctx.family
    BY <1>3, <2>1, <2>2 DEF Columns
  <2>4. req[r].kind \in {"refresh", "grant"} => c.family = col[req[r].tok].family
    BY <1>1, <2>1, <2>3 DEF Informed, At
  <2>5. TableOK' /\ Keeps
    BY TableQuiet DEF LoadResource
  <2>6. "issue" \in PC /\ 0 \in 0..3 /\ "none" \in Reply
    BY Member
  <2>7. req' \in [Request -> Handler] /\ HandlerOK'
    BY <1>1, <1>3, <2>3, <2>4, <2>5, <2>6, MoveStep
  <2>. QED BY <2>5, <2>7, Assemble DEF LoadResource
<1>. QED
  BY <1>2, <1>3 DEF LoadResource

\* Issuing a pair.
LEMMA SuccessorOK ==
  ASSUME TypeOK, HandlerOK, NEW r \in Request, At(r, "issue"), NEW f \in FamilyFor(r)
  PROVE  SuccessorColumns(r, f) \in Columns /\ SuccessorColumns(r, f).family \in Family
<1>1. req[r].ctx \in Columns /\ req[r].client \in Service \cup {NONE} /\ now + TTL \in Nat
  BY HandlerFacts, ConstantsAssumption DEF TypeOK
<1>2. f \in Family
  <2>1. CASE req[r].kind = "login"
    BY <2>1 DEF FamilyFor
  <2>2. CASE req[r].kind # "login"
    <3>1. req[r].kind \in {"refresh", "grant"} /\ Informed(req[r])
      BY <2>2, Kinds, HandlerFacts
    <3>2. f = col[req[r].tok].family /\ req[r].tok \in issued
      BY <2>2, <3>1, HandlerFacts DEF Informed, FamilyFor, At
    <3>. QED BY <3>2 DEF HandlerOK
  <2>. QED BY <2>1, <2>2
<1>. QED
  BY <1>1, <1>2 DEF SuccessorColumns, Columns

LEMMA IssueLocal ==
  ASSUME TypeOK, HandlerOK, NEW r \in Request, IssueSucceeds(r) \/ IssueUndelivered(r)
  PROVE  Local'
<1>1. At(r, "issue") /\ req[r].tok \in Token \cup {NONE} /\ req[r].kind \in {"login", "refresh", "grant"}
  BY Kinds, HandlerFacts DEF IssueSucceeds, IssueUndelivered
<1>2. CASE IssueSucceeds(r)
  <2>1. PICK t \in Token \ issued, f \in FamilyFor(r) :
          Insert(t, SuccessorColumns(r, f), req[r].tok) /\ delivered' = delivered \cup {t}
    BY <1>2 DEF IssueSucceeds
  <2>2. SuccessorColumns(r, f) \in Columns /\ SuccessorColumns(r, f).family \in Family
    BY <1>1, SuccessorOK
  <2>3. TableOK' /\ Keeps
    BY <1>1, <2>1, <2>2, InsertStep
  <2>4. req' \in [Request -> Handler] /\ HandlerOK'
    BY <1>2, <2>3, AnswerStep DEF IssueSucceeds
  <2>. QED BY <1>2, <2>3, <2>4, Assemble DEF IssueSucceeds
<1>3. CASE IssueUndelivered(r)
  <2>1. PICK t \in Token \ issued, f \in FamilyFor(r) :
          Insert(t, SuccessorColumns(r, f), req[r].tok) /\ delivered' = delivered
    BY <1>3 DEF IssueUndelivered
  <2>2. SuccessorColumns(r, f) \in Columns /\ SuccessorColumns(r, f).family \in Family
    BY <1>1, SuccessorOK
  <2>3. TableOK' /\ Keeps
    BY <1>1, <2>1, <2>2, InsertStep
  <2>4. Advances(r)
    <3>1. CASE Answer(r, "ERROR") BY <3>1, Member DEF Advances
    <3>2. CASE req[r].kind # "login" /\ Goto(r, "recover") BY <3>2, Member, GotoAdvances
    <3>. QED BY <1>3, <3>1, <3>2 DEF IssueUndelivered, AfterFailure
  <2>5. req' \in [Request -> Handler] /\ HandlerOK'
    BY <1>1, <2>3, <2>4, AdvanceStep DEF At
  <2>. QED BY <1>3, <2>3, <2>5, Assemble DEF IssueUndelivered
<1>. QED
  BY <1>2, <1>3

\* Handing a token back.
LEMMA UnrevokeLocal ==
  ASSUME TypeOK, HandlerOK, NEW r \in Request, Unrevoke(r) \/ UnrevokeFails(r)
  PROVE  Local'
<1>1. At(r, "unrevoke") /\ req[r].kind \in {"refresh", "grant"} /\ req[r].tok \in Token
  BY Kinds, HandlerFacts DEF Unrevoke, UnrevokeFails
<1>2. TableOK' /\ Keeps
  <2>1. Restore(req[r].tok) \/ UNCHANGED tableVars
    BY DEF Unrevoke, UnrevokeFails
  <2>. QED BY <1>1, <2>1, RestoreStep, TableQuiet
<1>3. Advances(r)
  <2>1. CASE AnswerSettled(r)
    BY <2>1, SettledAdvances
  <2>2. CASE MoreTries(r) /\ Move(r, "unrevoke", req[r].ctx, req[r].tries - 1, req[r].reply)
    <3>1. req[r].tries - 1 \in 0..3 /\ req[r].reply \in Reply
      BY <2>2, HandlerFacts DEF MoreTries
    <3>. QED BY <1>1, <2>2, <3>1, Member DEF Advances
  <2>. QED BY <2>1, <2>2 DEF Unrevoke, UnrevokeFails, CatchUnrevoke
<1>4. req' \in [Request -> Handler] /\ HandlerOK'
  BY <1>1, <1>2, <1>3, AdvanceStep DEF At
<1>. QED
  BY <1>2, <1>4, Assemble DEF Unrevoke, UnrevokeFails

\* Logout and RFC 7009 revocation.
LEMMA RevokeLocal ==
  ASSUME TypeOK, HandlerOK, NEW r \in Request, FindToRevoke(r) \/ RevokeFound(r)
  PROVE  Local'
<1>1. req[r].kind \in {"logout", "revoke"} /\ req[r].tok \in Token /\ req[r].tok \in issued /\ ~At(r, "idle")
  BY Kinds, HandlerFacts DEF FindToRevoke, RevokeFound, At
<1>2. TableOK' /\ Keeps
  <2>1. Mark(req[r].tok, "revoked") \/ UNCHANGED tableVars
    BY DEF FindToRevoke, RevokeFound
  <2>. QED BY <1>1, <2>1, MarkStep, TableQuiet DEF Reason
<1>3. req' \in [Request -> Handler] /\ HandlerOK'
  <2>1. CASE Answer(r, "ok")
    BY <1>2, <2>1, AnswerStep
  <2>2. CASE Goto(r, "drop")
    <3>1. "drop" \in PC /\ req[r].ctx \in Columns /\ req[r].tries \in 0..3 /\ req[r].reply \in Reply
      BY HandlerFacts DEF PC
    <3>. QED BY <1>1, <1>2, <2>2, <3>1, MoveStep DEF Goto
  <2>. QED BY <2>1, <2>2 DEF FindToRevoke, RevokeFound
<1>4. loggedOut' \subseteq Family /\ reused' = reused
  <2>1. col[req[r].tok].family \in Family
    BY <1>1 DEF HandlerOK
  <2>. QED BY <2>1 DEF FindToRevoke, RevokeFound, Promise, TypeOK
<1>. QED
  BY <1>2, <1>3, <1>4 DEF Local, TypeOK, DirectoryOK, dirVars, FindToRevoke, RevokeFound

LEMMA StepLocal ==
  ASSUME TypeOK, HandlerOK, NEW r \in Request, Step(r)
  PROVE  Local'
BY ConsumeLocal, ConsumeMissLocal, InspectLocal, RevokeFamilyLocal, ReadsLocal, LoadResourceLocal,
   IssueLocal, UnrevokeLocal, RevokeLocal DEF Step

LEMMA AbortLocal ==
  ASSUME TypeOK, HandlerOK, NEW r \in Request, Abort(r)
  PROVE  Local'
<1>1. TableOK' /\ Keeps
  BY TableQuiet DEF Abort
<1>2. req' \in [Request -> Handler] /\ HandlerOK'
  BY <1>1, AnswerStep DEF Abort
<1>. QED
  BY <1>1, <1>2, Assemble DEF Abort

\* Arrivals.
LEMMA ArriveLocal ==
  ASSUME TypeOK, HandlerOK, NEW r \in Request, Arrive(r)
  PROVE  Local'
<1>1. TableOK' /\ Keeps /\ UNCHANGED <<dirVars, histVars, now>>
  <2>1. UNCHANGED tableVars /\ UNCHANGED <<dirVars, histVars, now>>
    BY DEF Arrive, BeginLogin, Present, BeginRevocation
  <2>. QED BY <2>1, TableQuiet
<1>2. "user" \in PC /\ "consume" \in PC /\ "find" \in PC /\ NoColumns \in Columns
  BY IdleOK DEF PC
<1>3. req' \in [Request -> Handler] /\ HandlerOK'
  <2>1. ASSUME NEW u \in User, NEW s \in Service \cup {NONE}, NEW x \in Resource \cup {NONE},
               BeginLogin(r, u, s, x)
        PROVE  req' \in [Request -> Handler] /\ HandlerOK'
    <3>1. PICK c : c = [user |-> u, service |-> s, family |-> NONE, resource |-> x,
                        gen |-> IF x = NONE THEN 0 ELSE generation[x], expiresAt |-> 0]
      OBVIOUS
    <3>2. c \in Columns
      <4>1. x # NONE => generation[x] \in Nat
        BY DEF TypeOK, DirectoryOK
      <4>. QED BY <3>1, <4>1 DEF Columns
    <3>3. Enter(r, "login", "user", NONE, s, c, u \in banned)
      BY <2>1, <3>1 DEF BeginLogin
    <3>4. "login" \in EntryPoint /\ (u \in banned) \in BOOLEAN
      BY DEF EntryPoint
    <3>. QED BY <1>1, <1>2, <3>2, <3>3, <3>4, EnterStep
  <2>2. ASSUME NEW k \in Kind, NEW t \in Token, NEW s \in Service \cup {NONE}, Present(r, k, t, s)
        PROVE  req' \in [Request -> Handler] /\ HandlerOK'
    <3>1. CASE Answer(r, "RESOURCE_BOUND")
      BY <1>1, <3>1, AnswerStep
    <3>2. CASE Enter(r, k, "consume", t, s, NoColumns, col[t].user \in banned)
      <4>1. k \in {"refresh", "grant"} /\ t \in delivered
        BY <2>2 DEF Present
      <4>2. k \in EntryPoint /\ (col[t].user \in banned) \in BOOLEAN
        BY <4>1 DEF EntryPoint
      <4>. QED BY <1>1, <1>2, <3>2, <4>1, <4>2, EnterStep
    <3>. QED BY <2>2, <3>1, <3>2 DEF Present
  <2>3. ASSUME NEW k \in Kind, NEW t \in Token, NEW s \in Service \cup {NONE},
               BeginRevocation(r, k, t, s)
        PROVE  req' \in [Request -> Handler] /\ HandlerOK'
    <3>1. k \in {"logout", "revoke"} /\ t \in delivered
          /\ Enter(r, k, "find", t, s, NoColumns, FALSE)
      BY <2>3 DEF BeginRevocation
    <3>2. k \in EntryPoint
      BY <3>1 DEF EntryPoint
    <3>. QED BY <1>1, <1>2, <3>1, <3>2, EnterStep
  <2>. QED BY <2>1, <2>2, <2>3 DEF Arrive
<1>. QED
  BY <1>1, <1>3, Assemble

\* The statements of the other handlers.
LEMMA ElsewhereStep ==
  ASSUME TypeOK, HandlerOK, TableOK', DirectoryOK', Keeps, Elsewhere
  PROVE  Local'
<1>1. HandlerOK'
  BY DEF HandlerOK, Elsewhere, Keeps, Informed, Placed
<1>. QED
  BY <1>1 DEF Local, TypeOK, Elsewhere, histVars

LEMMA DirectoryLocal ==
  ASSUME TypeOK, HandlerOK, Directory
  PROVE  Local'
<1>. USE DEF Reason
<1>1. ASSUME NEW u \in User,
             RevokeUserTokens(u) \/ (\E s \in Service : RevokeUserServiceTokens(u, s))
      PROVE  Local'
  <2>1. TableOK' /\ Keeps
    BY <1>1, SweepStep DEF RevokeUserTokens, RevokeUserServiceTokens
  <2>2. Elsewhere /\ UNCHANGED dirVars
    BY <1>1 DEF RevokeUserTokens, RevokeUserServiceTokens
  <2>. QED BY <2>1, <2>2, ElsewhereStep DEF TypeOK, DirectoryOK, dirVars
<1>2. ASSUME NEW t \in Token, RevokeOtherUserTokens(t) \/ RevokeTokenById(t)
      PROVE  Local'
  <2>1. TableOK' /\ Keeps
    BY <1>2, SweepStep DEF RevokeOtherUserTokens, RevokeTokenById
  <2>2. Elsewhere /\ UNCHANGED dirVars
    BY <1>2 DEF RevokeOtherUserTokens, RevokeTokenById
  <2>. QED BY <2>1, <2>2, ElsewhereStep DEF TypeOK, DirectoryOK, dirVars
<1>3. ASSUME NEW u \in User, Ban(u) \/ BeginUserDeletion(u)
      PROVE  Local'
  <2>1. TableOK' /\ Keeps
    BY <1>3, SweepStep DEF Ban, BeginUserDeletion
  <2>2. DirectoryOK' /\ Elsewhere
    BY <1>3 DEF Ban, BeginUserDeletion, TypeOK, DirectoryOK
  <2>. QED BY <2>1, <2>2, ElsewhereStep
<1>4. ASSUME NEW u \in User, Unban(u)
      PROVE  Local'
  <2>1. TableOK' /\ Keeps
    BY <1>4, TableQuiet DEF Unban
  <2>2. \A r \in Request : req'[r] \in Handler /\ Placed(req[r])' /\ Informed(req[r])'
    <3>1. ASSUME NEW r \in Request
          PROVE  req'[r] \in Handler /\ Placed(req[r])' /\ Informed(req[r])'
      <4>1. req[r] \in Handler /\ Placed(req[r]) /\ Informed(req[r])
        BY HandlerFacts
      <4>2. req'[r] = req[r] \/ req'[r] = [req[r] EXCEPT !.barred = FALSE]
        BY <1>4 DEF Unban
      <4>3. PICK q : q = req'[r]
        OBVIOUS
      <4>4. q \in Handler /\ q.kind = req[r].kind /\ q.pc = req[r].pc /\ q.tok = req[r].tok
            /\ q.ctx = req[r].ctx
        BY <4>1, <4>2, <4>3 DEF Handler
      <4>5. Placed(q)
        BY <4>1, <4>4 DEF Placed
      <4>6. Informed(q)'
        BY <2>1, <4>1, <4>4 DEF Informed, Keeps
      <4>. QED BY <4>3, <4>4, <4>5, <4>6 DEF Placed, Informed
    <3>. QED BY <3>1
  <2>3. req' \in [Request -> Handler] /\ HandlerOK'
    <3>1. req' = [r \in Request |-> req'[r]]
      BY <1>4 DEF Unban
    <3>. QED BY <2>1, <2>2, <3>1 DEF HandlerOK, Keeps
  <2>4. DirectoryOK' /\ now' = now /\ UNCHANGED histVars
    BY <1>4 DEF Unban, TypeOK, DirectoryOK
  <2>. QED BY <2>1, <2>3, <2>4 DEF Local, TypeOK, histVars
<1>5. ASSUME NEW u \in User, DeleteUser(u)
      PROVE  Local'
  <2>1. TableOK' /\ Keeps
    BY <1>5, DropStep DEF DeleteUser
  <2>2. DirectoryOK' /\ Elsewhere
    BY <1>5 DEF DeleteUser, TypeOK, DirectoryOK
  <2>. QED BY <2>1, <2>2, ElsewhereStep
<1>6. ASSUME NEW s \in Service, RevokeAllServiceTokens(s)
      PROVE  Local'
  <2>1. TableOK' /\ Keeps
    BY <1>6, SweepStep DEF RevokeAllServiceTokens
  <2>2. DirectoryOK' /\ Elsewhere
    BY <1>6 DEF RevokeAllServiceTokens, TypeOK, DirectoryOK
  <2>. QED BY <2>1, <2>2, ElsewhereStep
<1>7. ASSUME NEW s \in Service, DeleteService(s)
      PROVE  Local'
  <2>1. TableOK' /\ Keeps
    BY <1>7, DropStep DEF DeleteService
  <2>2. DirectoryOK' /\ Elsewhere
    BY <1>7 DEF DeleteService, TypeOK, DirectoryOK
  <2>. QED BY <2>1, <2>2, ElsewhereStep
<1>8. ASSUME NEW x \in Resource, CreateResourceServer(x)
      PROVE  Local'
  <2>1. TableOK' /\ Keeps
    BY <1>8, TableQuiet DEF CreateResourceServer
  <2>2. DirectoryOK' /\ Elsewhere
    BY <1>8 DEF CreateResourceServer, TypeOK, DirectoryOK
  <2>. QED BY <2>1, <2>2, ElsewhereStep
<1>9. ASSUME NEW x \in Resource, DeleteResourceServer(x)
      PROVE  Local'
  <2>1. TableOK' /\ Keeps
    BY <1>9, SweepStep DEF DeleteResourceServer
  <2>2. DirectoryOK' /\ Elsewhere
    BY <1>9 DEF DeleteResourceServer, TypeOK, DirectoryOK
  <2>. QED BY <2>1, <2>2, ElsewhereStep
<1>10. ASSUME DeleteExpired
       PROVE  Local'
  <2>1. TableOK' /\ Keeps
    BY <1>10, DropStep DEF DeleteExpired
  <2>2. DirectoryOK' /\ Elsewhere
    BY <1>10 DEF DeleteExpired, TypeOK, DirectoryOK, dirVars
  <2>. QED BY <2>1, <2>2, ElsewhereStep
<1>. QED
  BY <1>1, <1>2, <1>3, <1>4, <1>5, <1>6, <1>7, <1>8, <1>9, <1>10 DEF Directory, Sweeps

LEMMA TickLocal ==
  ASSUME TypeOK, HandlerOK, Tick
  PROVE  Local'
<1>1. TableOK' /\ Keeps /\ DirectoryOK'
  BY TableQuiet DEF Tick, TypeOK, DirectoryOK, dirVars
<1>2. HandlerOK' /\ now' \in Nat
  BY <1>1 DEF Tick, HandlerOK, Informed, Placed, Keeps, TypeOK
<1>. QED
  BY <1>1, <1>2 DEF Local, TypeOK, Tick, histVars

LEMMA NextLocal == Local /\ [Next]_vars => Local'
<1>. SUFFICES ASSUME TypeOK, HandlerOK, [Next]_vars PROVE Local'
  BY DEF Local
<1>1. CASE UNCHANGED vars
  <2>1. TableOK' /\ Keeps /\ DirectoryOK'
    BY <1>1, TableQuiet DEF vars, TypeOK, DirectoryOK, dirVars
  <2>. QED BY <1>1, <2>1, ElsewhereStep DEF vars, Elsewhere
<1>2. CASE Next
  BY <1>2, ArriveLocal, StepLocal, AbortLocal, DirectoryLocal, TickLocal DEF Next
<1>. QED
  BY <1>1, <1>2

\* Every reachable state is type correct, for any number of tokens, families,
\* users and parallel handlers; in particular every row a handler works on was
\* inserted, and the retries of unrevokeRefreshToken stay within their bound.
THEOREM TypeCorrect == Spec => []TypeOK
<1>1. Spec => []Local
  BY InitLocal, NextLocal, PTL DEF Spec
<1>2. Local => TypeOK
  BY DEF Local
<1>. QED
  BY <1>1, <1>2, PTL

---------------------------------------------------------------------------
(* One usable token per family, one successor per token.                   *)

Ownership == OneOwner /\ SpentIsSpent /\ RotateOnce

\* Frame: no delivered token becomes active and no handler gets hold of one.
NoNewToken ==
  /\ delivered' = delivered
  /\ \A t \in delivered : /\ col'[t].family = col[t].family
                          /\ parent'[t] = parent[t]
                          /\ Active(t)' => Active(t)
NoNewHolder == \A r \in Request, t \in delivered : Holds(r, t)' => Holds(r, t)

LEMMA OwnershipKept ==
  ASSUME Ownership, NoNewToken, NoNewHolder
  PROVE  Ownership'
<1>1. SingleUsable'
  BY DEF Ownership, OneOwner, SingleUsable, Usable, NoNewToken
<1>2. OneOwner'
  BY <1>1 DEF Ownership, OneOwner, NoNewToken, NoNewHolder
<1>3. SpentIsSpent'
  BY DEF Ownership, SpentIsSpent, NoNewToken, NoNewHolder
<1>4. RotateOnce'
  BY DEF Ownership, RotateOnce, NoNewToken
<1>. QED
  BY <1>2, <1>3, <1>4 DEF Ownership

\* Who holds a token after a slot changed.
LEMMA AnswerHolds ==
  ASSUME TypeOK, NEW r \in Request, NEW why, Answer(r, why)
  PROVE  \A r2 \in Request, t \in Token : Holds(r2, t)' => Holds(r2, t) /\ r2 # r
BY DEF Answer, TypeOK, Holds, Idle

LEMMA MoveHolds ==
  ASSUME TypeOK, NEW r \in Request, NEW pc, NEW c, NEW n, NEW why, Move(r, pc, c, n, why)
  PROVE  /\ \A r2 \in Request \ {r}, t \in Token : Holds(r2, t)' <=> Holds(r2, t)
         /\ \A t \in Token : Holds(r, t)' => req[r].tok = t
         /\ pc \notin HoldingPC \/ req[r].pc \in HoldingPC
              => \A t \in Token : Holds(r, t)' => Holds(r, t)
<1>1. PICK q : q = [kind |-> req[r].kind, pc |-> pc, tok |-> req[r].tok, client |-> req[r].client,
                    ctx |-> c, tries |-> n, reply |-> why, barred |-> req[r].barred]
  OBVIOUS
<1>2. q.kind = req[r].kind /\ q.pc = pc /\ q.tok = req[r].tok
  BY <1>1
<1>3. req'[r] = q /\ \A r2 \in Request \ {r} : req'[r2] = req[r2]
  BY <1>1 DEF Move, TypeOK
<1>. QED
  BY <1>2, <1>3 DEF Holds

LEMMA EnterHolds ==
  ASSUME TypeOK, NEW r \in Request, NEW k, NEW pc, NEW t0, NEW s, NEW c, NEW b,
         Enter(r, k, pc, t0, s, c, b), k = "login" \/ pc \in {"consume", "find"}
  PROVE  \A r2 \in Request, t \in Token : Holds(r2, t)' => Holds(r2, t)
<1>1. PICK q : q = [kind |-> k, pc |-> pc, tok |-> t0, client |-> s, ctx |-> c, tries |-> 0,
                    reply |-> "none", barred |-> b]
  OBVIOUS
<1>2. q.kind = k /\ q.pc = pc
  BY <1>1
<1>3. req'[r] = q /\ \A r2 \in Request \ {r} : req'[r2] = req[r2]
  BY <1>1 DEF Enter, TypeOK
<1>. QED
  BY <1>2, <1>3 DEF Holds, HoldingPC

\* Statements that give no client a token it can use.
LEMMA MarkOwns ==
  ASSUME TypeOK, NEW t \in Token, NEW why \in Reason \ {"active"}, Mark(t, why)
  PROVE  NoNewToken /\ ~Active(t)'
BY DEF Mark, TypeOK, TableOK, NoNewToken, Active

LEMMA SweepOwns ==
  ASSUME TypeOK, NEW sel, NEW why \in Reason \ {"active"}, Sweep(sel, why)
  PROVE  NoNewToken
BY DEF Sweep, TypeOK, TableOK, NoNewToken, Active

LEMMA DropOwns ==
  ASSUME TypeOK, NEW sel, DropRows(sel)
  PROVE  NoNewToken
BY DEF DropRows, NoNewToken, Active

LEMMA QuietOwns ==
  ASSUME TypeOK, UNCHANGED tableVars
  PROVE  NoNewToken
BY DEF tableVars, NoNewToken, Active

LEMMA InsertOwns ==
  ASSUME TypeOK, NEW t \in Token \ issued, NEW c, NEW from, Insert(t, c, from), UNCHANGED delivered
  PROVE  NoNewToken
BY DEF Insert, TypeOK, TableOK, NoNewToken, Active

\* Most statements of a handler neither consume a token nor give one out.
LEMMA QuietStep ==
  ASSUME Local, NEW r \in Request,
         \/ ConsumeMiss(r) \/ Inspect(r) \/ RevokeFamily(r) \/ Recheck(r)
         \/ LoadUser(r) \/ LoadService(r) \/ RejectOtherResource(r) \/ LoadResource(r)
         \/ IssueGuarded(r) \/ IssueFails(r) \/ IssueUndelivered(r)
         \/ RecoverCheck(r) \/ AttemptCheck(r) \/ FindToRevoke(r) \/ RevokeFound(r)
         \/ Arrive(r) \/ Abort(r)
  PROVE  NoNewToken /\ NoNewHolder
<1>. TypeOK /\ HandlerOK /\ delivered \subseteq Token
  BY DEF Local, TypeOK, TableOK
<1>1. NoNewToken
  <2>1. CASE RevokeFamily(r)
    BY <2>1, SweepOwns DEF RevokeFamily, Reason
  <2>2. CASE RevokeFound(r)
    <3>1. req[r].tok \in Token
      BY <2>2, Kinds, HandlerFacts DEF RevokeFound
    <3>. QED BY <2>2, <3>1, MarkOwns, QuietOwns DEF RevokeFound, Reason
  <2>3. CASE IssueUndelivered(r)
    BY <2>3, InsertOwns DEF IssueUndelivered
  <2>4. CASE \/ ConsumeMiss(r) \/ Inspect(r) \/ Recheck(r)
             \/ LoadUser(r) \/ LoadService(r) \/ RejectOtherResource(r) \/ LoadResource(r)
             \/ IssueGuarded(r) \/ IssueFails(r) \/ RecoverCheck(r) \/ AttemptCheck(r)
             \/ FindToRevoke(r) \/ Arrive(r) \/ Abort(r)
    <3>1. UNCHANGED tableVars
      BY <2>4 DEF ConsumeMiss, Inspect, Recheck, LoadUser, LoadService, RejectOtherResource,
         LoadResource, IssueGuarded, IssueFails, RecoverCheck, AttemptCheck, FindToRevoke, Arrive,
         BeginLogin, Present, BeginRevocation, Abort
    <3>. QED BY <3>1, QuietOwns
  <2>. QED BY <2>1, <2>2, <2>3, <2>4
<1>2. NoNewHolder
  <2>1. CASE \E why : Answer(r, why)
    BY <2>1, AnswerHolds DEF NoNewHolder
  <2>2. ASSUME NEW pc, NEW c, NEW n, NEW why, Move(r, pc, c, n, why),
               pc \notin HoldingPC \/ req[r].pc \in HoldingPC
        PROVE  NoNewHolder
    BY <2>2, MoveHolds DEF NoNewHolder
  <2>3. ASSUME NEW pc, Goto(r, pc), pc \notin HoldingPC \/ req[r].pc \in HoldingPC
        PROVE  NoNewHolder
    BY <2>2, <2>3 DEF Goto
  <2>4. CASE ConsumeMiss(r) \/ FindToRevoke(r)
    BY <2>1, <2>3, <2>4 DEF ConsumeMiss, FindToRevoke, HoldingPC
  <2>5. CASE Inspect(r)
    BY <2>1, <2>2, <2>5 DEF Inspect, HoldingPC
  <2>6. CASE RevokeFamily(r) \/ RevokeFound(r) \/ Abort(r) \/ IssueGuarded(r)
    BY <2>1, <2>6 DEF RevokeFamily, RevokeFound, Abort, IssueGuarded
  <2>7. CASE Recheck(r) \/ LoadUser(r) \/ LoadService(r) \/ IssueFails(r) \/ IssueUndelivered(r)
    BY <2>1, <2>3, <2>7 DEF Recheck, LoadUser, LoadService, IssueFails, IssueUndelivered,
       AfterFailure, AnswerSettled, At, HoldingPC
  <2>8. CASE RejectOtherResource(r) \/ LoadResource(r) \/ RecoverCheck(r) \/ AttemptCheck(r)
    BY <2>1, <2>2, <2>8 DEF RejectOtherResource, LoadResource, RecoverCheck, AttemptCheck,
       AnswerSettled, At, HoldingPC
  <2>9. CASE Arrive(r)
    <3>1. CASE \E u \in User, s \in Service \cup {NONE}, x \in Resource \cup {NONE} :
                 BeginLogin(r, u, s, x)
      BY <3>1, EnterHolds DEF BeginLogin, NoNewHolder
    <3>2. CASE \E k \in Kind, t \in Token, s \in Service \cup {NONE} : Present(r, k, t, s)
      BY <2>1, <3>2, EnterHolds DEF Present, NoNewHolder
    <3>3. CASE \E k \in Kind, t \in Token, s \in Service \cup {NONE} : BeginRevocation(r, k, t, s)
      BY <3>3, EnterHolds DEF BeginRevocation, NoNewHolder
    <3>. QED BY <2>9, <3>1, <3>2, <3>3 DEF Arrive
  <2>. QED BY <2>4, <2>5, <2>6, <2>7, <2>8, <2>9
<1>. QED
  BY <1>1, <1>2

\* Consumption: the right to continue the family passes from the token to the
\* handler.
LEMMA ConsumeOwnership ==
  ASSUME Local, Ownership, NEW r \in Request, Consume(r)
  PROVE  Ownership'
<1>. DEFINE tok == req[r].tok
<1>. TypeOK /\ HandlerOK /\ delivered \subseteq Token
  BY DEF Local, TypeOK, TableOK
<1>1. tok \in Token /\ tok \in delivered /\ Active(tok)
  BY Kinds, HandlerFacts DEF Consume, MayRotate
<1>2. NoNewToken /\ \A t \in delivered : t = tok => ~Active(t)'
  <2>1. PICK t0 \in Token : t0 = tok
    BY <1>1
  <2>2. Mark(t0, "rotation")
    BY <2>1 DEF Consume
  <2>. QED BY <2>1, <2>2, MarkOwns DEF Reason
<1>3. /\ \A r2 \in Request, t \in delivered : Holds(r2, t)' /\ r2 # r => Holds(r2, t)
      /\ \A t \in delivered : Holds(r, t)' => t = tok
  BY AnswerHolds, MoveHolds DEF Consume
<1>4. \A t \in delivered, r2 \in Request : col[t].family = col[tok].family => ~Holds(r2, t)
  BY <1>1 DEF Ownership, OneOwner
<1>5. SingleUsable' /\ RotateOnce'
  BY <1>2 DEF Ownership, OneOwner, SingleUsable, Usable, NoNewToken, RotateOnce
<1>6. \A t2 \in delivered : col[t2].family = col[tok].family => ~Active(t2)'
  BY <1>1, <1>2 DEF Ownership, OneOwner, SingleUsable, Usable, NoNewToken
<1>7. OneOwner'
  <2>1. ASSUME NEW r1 \in Request, NEW t \in delivered, NEW t2 \in delivered, Holds(r1, t)',
               col[t].family = col[t2].family
        PROVE  ~Active(t2)'
    BY <1>2, <1>3, <1>6, <2>1 DEF Ownership, OneOwner, NoNewToken
  <2>2. ASSUME NEW r1 \in Request, NEW r2 \in Request, NEW t \in delivered, NEW t2 \in delivered,
               Holds(r1, t)', Holds(r2, t2)', col[t].family = col[t2].family
        PROVE  r1 = r2
    BY <1>3, <1>4, <2>2 DEF Ownership, OneOwner
  <2>. QED BY <1>2, <1>5, <2>1, <2>2 DEF OneOwner, NoNewToken
<1>8. SpentIsSpent'
  <2>1. ASSUME NEW t \in delivered, parent[t] # NONE
        PROVE  parent[t] # tok
    BY <1>1, <2>1 DEF Ownership, SpentIsSpent
  <2>. QED BY <1>2, <1>3, <2>1 DEF Ownership, SpentIsSpent, NoNewToken
<1>. QED
  BY <1>5, <1>7, <1>8 DEF Ownership

\* Handing back: the right returns to the token.
LEMMA UnrevokeOwnership ==
  ASSUME Local, Ownership, "unrevoke_applied" \notin Fault,
         NEW r \in Request, Unrevoke(r) \/ UnrevokeFails(r)
  PROVE  Ownership'
<1>. DEFINE tok == req[r].tok
<1>. TypeOK /\ HandlerOK /\ delivered \subseteq Token
  BY DEF Local, TypeOK, TableOK
<1>1. tok \in Token /\ tok \in delivered /\ Holds(r, tok)
  BY Kinds, HandlerFacts DEF Unrevoke, UnrevokeFails, Holds, HoldingPC, At
<1>2. CASE UNCHANGED tableVars
  <2>1. NoNewToken
    BY <1>2, QuietOwns
  <2>2. NoNewHolder
    <3>1. At(r, "unrevoke") /\ req[r].pc \in HoldingPC
      BY DEF Unrevoke, UnrevokeFails, At, HoldingPC
    <3>. QED BY <3>1, AnswerHolds, MoveHolds
             DEF Unrevoke, UnrevokeFails, CatchUnrevoke, AnswerSettled, NoNewHolder
  <2>. QED BY <2>1, <2>2, OwnershipKept
<1>3. CASE Restore(tok) /\ AnswerSettled(r)
  <2>1. /\ delivered' = delivered /\ col' = col /\ parent' = parent
        /\ \A t \in delivered \ {tok} : Active(t)' <=> Active(t)
    BY <1>1, <1>3 DEF Restore, Active, TypeOK, TableOK
  <2>2. \A r2 \in Request, t \in delivered : Holds(r2, t)' => Holds(r2, t) /\ r2 # r
    BY <1>3, AnswerHolds DEF AnswerSettled
  <2>3. \A t2 \in delivered : col[t2].family = col[tok].family => ~Active(t2)
    BY <1>1 DEF Ownership, OneOwner
  <2>4. \A r2 \in Request, t2 \in delivered :
          Holds(r2, t2) /\ col[t2].family = col[tok].family => r2 = r
    BY <1>1 DEF Ownership, OneOwner
  <2>5. SingleUsable' /\ RotateOnce'
    BY <2>1, <2>3 DEF Ownership, OneOwner, SingleUsable, Usable, RotateOnce
  <2>6. OneOwner'
    <3>1. ASSUME NEW r1 \in Request, NEW t \in delivered, NEW t2 \in delivered, Holds(r1, t)',
                 col[t].family = col[t2].family
          PROVE  ~Active(t2)'
      BY <2>1, <2>2, <2>4, <3>1 DEF Ownership, OneOwner
    <3>2. ASSUME NEW r1 \in Request, NEW r2 \in Request, NEW t \in delivered, NEW t2 \in delivered,
                 Holds(r1, t)', Holds(r2, t2)', col[t].family = col[t2].family
          PROVE  r1 = r2
      BY <2>2, <3>2 DEF Ownership, OneOwner
    <3>. QED BY <2>1, <2>5, <3>1, <3>2 DEF OneOwner
  <2>7. SpentIsSpent'
    <3>1. ASSUME NEW t \in delivered, parent[t] # NONE
          PROVE  parent[t] # tok
      BY <1>1, <3>1 DEF Ownership, SpentIsSpent
    <3>. QED BY <2>1, <2>2, <3>1 DEF Ownership, SpentIsSpent
  <2>. QED BY <2>5, <2>6, <2>7 DEF Ownership
<1>. QED
  BY <1>2, <1>3 DEF Unrevoke, UnrevokeFails

\* Issuing: the right passes to the successor, or a new family begins.
LEMMA IssueOwnership ==
  ASSUME Local, Ownership, NEW r \in Request, IssueSucceeds(r)
  PROVE  Ownership'
<1>. DEFINE tok == req[r].tok
<1>. TypeOK /\ HandlerOK /\ delivered \subseteq Token /\ delivered \subseteq issued
  BY DEF Local, TypeOK, TableOK
<1>1. PICK t \in Token \ issued, f \in FamilyFor(r) :
        Insert(t, SuccessorColumns(r, f), tok) /\ delivered' = delivered \cup {t}
  BY DEF IssueSucceeds
<1>2. At(r, "issue") /\ SuccessorColumns(r, f).family = f
  BY DEF IssueSucceeds, SuccessorColumns
<1>3. /\ parent'[t] = tok /\ col'[t].family = f /\ t \notin delivered
      /\ \A t2 \in delivered : /\ col'[t2] = col[t2] /\ parent'[t2] = parent[t2]
                               /\ Active(t2)' <=> Active(t2)
  <2>1. \A t2 \in delivered : t2 \in Token /\ t2 # t
    OBVIOUS
  <2>. QED BY <1>1, <1>2, <2>1 DEF Insert, Active, TypeOK, TableOK
<1>4. \A r2 \in Request, t2 \in Token : Holds(r2, t2)' => Holds(r2, t2) /\ r2 # r
  BY AnswerHolds DEF IssueSucceeds
<1>5. \A t2 \in delivered : col[t2].family = f =>
        ~Active(t2) /\ \A r2 \in Request : r2 # r => ~Holds(r2, t2)
  <2>1. CASE req[r].kind = "login"
    BY <2>1 DEF FamilyFor, UsedFamily
  <2>2. CASE req[r].kind # "login"
    <3>1. req[r].kind \in {"refresh", "grant"} /\ Informed(req[r])
      BY <1>2, <2>2, Kinds, HandlerFacts
    <3>2. f = col[tok].family /\ tok \in delivered /\ Holds(r, tok)
      BY <1>2, <2>2, <3>1 DEF FamilyFor, Informed, Holds, HoldingPC, At
    <3>. QED BY <3>2 DEF Ownership, OneOwner
  <2>. QED BY <2>1, <2>2
<1>6. tok # NONE => /\ tok \in delivered /\ f = col[tok].family /\ Holds(r, tok)
                    /\ \A t2 \in delivered : parent[t2] # tok
  <2>1. ASSUME tok # NONE
        PROVE  req[r].kind \in {"refresh", "grant"} /\ Informed(req[r])
    BY <1>2, <2>1, Kinds, HandlerFacts DEF Placed
  <2>2. tok # NONE => f = col[tok].family /\ tok \in delivered /\ Holds(r, tok)
    BY <1>2, <2>1 DEF FamilyFor, Informed, Holds, HoldingPC, At
  <2>3. \A t2 \in delivered : parent[t2] # NONE => ~Holds(r, parent[t2])
    BY DEF Ownership, SpentIsSpent
  <2>. QED BY <2>2, <2>3
<1>7. \A r2 \in Request : ~Holds(r2, t)
  <2>1. \A r2 \in Request : req[r2].kind \in {"refresh", "grant"} => req[r2].tok \in issued
    BY HandlerFacts
  <2>. QED BY <2>1 DEF Holds
<1>8. SingleUsable'
  BY <1>1, <1>3, <1>5 DEF Ownership, OneOwner, SingleUsable, Usable
<1>9. OneOwner'
  <2>1. ASSUME NEW r1 \in Request, NEW t1 \in delivered', NEW t2 \in delivered', Holds(r1, t1)',
               col'[t1].family = col'[t2].family
        PROVE  ~Active(t2)'
    <3>1. t1 \in delivered /\ Holds(r1, t1) /\ r1 # r
      BY <1>1, <1>4, <1>7, <2>1
    <3>2. t2 # t
      BY <1>3, <1>5, <2>1, <3>1
    <3>. QED BY <1>1, <1>3, <2>1, <3>1, <3>2 DEF Ownership, OneOwner
  <2>2. ASSUME NEW r1 \in Request, NEW r2 \in Request, NEW t1 \in delivered', NEW t2 \in delivered',
               Holds(r1, t1)', Holds(r2, t2)', col'[t1].family = col'[t2].family
        PROVE  r1 = r2
    <3>1. t1 \in delivered /\ Holds(r1, t1) /\ t2 \in delivered /\ Holds(r2, t2)
      BY <1>1, <1>4, <1>7, <2>2
    <3>. QED BY <1>3, <2>2, <3>1 DEF Ownership, OneOwner
  <2>. QED BY <1>8, <2>1, <2>2 DEF OneOwner
<1>10. SpentIsSpent'
  <2>1. ASSUME NEW t1 \in delivered', parent'[t1] # NONE
        PROVE  /\ parent'[t1] \in delivered'
               /\ col'[parent'[t1]].family = col'[t1].family
               /\ \A p \in delivered : p = parent'[t1] =>
                    ~Active(p)' /\ \A r2 \in Request : ~Holds(r2, p)'
               /\ parent'[t1] \in delivered
    <3>1. CASE t1 = t
      BY <1>1, <1>3, <1>4, <1>5, <1>6, <2>1, <3>1
    <3>2. CASE t1 # t
      <4>1. t1 \in delivered /\ parent'[t1] = parent[t1] /\ parent[t1] \in delivered
            /\ col[parent[t1]].family = col[t1].family /\ ~Active(parent[t1])
            /\ \A r2 \in Request : ~Holds(r2, parent[t1])
        BY <1>1, <1>3, <2>1, <3>2 DEF Ownership, SpentIsSpent
      <4>. QED BY <1>1, <1>3, <1>4, <4>1
    <3>. QED BY <3>1, <3>2
  <2>2. ASSUME NEW t1 \in delivered', parent'[t1] # NONE
        PROVE  ~Active(parent[t1])' /\ \A r2 \in Request : ~Holds(r2, parent[t1])'
    <3>1. PICK p \in delivered : p = parent'[t1]
      BY <2>1, <2>2
    <3>2. ~Active(p)' /\ \A r2 \in Request : ~Holds(r2, p)'
      BY <2>1, <2>2, <3>1
    <3>. QED BY <3>1, <3>2 DEF Active, Holds
  <2>. QED BY <2>1, <2>2 DEF SpentIsSpent
<1>11. RotateOnce'
  <2>1. ASSUME NEW t1 \in delivered', NEW t2 \in delivered', parent'[t1] # NONE,
               parent'[t1] = parent'[t2]
        PROVE  t1 = t2
    BY <1>1, <1>3, <1>6, <2>1 DEF Ownership, RotateOnce
  <2>. QED BY <2>1 DEF RotateOnce
<1>. QED
  BY <1>9, <1>10, <1>11 DEF Ownership

LEMMA DirectoryStep ==
  ASSUME Local, Directory
  PROVE  NoNewToken /\ NoNewHolder
<1>. TypeOK /\ delivered \subseteq Token
  BY DEF Local, TypeOK, TableOK
<1>1. NoNewToken
  <2>. "revoked" \in Reason \ {"active"}
    BY DEF Reason
  <2>1. CASE Sweeps
    BY <2>1, SweepOwns DEF Sweeps, RevokeUserTokens, RevokeUserServiceTokens,
       RevokeOtherUserTokens, RevokeTokenById
  <2>2. CASE \E u \in User : Ban(u) \/ BeginUserDeletion(u)
    BY <2>2, SweepOwns DEF Ban, BeginUserDeletion
  <2>3. CASE \E s \in Service : RevokeAllServiceTokens(s)
    BY <2>3, SweepOwns DEF RevokeAllServiceTokens
  <2>4. CASE \E x \in Resource : DeleteResourceServer(x)
    BY <2>4, SweepOwns DEF DeleteResourceServer
  <2>5. CASE \/ \E u \in User : DeleteUser(u)
             \/ \E s \in Service : DeleteService(s)
             \/ DeleteExpired
    BY <2>5, DropOwns DEF DeleteUser, DeleteService, DeleteExpired
  <2>6. CASE (\E u \in User : Unban(u)) \/ (\E x \in Resource : CreateResourceServer(x))
    BY <2>6, QuietOwns DEF Unban, CreateResourceServer
  <2>. QED BY <2>1, <2>2, <2>3, <2>4, <2>5, <2>6 DEF Directory
<1>2. NoNewHolder
  <2>1. CASE UNCHANGED req
    BY <2>1 DEF NoNewHolder, Holds
  <2>2. ASSUME NEW u \in User, Unban(u)
        PROVE  NoNewHolder
    <3>1. ASSUME NEW r \in Request
          PROVE  req'[r].kind = req[r].kind /\ req'[r].pc = req[r].pc /\ req'[r].tok = req[r].tok
      <4>1. req[r] \in Handler
        BY DEF TypeOK
      <4>2. req'[r] = req[r] \/ req'[r] = [req[r] EXCEPT !.barred = FALSE]
        BY <2>2 DEF Unban
      <4>. QED BY <4>1, <4>2 DEF Handler
    <3>. QED BY <3>1 DEF NoNewHolder, Holds
  <2>. QED BY <2>1, <2>2 DEF Directory, Sweeps, RevokeUserTokens, RevokeUserServiceTokens,
              RevokeOtherUserTokens, RevokeTokenById, Ban, BeginUserDeletion, DeleteUser,
              RevokeAllServiceTokens, DeleteService, CreateResourceServer, DeleteResourceServer,
              DeleteExpired, Elsewhere
<1>. QED
  BY <1>1, <1>2

LEMMA NextOwnership ==
  ASSUME "unrevoke_applied" \notin Fault, Local, Ownership, [Next]_vars
  PROVE  Ownership'
<1>1. CASE UNCHANGED vars \/ Tick
  <2>1. UNCHANGED tableVars /\ UNCHANGED req
    BY <1>1 DEF vars, Tick
  <2>2. NoNewToken /\ NoNewHolder
    BY <2>1, QuietOwns DEF NoNewHolder, Holds, Local
  <2>. QED BY <2>2, OwnershipKept
<1>2. CASE Directory
  BY <1>2, DirectoryStep, OwnershipKept
<1>3. CASE \E r \in Request : Arrive(r) \/ Step(r) \/ Abort(r)
  BY <1>3, QuietStep, OwnershipKept, ConsumeOwnership, UnrevokeOwnership, IssueOwnership DEF Step
<1>. QED
  BY <1>1, <1>2, <1>3 DEF Next

LEMMA InitOwnership == Init => Ownership
BY DEF Init, Ownership, OneOwner, SingleUsable, SpentIsSpent, RotateOnce

LEMMA Inductive == "unrevoke_applied" \notin Fault /\ Spec => [](Local /\ Ownership)
<1>1. ASSUME "unrevoke_applied" \notin Fault
      PROVE  Local /\ Ownership /\ [Next]_vars => Local' /\ Ownership'
  BY <1>1, NextLocal, NextOwnership
<1>2. CASE "unrevoke_applied" \notin Fault
  <2>1. Local /\ Ownership /\ [Next]_vars => (Local /\ Ownership)'
    BY <1>1, <1>2
  <2>. QED BY <2>1, InitLocal, InitOwnership, PTL DEF Spec
<1>. QED
  BY <1>2

\* Whatever runs in parallel, and whichever writes fail or report a false
\* failure, a family never has two usable tokens: the exception is an UPDATE of
\* unrevokeRefreshToken that commits, reports an error and is retried.
THEOREM FamilyHasOneUsableToken ==
  "unrevoke_applied" \notin Fault /\ Spec => []SingleUsable
<1>1. Local /\ Ownership => SingleUsable
  BY DEF Ownership, OneOwner
<1>. QED
  BY <1>1, Inductive, PTL

\* Under the same assumption a token buys at most one delivered successor.
THEOREM TokenRotatesOnce ==
  "unrevoke_applied" \notin Fault /\ Spec => []RotateOnce
<1>1. Local /\ Ownership => RotateOnce
  BY DEF Ownership
<1>. QED
  BY <1>1, Inductive, PTL

---------------------------------------------------------------------------
(* What was granted: an invariant for families, registrations and bans.    *)

\* The statements between the consumption of a token and its successor.
Path == {"user", "service", "resource", "issue"}

\* From its first look at the row a rotation knows all of it.  On the path to a successor
\* the service is the one that authenticated, and /auth/refresh carries no resource.
Knows(q) ==
  /\ q.kind \in {"refresh", "grant"} /\ q.pc \notin {"consume", "inspect"} => q.ctx = col[q.tok]
  /\ q.kind = "grant" /\ q.pc \in Path => q.ctx.service = q.client
  /\ q.kind = "refresh" /\ q.tok \in rows => col[q.tok].resource = NONE
  /\ q.kind = "refresh" /\ q.pc \in Path => q.ctx.resource = NONE
  /\ q.kind = "login" /\ q.ctx.resource = NONE => q.ctx.gen = 0

\* A barred request is that of a user who is banned still, and has not come past findUserById.
Subject(q) == IF q.tok = NONE THEN q.ctx.user ELSE col[q.tok].user
Stopped(q) ==
  q.barred => /\ q.kind \in {"login", "refresh", "grant"} /\ Subject(q) \in banned
              /\ q.pc \notin Path \ {"user"}

RowsGranted ==
  /\ \A t \in issued : col[t].resource = NONE => col[t].gen = 0
  /\ FamilyUniform

Granted == RowsGranted /\ \A r \in Request : Knows(req[r]) /\ Stopped(req[r])

\* Frame: rows keep their columns, and none comes back that was deleted.
SameRows ==
  issued \subseteq issued' /\ \A t \in issued : col'[t] = col[t] /\ (t \in rows' => t \in rows)

LEMMA GrantedFacts ==
  ASSUME Local, Granted, NEW r \in Request
  PROVE  /\ TypeOK /\ HandlerOK /\ req[r] \in Handler /\ Placed(req[r]) /\ Informed(req[r])
         /\ Knows(req[r]) /\ Stopped(req[r])
         /\ req[r].kind \in {"refresh", "grant", "logout", "revoke"} =>
              req[r].tok \in issued /\ req[r].tok \in Token /\ req[r].tok # NONE
         /\ req[r].ctx \in Columns /\ req[r].tries \in 0..3 /\ req[r].reply \in Reply
         /\ issued \subseteq Token /\ delivered \subseteq issued /\ NONE \notin Token
BY HandlerFacts, ConstantsAssumption DEF Local, Granted, TypeOK, TableOK

\* One slot changes, and no suspension is lifted.
LEMMA SlotGranted ==
  ASSUME Local, Granted, NEW r \in Request, NEW q, req' = [req EXCEPT ![r] = q],
         Knows(q)', Stopped(q)', SameRows, banned \subseteq banned', RowsGranted'
  PROVE  Granted'
<1>1. req'[r] = q /\ \A p \in Request \ {r} : req'[p] = req[p]
  BY DEF Local, TypeOK
<1>2. ASSUME NEW p \in Request, p # r PROVE Knows(req[p])' /\ Stopped(req[p])'
  <2>1. Knows(req[p])'
    BY <1>1, <1>2, GrantedFacts DEF Knows, SameRows
  <2>2. Stopped(req[p])'
    <3>1. req[p].kind = "login" => req[p].tok = NONE
      BY GrantedFacts DEF Placed
    <3> QED BY <1>1, <1>2, <3>1, GrantedFacts DEF Stopped, Subject, SameRows
  <2> QED BY <2>1, <2>2
<1> QED BY <1>1, <1>2 DEF Granted

LEMMA AnswerGranted ==
  ASSUME Local, Granted, NEW r \in Request, NEW why, Answer(r, why),
         SameRows, banned \subseteq banned', RowsGranted'
  PROVE  Granted'
<1>1. Knows(Idle)' /\ Stopped(Idle)'
  BY IdleOK DEF Knows, Stopped, Idle
<1> QED BY <1>1, SlotGranted DEF Answer

LEMMA MoveGranted ==
  ASSUME Local, Granted, NEW r \in Request, NEW pc, NEW c, NEW n, NEW why,
         Move(r, pc, c, n, why), SameRows, banned \subseteq banned', RowsGranted',
         req[r].kind \in {"refresh", "grant"} /\ pc \notin {"consume", "inspect"}
           => c = col[req[r].tok],
         req[r].kind = "grant" /\ pc \in Path => c.service = req[r].client,
         req[r].kind = "refresh" /\ pc \in Path => c.resource = NONE,
         req[r].kind = "login" => c = req[r].ctx,
         req[r].barred => pc \notin Path \ {"user"}
  PROVE  Granted'
<1>1. PICK q : q = [kind |-> req[r].kind, pc |-> pc, tok |-> req[r].tok, client |-> req[r].client,
                    ctx |-> c, tries |-> n, reply |-> why, barred |-> req[r].barred]
  OBVIOUS
<1>2. /\ q.kind = req[r].kind /\ q.pc = pc /\ q.tok = req[r].tok /\ q.client = req[r].client
      /\ q.ctx = c /\ q.barred = req[r].barred /\ req' = [req EXCEPT ![r] = q]
  BY <1>1 DEF Move
<1>3. Knows(q)'
  BY <1>2, GrantedFacts DEF Knows, SameRows
<1>4. Stopped(q)'
  <2> SUFFICES ASSUME req[r].barred
               PROVE  /\ q.kind \in {"login", "refresh", "grant"} /\ Subject(q)' \in banned'
                      /\ pc \notin Path \ {"user"}
    BY <1>2 DEF Stopped
  <2>1. req[r].kind \in {"login", "refresh", "grant"} /\ Subject(req[r]) \in banned
    BY GrantedFacts DEF Stopped
  <2>2. CASE req[r].kind = "login"
    <3>1. req[r].tok = NONE
      BY <2>2, GrantedFacts DEF Placed
    <3> QED BY <1>2, <2>1, <2>2, <3>1 DEF Subject
  <2>3. CASE req[r].kind # "login"
    <3>1. req[r].tok \in issued /\ req[r].tok # NONE
      BY <2>1, <2>3, GrantedFacts
    <3> QED BY <1>2, <2>1, <3>1 DEF Subject, SameRows
  <2> QED BY <2>2, <2>3
<1> QED BY <1>2, <1>3, <1>4, SlotGranted

\* A handler past its first look goes on with what it knows.
LEMMA GoGranted ==
  ASSUME Local, Granted, NEW r \in Request, NEW pc, NEW n, NEW why,
         Move(r, pc, req[r].ctx, n, why), SameRows, banned \subseteq banned', RowsGranted',
         req[r].pc \notin {"consume", "inspect"},
         pc \in Path => req[r].pc \in Path,
         pc \in Path \ {"user"} => req[r].pc \in Path \ {"user"} \/ ~req[r].barred
  PROVE  Granted'
<1>1. Knows(req[r]) /\ Stopped(req[r])
  BY GrantedFacts
<1> QED BY <1>1, MoveGranted DEF Knows, Stopped

LEMMA QuietRows ==
  ASSUME Local, Granted, UNCHANGED <<col, issued>>, rows' \subseteq rows
  PROVE  SameRows /\ RowsGranted'
BY DEF SameRows, Granted, RowsGranted, FamilyUniform, Local, TypeOK, TableOK

---------------------------------------------------------------------------
(* The statements of a handler.                                            *)

LEMMA LookGranted ==
  ASSUME Local, Granted, NEW r \in Request, Consume(r) \/ ConsumeMiss(r) \/ Inspect(r)
  PROVE  Granted'
<1>1. /\ SameRows /\ RowsGranted' /\ banned \subseteq banned'
      /\ req[r].kind \in {"refresh", "grant"} /\ req[r].tok \in Token
  <2>1. UNCHANGED <<col, issued, rows, banned>>
    BY DEF Consume, ConsumeMiss, Inspect, Mark, tableVars, dirVars
  <2> QED BY <2>1, QuietRows, GrantedFacts, Kinds DEF Consume, ConsumeMiss, Inspect
<1>2. Knows(req[r]) /\ Stopped(req[r])
  BY GrantedFacts
<1>3. CASE Consume(r)
  <2>1. req[r].tok \in rows
    BY <1>3 DEF Consume, MayRotate, Active
  <2>2. req[r].kind = "refresh" => col[req[r].tok].resource = NONE
    BY <1>2, <2>1 DEF Knows
  <2>3. CASE Answer(r, "TOKEN_EXPIRED")
    BY <1>1, <2>3, AnswerGranted
  <2>4. CASE \E why \in Reply : Move(r, "recheck", col[req[r].tok], 0, why)
    <3>1. PICK why : Move(r, "recheck", col[req[r].tok], 0, why)
      BY <2>4
    <3> QED BY <1>1, <3>1, MoveGranted DEF Path
  <2>5. CASE ~ClientMismatch(r, col[req[r].tok]) /\ Move(r, "user", col[req[r].tok], 0, "none")
    <3>1. req[r].kind = "grant" => col[req[r].tok].service = req[r].client
      BY <2>5 DEF ClientMismatch
    <3> QED BY <1>1, <2>2, <2>5, <3>1, MoveGranted
  <2> QED BY <1>3, <2>3, <2>4, <2>5 DEF Consume, Reply
<1>4. CASE ConsumeMiss(r)
  BY <1>1, <1>4, MoveGranted DEF ConsumeMiss, Goto, Path
<1>5. CASE Inspect(r)
  <2>1. CASE Move(r, "family", col[req[r].tok], 0, "none")
    BY <1>1, <2>1, MoveGranted DEF Path
  <2>2. CASE Answer(r, "INVALID_TOKEN") \/ Answer(r, "TOKEN_ROTATED")
    BY <1>1, <2>2, AnswerGranted
  <2> QED BY <1>5, <2>1, <2>2 DEF Inspect
<1> QED BY <1>3, <1>4, <1>5

LEMMA ReadsGranted ==
  ASSUME Local, Granted, NEW r \in Request,
         \/ Recheck(r) \/ LoadUser(r) \/ LoadService(r) \/ RejectOtherResource(r)
         \/ RecoverCheck(r) \/ AttemptCheck(r) \/ IssueGuarded(r) \/ IssueFails(r)
  PROVE  Granted'
<1>1. SameRows /\ RowsGranted' /\ banned \subseteq banned'
  <2>1. UNCHANGED <<col, issued, rows, banned>>
    BY DEF Recheck, LoadUser, LoadService, RejectOtherResource, RecoverCheck, AttemptCheck,
       IssueGuarded, IssueFails, tableVars, dirVars
  <2> QED BY <2>1, QuietRows
<1>2. ASSUME NEW why, Answer(r, why) PROVE Granted'
  BY <1>1, <1>2, AnswerGranted
<1>3. ASSUME NEW pc, NEW n, NEW why, Move(r, pc, req[r].ctx, n, why),
             req[r].pc \notin {"consume", "inspect"}, pc \in Path => req[r].pc \in Path,
             pc \in Path \ {"user"} => req[r].pc \in Path \ {"user"} \/ ~req[r].barred
      PROVE  Granted'
  BY <1>1, <1>3, GoGranted
<1>4. CASE Recheck(r)
  BY <1>2, <1>3, <1>4 DEF Recheck, AnswerSettled, Goto, At, Path
<1>5. CASE LoadUser(r)
  <2>1. req[r].pc = "user"
    BY <1>5 DEF LoadUser, At
  <2>2. CASE Answer(r, "USER_GONE") \/ Answer(r, "BANNED")
    BY <1>2, <2>2
  <2>3. CASE ~(Answer(r, "USER_GONE") \/ Answer(r, "BANNED"))
    <3>1. req[r].ctx.user \notin banned
      BY <1>5, <2>3 DEF LoadUser, Suspended
    <3>2. ~req[r].barred
      <4>1. Placed(req[r]) /\ Knows(req[r]) /\ Stopped(req[r])
        BY GrantedFacts
      <4>2. req[r].barred => req[r].ctx.user = Subject(req[r])
        BY <2>1, <4>1, GrantedFacts DEF Placed, Knows, Stopped, Subject
      <4> QED BY <3>1, <4>1, <4>2 DEF Stopped
    <3>3. PICK pc : pc \in Path /\ Goto(r, pc)
      BY <1>5, <2>3 DEF LoadUser, Path
    <3> QED BY <1>3, <2>1, <3>2, <3>3 DEF Goto, Path
  <2> QED BY <2>2, <2>3
<1>6. CASE LoadService(r)
  BY <1>2, <1>3, <1>6 DEF LoadService, Goto, At, Path
<1>7. CASE RejectOtherResource(r) \/ RecoverCheck(r) \/ AttemptCheck(r)
  BY <1>2, <1>3, <1>7 DEF RejectOtherResource, RecoverCheck, AttemptCheck, AnswerSettled, At, Path
<1>8. CASE IssueGuarded(r) \/ IssueFails(r)
  BY <1>2, <1>3, <1>8 DEF IssueGuarded, IssueFails, AfterFailure, Goto, At, Path
<1> QED BY <1>4, <1>5, <1>6, <1>7, <1>8

LEMMA LoadResourceGranted ==
  ASSUME Local, Granted, NEW r \in Request, LoadResource(r)
  PROVE  Granted'
<1>1. SameRows /\ RowsGranted' /\ banned \subseteq banned' /\ req[r].pc = "resource"
  <2>1. UNCHANGED <<col, issued, rows, banned>>
    BY DEF LoadResource, tableVars, dirVars
  <2> QED BY <2>1, QuietRows DEF LoadResource, At
<1>2. CASE Answer(r, "RESOURCE_GONE") \/ Answer(r, "RESOURCE_REFUSED")
  BY <1>1, <1>2, AnswerGranted
<1>3. CASE ~(Answer(r, "RESOURCE_GONE") \/ Answer(r, "RESOURCE_REFUSED"))
  <2>1. PICK g : /\ g = generation[req[r].ctx.resource] /\ g = req[r].ctx.gen
                 /\ Move(r, "issue", [req[r].ctx EXCEPT !.gen = g], 0, "none")
    BY <1>3 DEF LoadResource, SameGeneration
  <2>2. [req[r].ctx EXCEPT !.gen = g] = req[r].ctx
    BY <2>1, GrantedFacts DEF Columns
  <2>3. Move(r, "issue", req[r].ctx, 0, "none")
    BY <2>1, <2>2
  <2> QED BY <1>1, <2>3, GoGranted DEF Path
<1> QED BY <1>2, <1>3

\* The successor is granted what the presented token was.
LEMMA SuccessorGranted ==
  ASSUME Local, Granted, NEW r \in Request, At(r, "issue"), NEW t \in Token \ issued,
         NEW f \in FamilyFor(r), NEW c, c = SuccessorColumns(r, f), Insert(t, c, req[r].tok)
  PROVE  SameRows /\ RowsGranted'
<1>1. /\ c \in Columns /\ req[r].kind \in {"login", "refresh", "grant"} /\ req[r].pc = "issue"
      /\ TypeOK
  BY SuccessorOK, Kinds, GrantedFacts DEF At
<1>2. /\ c.user = req[r].ctx.user /\ c.family = f
      /\ c.service = IF req[r].kind = "grant" THEN req[r].client ELSE req[r].ctx.service
      /\ c.resource = IF req[r].kind = "refresh" THEN NONE ELSE req[r].ctx.resource
      /\ c.gen = IF req[r].kind = "refresh" THEN 0 ELSE req[r].ctx.gen
  BY DEF SuccessorColumns
<1>3. /\ issued' = issued \cup {t} /\ col' = [col EXCEPT ![t] = c] /\ rows' = rows \cup {t}
      /\ col \in [Token -> Columns] /\ issued \subseteq Token
  BY <1>1 DEF Insert, TypeOK, TableOK
<1>4. col'[t] = c /\ \A t1 \in issued : col'[t1] = col[t1]
  BY <1>3
<1>5. SameRows
  BY <1>3, <1>4 DEF SameRows
<1>6. /\ \A t1 \in issued : col[t1].resource = NONE => col[t1].gen = 0
      /\ FamilyUniform /\ Knows(req[r])
  BY DEF Granted, RowsGranted
<1>7. req[r].kind # "login" => /\ req[r].tok \in issued /\ req[r].ctx = col[req[r].tok]
                               /\ f = col[req[r].tok].family
  BY <1>1, <1>6, GrantedFacts DEF Knows, FamilyFor
<1>8. c.resource = NONE => c.gen = 0
  BY <1>1, <1>2, <1>6, <1>7 DEF Knows
<1>9. ASSUME NEW t1 \in issued, col[t1].family = f
      PROVE  [col[t1] EXCEPT !.expiresAt = 0] = [c EXCEPT !.expiresAt = 0]
  <2>1. req[r].kind # "login"
    BY <1>9 DEF FamilyFor, UsedFamily
  <2>2. PICK d : d = col[req[r].tok] /\ d \in Columns
    BY <1>3, <1>7, <2>1
  <2>3. /\ c.user = d.user /\ c.service = d.service /\ c.family = d.family
        /\ c.resource = d.resource /\ c.gen = d.gen
    BY <1>1, <1>2, <1>6, <1>7, <2>1, <2>2 DEF Knows, Path
  <2>4. [d EXCEPT !.expiresAt = 0] = [c EXCEPT !.expiresAt = 0]
    BY <1>1, <2>2, <2>3 DEF Columns
  <2>5. [col[t1] EXCEPT !.expiresAt = 0] = [col[req[r].tok] EXCEPT !.expiresAt = 0]
    BY <1>6, <1>7, <1>9, <2>1 DEF FamilyUniform
  <2> QED BY <2>2, <2>4, <2>5
<1>10. FamilyUniform'
  <2> SUFFICES ASSUME NEW t1 \in issued', NEW t2 \in issued', col'[t1].family = col'[t2].family
               PROVE  [col'[t1] EXCEPT !.expiresAt = 0] = [col'[t2] EXCEPT !.expiresAt = 0]
    BY DEF FamilyUniform
  <2>1. CASE t1 \in issued /\ t2 \in issued
    BY <1>4, <1>6, <2>1 DEF FamilyUniform
  <2>2. CASE t1 = t /\ t2 \in issued
    BY <1>2, <1>4, <1>9, <2>2
  <2>3. CASE t2 = t /\ t1 \in issued
    BY <1>2, <1>4, <1>9, <2>3
  <2>4. CASE t1 = t /\ t2 = t
    BY <2>4
  <2> QED BY <1>3, <2>1, <2>2, <2>3, <2>4
<1> QED BY <1>3, <1>4, <1>5, <1>6, <1>8, <1>10 DEF RowsGranted

LEMMA WritesGranted ==
  ASSUME Local, Granted, NEW r \in Request,
         \/ IssueSucceeds(r) \/ IssueUndelivered(r) \/ Unrevoke(r) \/ UnrevokeFails(r)
         \/ RevokeFamily(r) \/ FindToRevoke(r) \/ RevokeFound(r) \/ Abort(r)
  PROVE  Granted'
<1>1. banned' = banned /\ banned \subseteq banned'
  BY DEF IssueSucceeds, IssueUndelivered, Unrevoke, UnrevokeFails, RevokeFamily, FindToRevoke,
     RevokeFound, Abort, dirVars
<1>2. CASE IssueSucceeds(r) \/ IssueUndelivered(r)
  <2>1. SameRows /\ RowsGranted' /\ req[r].pc = "issue"
    BY <1>2, SuccessorGranted DEF IssueSucceeds, IssueUndelivered, At
  <2>2. CASE \E why : Answer(r, why)
    BY <1>1, <2>1, <2>2, AnswerGranted
  <2>3. CASE Goto(r, "recover")
    BY <1>1, <2>1, <2>3, GoGranted DEF Goto, Path
  <2> QED BY <1>2, <2>2, <2>3 DEF IssueSucceeds, IssueUndelivered, AfterFailure
<1>3. CASE Unrevoke(r) \/ UnrevokeFails(r)
  <2>1. UNCHANGED <<col, issued, rows>>
    BY <1>3 DEF Unrevoke, UnrevokeFails, Restore, tableVars
  <2>2. SameRows /\ RowsGranted' /\ req[r].pc = "unrevoke"
    BY <1>3, <2>1, QuietRows DEF Unrevoke, UnrevokeFails, At
  <2>3. CASE \E why : Answer(r, why)
    BY <1>1, <2>2, <2>3, AnswerGranted
  <2>4. CASE \E n, why : Move(r, "unrevoke", req[r].ctx, n, why)
    BY <1>1, <2>2, <2>4, GoGranted DEF Path
  <2> QED BY <1>3, <2>3, <2>4 DEF Unrevoke, UnrevokeFails, CatchUnrevoke, AnswerSettled
<1>4. CASE RevokeFamily(r) \/ FindToRevoke(r) \/ RevokeFound(r) \/ Abort(r)
  <2>1. UNCHANGED <<col, issued, rows>>
    BY <1>4 DEF RevokeFamily, Sweep, FindToRevoke, RevokeFound, Mark, Abort, tableVars
  <2>2. SameRows /\ RowsGranted'
    BY <2>1, QuietRows
  <2>3. CASE \E why : Answer(r, why)
    BY <1>1, <2>2, <2>3, AnswerGranted
  <2>4. CASE FindToRevoke(r) /\ Goto(r, "drop")
    <3>1. req[r].kind \in {"logout", "revoke"} /\ req[r].pc = "find"
      BY <2>4, GrantedFacts, Kinds DEF FindToRevoke, At
    <3> QED BY <1>1, <2>2, <2>4, <3>1, GoGranted DEF Goto, Path
  <2> QED BY <1>4, <2>3, <2>4 DEF RevokeFamily, FindToRevoke, RevokeFound, Abort
<1> QED BY <1>2, <1>3, <1>4

LEMMA ArriveGranted ==
  ASSUME Local, Granted, NEW r \in Request, Arrive(r)
  PROVE  Granted'
<1>1. UNCHANGED <<col, issued, rows, banned, delivered>>
  BY DEF Arrive, BeginLogin, Present, BeginRevocation, tableVars, dirVars
<1>2. SameRows /\ RowsGranted' /\ banned \subseteq banned'
  BY <1>1, QuietRows
<1>3. NONE \notin Token
  BY ConstantsAssumption
<1>4. ASSUME NEW k, NEW pc, NEW t, NEW s, NEW c, NEW b, Enter(r, k, pc, t, s, c, b),
             \/ /\ k = "login" /\ pc = "user" /\ t = NONE
                /\ c.resource = NONE => c.gen = 0
                /\ b => c.user \in banned
             \/ /\ k \in {"refresh", "grant"} /\ pc = "consume" /\ t \in Token
                /\ k = "refresh" /\ t \in rows => col[t].resource = NONE
                /\ b => col[t].user \in banned
             \/ k \in {"logout", "revoke"} /\ pc = "find" /\ b = FALSE
      PROVE  Granted'
  <2>1. PICK q : q = [kind |-> k, pc |-> pc, tok |-> t, client |-> s, ctx |-> c, tries |-> 0,
                      reply |-> "none", barred |-> b]
    OBVIOUS
  <2>2. /\ q.kind = k /\ q.pc = pc /\ q.tok = t /\ q.client = s /\ q.ctx = c /\ q.barred = b
        /\ req' = [req EXCEPT ![r] = q]
    BY <1>4, <2>1 DEF Enter
  <2>3. Knows(q)'
    BY <1>1, <1>4, <2>2 DEF Knows, Path
  <2>4. Stopped(q)'
    BY <1>1, <1>3, <1>4, <2>2 DEF Stopped, Subject, Path
  <2> QED BY <1>2, <2>2, <2>3, <2>4, SlotGranted
<1>5. ASSUME NEW u \in User, NEW s \in Service \cup {NONE}, NEW x \in Resource \cup {NONE},
             BeginLogin(r, u, s, x)
      PROVE  Granted'
  <2>1. PICK c : c = [user |-> u, service |-> s, family |-> NONE, resource |-> x,
                      gen |-> IF x = NONE THEN 0 ELSE generation[x], expiresAt |-> 0]
    OBVIOUS
  <2>2. Enter(r, "login", "user", NONE, s, c, u \in banned) /\ c.user = u /\ c.resource = x
        /\ (x = NONE => c.gen = 0)
    BY <1>5, <2>1 DEF BeginLogin
  <2> QED BY <1>4, <2>2
<1>6. ASSUME NEW k \in Kind, NEW t \in Token, NEW s \in Service \cup {NONE}, Present(r, k, t, s)
      PROVE  Granted'
  <2>1. CASE Answer(r, "RESOURCE_BOUND")
    BY <1>2, <2>1, AnswerGranted
  <2>2. CASE ~Answer(r, "RESOURCE_BOUND")
    <3>1. /\ k \in {"refresh", "grant"} /\ ~Peeked(k, t)
          /\ Enter(r, k, "consume", t, s, NoColumns, col[t].user \in banned)
      BY <1>6, <2>2 DEF Present
    <3> QED BY <1>4, <3>1 DEF Peeked
  <2> QED BY <2>1, <2>2
<1>7. ASSUME NEW k \in Kind, NEW t \in Token, NEW s \in Service \cup {NONE},
             BeginRevocation(r, k, t, s)
      PROVE  Granted'
  <2>1. k \in {"logout", "revoke"} /\ Enter(r, k, "find", t, s, NoColumns, FALSE)
    BY <1>7 DEF BeginRevocation
  <2> QED BY <1>4, <2>1
<1> QED BY <1>5, <1>6, <1>7 DEF Arrive

---------------------------------------------------------------------------
(* The other handlers, and behaviours.                                     *)

LEMMA ElsewhereGranted ==
  ASSUME Local, Granted, UNCHANGED <<col, issued, req>>, rows' \subseteq rows,
         banned \subseteq banned'
  PROVE  Granted'
<1>1. SameRows /\ RowsGranted'
  BY QuietRows
<1>2. ASSUME NEW p \in Request PROVE Knows(req[p])' /\ Stopped(req[p])'
  <2>1. Knows(req[p]) /\ Stopped(req[p])
    BY DEF Granted
  <2> QED BY <2>1 DEF Knows, Stopped, Subject
<1> QED BY <1>1, <1>2 DEF Granted

LEMMA UnbanGranted ==
  ASSUME Local, Granted, NEW u \in User, Unban(u)
  PROVE  Granted'
<1>1. /\ UNCHANGED <<col, issued, rows>> /\ banned' = banned \ {u}
      /\ req' = [r \in Request |->
           IF req[r].barred /\ u = Subject(req[r]) THEN [req[r] EXCEPT !.barred = FALSE]
           ELSE req[r]]
  BY DEF Unban, tableVars, Subject
<1>2. SameRows /\ RowsGranted'
  BY <1>1, QuietRows
<1>3. ASSUME NEW p \in Request PROVE Knows(req[p])' /\ Stopped(req[p])'
  <2>1. Knows(req[p]) /\ Stopped(req[p]) /\ req[p] \in Handler
    BY GrantedFacts
  <2>2. CASE req[p].barred /\ u = Subject(req[p])
    <3>1. PICK q : /\ q.kind = req[p].kind /\ q.pc = req[p].pc /\ q.tok = req[p].tok
                   /\ q.client = req[p].client /\ q.ctx = req[p].ctx /\ q.barred = FALSE
                   /\ req'[p] = q
      <4> PICK q : q = [req[p] EXCEPT !.barred = FALSE]
        OBVIOUS
      <4>1. /\ q.kind = req[p].kind /\ q.pc = req[p].pc /\ q.tok = req[p].tok
            /\ q.client = req[p].client /\ q.ctx = req[p].ctx /\ q.barred = FALSE
        BY <2>1 DEF Handler
      <4> QED BY <1>1, <2>2, <4>1
    <3>2. Knows(q)'
      BY <1>1, <2>1, <3>1 DEF Knows
    <3>3. Stopped(q)'
      BY <3>1 DEF Stopped
    <3> QED BY <3>1, <3>2, <3>3 DEF Knows, Stopped, Subject
  <2>3. CASE ~(req[p].barred /\ u = Subject(req[p]))
    <3>1. req'[p] = req[p]
      BY <1>1, <2>3
    <3> QED BY <1>1, <2>1, <2>3, <3>1 DEF Knows, Stopped, Subject
  <2> QED BY <2>2, <2>3
<1> QED BY <1>2, <1>3 DEF Granted

LEMMA DirectoryGranted ==
  ASSUME Local, Granted, Directory
  PROVE  Granted'
<1>1. CASE \E u \in User : Unban(u)
  BY <1>1, UnbanGranted
<1>2. CASE ~\E u \in User : Unban(u)
  <2>1. UNCHANGED <<col, issued, req>> /\ rows' \subseteq rows /\ banned \subseteq banned'
    BY <1>2 DEF Directory, Sweeps, RevokeUserTokens, RevokeUserServiceTokens,
       RevokeOtherUserTokens, RevokeTokenById, Ban, BeginUserDeletion, DeleteUser,
       RevokeAllServiceTokens, DeleteService, CreateResourceServer, DeleteResourceServer,
       DeleteExpired, Elsewhere, Sweep, DropRows, tableVars, dirVars
  <2> QED BY <2>1, ElsewhereGranted
<1> QED BY <1>1, <1>2

LEMMA NextGranted == Local /\ Granted /\ [Next]_vars => Granted'
<1> SUFFICES ASSUME Local, Granted, [Next]_vars PROVE Granted'
  OBVIOUS
<1>1. CASE UNCHANGED vars \/ Tick
  BY <1>1, ElsewhereGranted DEF vars, Tick, tableVars, dirVars
<1>2. CASE Directory
  BY <1>2, DirectoryGranted
<1>3. CASE \E r \in Request : Arrive(r) \/ Step(r) \/ Abort(r)
  BY <1>3, LookGranted, ReadsGranted, LoadResourceGranted, WritesGranted, ArriveGranted DEF Step
<1> QED BY <1>1, <1>2, <1>3 DEF Next

LEMMA InitGranted == Init => Granted
BY DEF Init, Granted, RowsGranted, FamilyUniform, Knows, Stopped, Idle

LEMMA GrantedHolds == Spec => [](Local /\ Granted)
BY InitLocal, NextLocal, InitGranted, NextGranted, PTL DEF Spec

\* A rotation never changes what was granted: all tokens of a family are of one user,
\* one service and one registration of a resource, through /auth/refresh and the token
\* endpoint alike, whatever is deleted or registered meanwhile
\* (utils/token-pair.ts, routes/token, routes/auth/refresh.ts).
THEOREM FamilyKeepsItsGrant == Spec => []FamilyUniform
<1>1. Local /\ Granted => FamilyUniform
  BY DEF Granted, RowsGranted
<1> QED BY <1>1, GrantedHolds, PTL

---------------------------------------------------------------------------
(* What one step may do to a token.                                        *)

LEMMA DeliversByIssue ==
  ASSUME TypeOK, [Next]_vars, delivered' \ delivered # {}
  PROVE  \E r \in Request : IssueSucceeds(r)
<1>1. ASSUME NEW sel, NEW why, Sweep(sel, why) PROVE delivered' = delivered
  BY <1>1 DEF Sweep
<1>2. ASSUME NEW sel, DropRows(sel) PROVE delivered' = delivered
  BY <1>2 DEF DropRows
<1>3. CASE UNCHANGED vars \/ Tick
  BY <1>3 DEF vars, Tick, tableVars
<1>4. CASE Directory
  <2>1. CASE (\E u \in User : Unban(u)) \/ (\E x \in Resource : CreateResourceServer(x))
    BY <2>1 DEF Unban, CreateResourceServer, tableVars
  <2> QED BY <1>1, <1>2, <1>4, <2>1 DEF Directory, Sweeps, RevokeUserTokens,
              RevokeUserServiceTokens, RevokeOtherUserTokens, RevokeTokenById, Ban,
              BeginUserDeletion, DeleteUser, RevokeAllServiceTokens, DeleteService,
              DeleteResourceServer, DeleteExpired
<1>5. ASSUME NEW r \in Request, Arrive(r) \/ Abort(r) PROVE UNCHANGED delivered
  BY <1>5 DEF Arrive, BeginLogin, Present, BeginRevocation, Abort, tableVars
<1>6. ASSUME NEW r \in Request, Step(r), ~IssueSucceeds(r) PROVE UNCHANGED delivered
  <2>1. CASE Consume(r) \/ RevokeFamily(r) \/ RevokeFound(r)
    BY <2>1 DEF Consume, RevokeFamily, RevokeFound, Mark, Sweep, tableVars
  <2>2. CASE IssueUndelivered(r)
    BY <2>2 DEF IssueUndelivered
  <2>3. CASE Unrevoke(r) \/ UnrevokeFails(r)
    BY <2>3 DEF Unrevoke, UnrevokeFails, Restore, tableVars
  <2>4. CASE \/ ConsumeMiss(r) \/ Inspect(r) \/ Recheck(r) \/ LoadUser(r) \/ LoadService(r)
             \/ RejectOtherResource(r) \/ LoadResource(r) \/ IssueGuarded(r) \/ IssueFails(r)
             \/ RecoverCheck(r) \/ AttemptCheck(r) \/ FindToRevoke(r)
    BY <2>4 DEF ConsumeMiss, Inspect, Recheck, LoadUser, LoadService, RejectOtherResource,
       LoadResource, IssueGuarded, IssueFails, RecoverCheck, AttemptCheck, FindToRevoke, tableVars
  <2> QED BY <1>6, <2>1, <2>2, <2>3, <2>4 DEF Step
<1> QED BY <1>3, <1>4, <1>5, <1>6 DEF Next

\* No pair is issued for a resource server unless the registration under which the
\* family was granted stands, even if the resource is deleted and registered again while
\* the handler runs (insertRefreshTokenForResource, utils/resource-binding.ts).
THEOREM PairsFitTheRegistration == Spec => ResourceBound
<1> DEFINE Bound ==
      \A t \in delivered' \ delivered :
        LET c == col'[t]
            p == parent'[t]
        IN c.resource # NONE =>
             /\ c.resource \in registered /\ generation[c.resource] = c.gen
             /\ p # NONE => col[p].resource = c.resource /\ col[p].gen = c.gen
<1>1. Local /\ Granted /\ [Next]_vars => [Bound]_vars
  <2> SUFFICES ASSUME Local, Granted, [Next]_vars, NEW t \in delivered' \ delivered,
                      col'[t].resource # NONE
               PROVE  /\ col'[t].resource \in registered
                      /\ generation[col'[t].resource] = col'[t].gen
                      /\ parent'[t] # NONE => /\ col[parent'[t]].resource = col'[t].resource
                                              /\ col[parent'[t]].gen = col'[t].gen
    OBVIOUS
  <2>1. PICK r \in Request : IssueSucceeds(r)
    BY DeliversByIssue DEF Local
  <2>2. PICK c : /\ GuardHolds(c) /\ Insert(t, c, req[r].tok)
                 /\ \E f \in FamilyFor(r) : c = SuccessorColumns(r, f)
    BY <2>1 DEF IssueSucceeds
  <2>3. t \in Token /\ col'[t] = c /\ parent'[t] = req[r].tok
    <3>1. t \in Token \ issued
      BY <2>1 DEF IssueSucceeds
    <3> QED BY <2>2, <3>1 DEF Insert, Local, TypeOK, TableOK
  <2>4. c.resource \in registered /\ generation[c.resource] = c.gen
    BY <2>2, <2>3 DEF GuardHolds
  <2>5. /\ c.resource = IF req[r].kind = "refresh" THEN NONE ELSE req[r].ctx.resource
        /\ c.gen = IF req[r].kind = "refresh" THEN 0 ELSE req[r].ctx.gen
    BY <2>2 DEF SuccessorColumns
  <2>6. req[r].tok # NONE => req[r].ctx = col[req[r].tok]
    <3>1. req[r].pc = "issue" /\ req[r].kind \in {"login", "refresh", "grant"}
      BY <2>1, GrantedFacts, Kinds DEF IssueSucceeds, At
    <3> QED BY <3>1, GrantedFacts DEF Placed, Knows
  <2> QED BY <2>3, <2>4, <2>5, <2>6
<1> QED BY <1>1, GrantedHolds, PTL DEF Spec, ResourceBound

\* A request that arrives while its user is banned gets no tokens, unless the ban is
\* lifted while it runs (findUserById in routes/auth/refresh.ts and routes/token).
THEOREM BannedGetsNothing == Spec => BarredGetsNothing
<1>1. Local /\ Granted /\ [Next]_vars
        => [\A t \in delivered' \ delivered, r \in Request :
              req[r].barred => req'[r] = req[r]]_vars
  <2> SUFFICES ASSUME Local, Granted, [Next]_vars, delivered' \ delivered # {},
                      NEW r \in Request, req[r].barred
               PROVE  req'[r] = req[r]
    OBVIOUS
  <2>1. PICK s \in Request : IssueSucceeds(s)
    BY DeliversByIssue DEF Local
  <2>2. Stopped(req[s]) /\ req[s].pc = "issue"
    BY <2>1, GrantedFacts DEF IssueSucceeds, At
  <2>3. s # r
    BY <2>2 DEF Stopped, Path
  <2> QED BY <2>1, <2>3 DEF IssueSucceeds, Answer, Local, TypeOK
<1> QED BY <1>1, GrantedHolds, PTL DEF Spec, BarredGetsNothing

\* What revoked a row other than a rotation stays through one step.
LEMMA RevokedStays ==
  ASSUME Local, [Next]_vars, NEW t \in rows, revoked[t] \in {"reuse_detected", "revoked"}
  PROVE  revoked'[t] # "active"
<1>1. /\ TypeOK /\ HandlerOK /\ t \in Token /\ t \in issued /\ revoked \in [Token -> Reason]
      /\ ~Active(t) /\ ~MayRotate(t) /\ ~Unrevocable(t)
  BY DEF Local, TypeOK, TableOK, Active, MayRotate, Unrevocable
<1>2. ASSUME revoked' = revoked PROVE revoked'[t] # "active"
  BY <1>2
<1>3. ASSUME NEW sel, NEW why, Sweep(sel, why) PROVE revoked'[t] # "active"
  BY <1>1, <1>3 DEF Sweep
<1>4. ASSUME NEW s \in Token, NEW why, why # "active", Mark(s, why) PROVE revoked'[t] # "active"
  BY <1>1, <1>4 DEF Mark
<1>5. ASSUME NEW s \in Token, s # t, NEW c, NEW from, Insert(s, c, from) \/ Restore(s)
      PROVE  revoked'[t] # "active"
  BY <1>1, <1>5 DEF Insert, Restore
<1>6. ASSUME NEW sel, DropRows(sel) PROVE revoked'[t] # "active"
  BY <1>6 DEF DropRows
<1>7. CASE UNCHANGED vars \/ Tick
  BY <1>2, <1>7 DEF vars, Tick, tableVars
<1>8. CASE Directory
  <2>1. CASE (\E u \in User : Unban(u)) \/ (\E x \in Resource : CreateResourceServer(x))
    BY <1>2, <2>1 DEF Unban, CreateResourceServer, tableVars
  <2> QED BY <1>3, <1>6, <1>8, <2>1 DEF Directory, Sweeps, RevokeUserTokens,
              RevokeUserServiceTokens, RevokeOtherUserTokens, RevokeTokenById, Ban,
              BeginUserDeletion, DeleteUser, RevokeAllServiceTokens, DeleteService,
              DeleteResourceServer, DeleteExpired
<1>9. ASSUME NEW r \in Request, Arrive(r) \/ Abort(r) PROVE revoked'[t] # "active"
  BY <1>2, <1>9 DEF Arrive, BeginLogin, Present, BeginRevocation, Abort, tableVars
<1>10. ASSUME NEW r \in Request, Step(r) PROVE revoked'[t] # "active"
  <2>1. CASE Consume(r)
    <3>1. req[r].tok \in Token
      BY <1>1, <2>1, Kinds, HandlerFacts DEF Consume
    <3> QED BY <1>4, <2>1, <3>1 DEF Consume
  <2>2. CASE RevokeFound(r)
    <3>1. req[r].tok \in Token
      BY <1>1, <2>2, Kinds, HandlerFacts DEF RevokeFound
    <3> QED BY <1>2, <1>4, <2>2, <3>1 DEF RevokeFound, tableVars
  <2>3. CASE RevokeFamily(r)
    BY <1>3, <2>3 DEF RevokeFamily
  <2>4. CASE IssueSucceeds(r) \/ IssueUndelivered(r)
    <3>1. PICK s \in Token \ issued : \E c : Insert(s, c, req[r].tok)
      BY <2>4 DEF IssueSucceeds, IssueUndelivered
    <3> QED BY <1>1, <1>5, <3>1
  <2>5. CASE Unrevoke(r) \/ UnrevokeFails(r)
    <3>1. req[r].tok \in Token
      BY <1>1, <2>5, Kinds, HandlerFacts DEF Unrevoke, UnrevokeFails
    <3>2. UNCHANGED tableVars \/ (Unrevocable(req[r].tok) /\ Restore(req[r].tok))
      BY <2>5 DEF Unrevoke, UnrevokeFails
    <3> QED BY <1>1, <1>2, <1>5, <3>1, <3>2 DEF tableVars
  <2>6. CASE \/ ConsumeMiss(r) \/ Inspect(r) \/ Recheck(r) \/ LoadUser(r) \/ LoadService(r)
             \/ RejectOtherResource(r) \/ LoadResource(r) \/ IssueGuarded(r) \/ IssueFails(r)
             \/ RecoverCheck(r) \/ AttemptCheck(r) \/ FindToRevoke(r)
    BY <1>2, <2>6 DEF ConsumeMiss, Inspect, Recheck, LoadUser, LoadService, RejectOtherResource,
       LoadResource, IssueGuarded, IssueFails, RecoverCheck, AttemptCheck, FindToRevoke, tableVars
  <2> QED BY <1>10, <2>1, <2>2, <2>3, <2>4, <2>5, <2>6 DEF Step
<1> QED BY <1>7, <1>8, <1>9, <1>10 DEF Next

\* Only a rotation is ever undone: a row that was revoked by a logout, a ban, a deletion
\* or for reuse never becomes active again, even if the revocation overtook a recovery
\* that was under way (unrevokeRefreshToken).
THEOREM RevokedForGood == Spec => RevocationIsFinal
<1>1. Local /\ [Next]_vars
        => [\A t \in rows : revoked[t] \in {"reuse_detected", "revoked"}
              => revoked'[t] # "active"]_vars
  BY RevokedStays
<1> QED BY <1>1, GrantedHolds, PTL DEF Spec, RevocationIsFinal

\* A family that is over stays so through one step.
LEMMA OverStays ==
  ASSUME Local, [Next]_vars, NEW f \in UsedFamily, ~Alive(f)
  PROVE  ~Alive(f)'
<1>1. /\ TypeOK /\ HandlerOK /\ delivered \subseteq issued /\ issued \subseteq Token
      /\ rows \subseteq issued
  BY DEF Local, TypeOK, TableOK
<1>2. ASSUME NoNewToken, NoNewHolder PROVE ~Alive(f)'
  BY <1>2 DEF Alive, Usable, NoNewToken, NoNewHolder
<1>3. ASSUME NEW r \in Request, Consume(r) PROVE ~Alive(f)'
  <2>1. PICK tok \in delivered : tok = req[r].tok /\ Active(tok)
    BY <1>1, <1>3, Kinds, HandlerFacts DEF Consume, MayRotate
  <2>2. NoNewToken
    BY <1>1, <1>3, <2>1, MarkOwns DEF Consume, Reason
  <2>3. /\ \A p \in Request, t \in delivered : Holds(p, t)' /\ p # r => Holds(p, t)
        /\ \A t \in delivered : Holds(r, t)' => t = tok
    BY <1>1, <1>3, <2>1, AnswerHolds, MoveHolds DEF Consume
  <2>4. col[tok].family # f
    BY <2>1 DEF Alive, Usable
  <2> QED BY <2>2, <2>3, <2>4 DEF Alive, Usable, NoNewToken
<1>4. ASSUME NEW r \in Request, Unrevoke(r) \/ UnrevokeFails(r) PROVE ~Alive(f)'
  <2>1. PICK tok \in delivered : tok = req[r].tok /\ Holds(r, tok)
    BY <1>1, <1>4, Kinds, HandlerFacts DEF Unrevoke, UnrevokeFails, Holds, HoldingPC, At
  <2>2. col[tok].family # f
    BY <2>1 DEF Alive
  <2>3. NoNewHolder
    <3>1. req[r].pc \in HoldingPC
      BY <1>4 DEF Unrevoke, UnrevokeFails, At, HoldingPC
    <3> QED BY <1>1, <1>4, <3>1, AnswerHolds, MoveHolds
             DEF Unrevoke, UnrevokeFails, CatchUnrevoke, AnswerSettled, NoNewHolder
  <2>4. /\ delivered' = delivered /\ col' = col
        /\ \A t \in delivered \ {tok} : Active(t)' => Active(t)
    BY <1>1, <1>4, <2>1 DEF Unrevoke, UnrevokeFails, Restore, tableVars, Active, TypeOK, TableOK
  <2> QED BY <2>2, <2>3, <2>4 DEF Alive, Usable, NoNewHolder
<1>5. ASSUME NEW r \in Request, IssueSucceeds(r) PROVE ~Alive(f)'
  <2>1. PICK s \in Token \ issued, g \in FamilyFor(r) :
          Insert(s, SuccessorColumns(r, g), req[r].tok) /\ delivered' = delivered \cup {s}
    BY <1>5 DEF IssueSucceeds
  <2>2. SuccessorColumns(r, g).family = g /\ At(r, "issue")
    BY <1>5 DEF SuccessorColumns, IssueSucceeds
  <2>3. col'[s].family = g
    BY <1>1, <2>1, <2>2 DEF Insert, TypeOK, TableOK
  <2>4. g # f
    <3>1. CASE req[r].kind = "login"
      BY <3>1 DEF FamilyFor
    <3>2. CASE req[r].kind # "login"
      <4>1. req[r].kind \in {"refresh", "grant"} /\ Informed(req[r]) /\ req[r].pc = "issue"
        BY <1>1, <2>2, <3>2, Kinds, HandlerFacts DEF At
      <4>2. PICK tok \in delivered : tok = req[r].tok
        BY <4>1 DEF Informed
      <4>3. g = col[tok].family /\ Holds(r, tok)
        BY <3>2, <4>1, <4>2 DEF FamilyFor, Informed, Holds, HoldingPC
      <4> QED BY <4>2, <4>3 DEF Alive
    <3> QED BY <3>1, <3>2
  <2>5. \A t \in delivered : col'[t] = col[t] /\ (Active(t)' => Active(t))
    BY <1>1, <2>1 DEF Insert, Active, TypeOK, TableOK
  <2>6. \A p \in Request, t \in Token : Holds(p, t)' => Holds(p, t)
    BY <1>1, <1>5, AnswerHolds DEF IssueSucceeds
  <2> QED BY <1>1, <2>1, <2>3, <2>4, <2>5, <2>6 DEF Alive, Usable
<1>6. CASE UNCHANGED vars \/ Tick
  <2>1. UNCHANGED tableVars /\ UNCHANGED req
    BY <1>6 DEF vars, Tick
  <2> QED BY <1>1, <1>2, <2>1, QuietOwns DEF NoNewHolder, Holds
<1>7. CASE Directory
  BY <1>2, <1>7, DirectoryStep
<1>8. CASE \E r \in Request : Arrive(r) \/ Step(r) \/ Abort(r)
  BY <1>2, <1>3, <1>4, <1>5, <1>8, QuietStep DEF Step
<1> QED BY <1>6, <1>7, <1>8 DEF Next

\* A family that has neither a usable token nor a rotation in flight is over: no
\* recovery, late insert or cascade brings it back, whatever fails.
THEOREM ExhaustedForGood == Spec => ExhaustedIsFinal
<1>1. Local /\ [Next]_vars => [\A f \in UsedFamily : ~Alive(f) => ~Alive(f)']_vars
  BY OverStays
<1> QED BY <1>1, GrantedHolds, PTL DEF Spec, ExhaustedIsFinal
=============================================================================
