------------------------ MODULE AdministrationProofs ------------------------
(***************************************************************************)
(* Theorems about Administration, for every number of users and of         *)
(* handlers that run at the same time.                                     *)
(***************************************************************************)
EXTENDS Administration, TLAPS

---------------------------------------------------------------------------
(* What a handler may have left to execute.                                *)

Program == {<<>>, <<"issue", "session">>, <<"session">>, <<"load", "issue">>, <<"issue">>,
            <<"tokens", "bff">>, <<"tokens">>, <<"bff">>, <<"role">>, <<"ban">>,
            <<"tokens", "bff", "row">>, <<"bff", "row">>, <<"row">>}

LEMMA Programs ==
  ASSUME NEW p \in Program, p # <<>>
  PROVE  /\ Head(p) = "load" => p = <<"load", "issue">>
         /\ Head(p) = "issue" => p \in {<<"issue", "session">>, <<"issue">>}
         /\ Head(p) = "session" => p = <<"session">>
         /\ Head(p) = "tokens" => p \in {<<"tokens", "bff", "row">>, <<"tokens", "bff">>, <<"tokens">>}
         /\ Head(p) = "bff" => p \in {<<"bff", "row">>, <<"bff">>}
         /\ Head(p) = "row" => p = <<"row">>
         /\ Head(p) = "role" => p = <<"role">>
         /\ Head(p) = "ban" => p = <<"ban">>
BY DEF Program

LEMMA Lengths ==
  /\ Len(<<"issue", "session">>) = 2 /\ Tail(<<"issue", "session">>) = <<"session">>
  /\ Len(<<"load", "issue">>) = 2 /\ Tail(<<"load", "issue">>) = <<"issue">>
  /\ Len(<<"tokens", "bff">>) = 2 /\ Tail(<<"tokens", "bff">>) = <<"bff">>
  /\ Len(<<"tokens", "bff", "row">>) = 3 /\ Tail(<<"tokens", "bff", "row">>) = <<"bff", "row">>
  /\ Len(<<"bff", "row">>) = 2 /\ Tail(<<"bff", "row">>) = <<"row">> /\ Len(<<"row">>) = 1
  /\ Len(<<"session">>) = 1 /\ Len(<<"issue">>) = 1 /\ Len(<<"tokens">>) = 1
  /\ Len(<<"bff">>) = 1 /\ Len(<<"role">>) = 1 /\ Len(<<"ban">>) = 1
OBVIOUS

\* What is left to do tells the programs apart.
LEMMA Distinct ==
  /\ \A p \in Unwatched :
       p \notin {<<"issue", "session">>, <<"session">>, <<"issue">>, <<"bff">>, <<"tokens">>}
  /\ \A p \in Unwatched \ {<<>>} : p # <<>>
  /\ \A p \in {Deletion, <<"bff", "row">>, <<"row">>} : p \notin {<<"role">>, <<"ban">>}
  /\ <<"bff">> \notin {<<"issue", "session">>, <<"session">>, <<"issue">>, <<"tokens">>}
  /\ \A p \in {<<"session">>, <<"issue">>, <<"bff">>} :
       p \notin {<<>>, <<"role">>, <<"ban">>, <<"tokens">>}
  /\ <<"tokens">> \notin {<<"issue", "session">>, <<"session">>, <<"issue">>, <<"bff">>,
                            <<"role">>, <<"ban">>}
  /\ \A p \in {<<"issue", "session">>, <<"session">>, <<"issue">>, <<"load", "issue">>,
                  <<"tokens", "bff">>} :
       p \notin {<<>>, <<"role">>, <<"ban">>, <<"bff">>, <<"tokens">>}
  /\ \A p \in {<<"load", "issue">>, <<"tokens", "bff">>, <<"tokens">>} :
       p \notin {<<"issue", "session">>, <<"session">>, <<"issue">>}
BY DEF Unwatched, Deletion

---------------------------------------------------------------------------
(* The invariant.                                                          *)

Handler == [do : Program, door : {"rest", "mcp"}, by : User, for : User, role : Role]

\* The tests that were made when the request was admitted.
HandlerOK(q) ==
  /\ q \in Handler
  /\ q.do \in {<<"role">>, <<"ban">>} /\ q.by = q.for => q.door = "mcp"
  /\ q.do = <<"tokens">> => q.door = "mcp"

\* What a handler has read, or done, is still so.
Sound(q) ==
  /\ q.do \in {<<"issue", "session">>, <<"session">>, <<"issue">>} =>
       q.role = role[q.for] /\ q.for \notin banned
  /\ q.do = <<"bff">> => q.for \notin refresh

RowsOK ==
  /\ role \in [User -> Role \cup {"none"}] /\ banned \subseteq User
  /\ refresh \subseteq User /\ bff \in [User -> Role \cup {"none"}]
  /\ power \subseteq User /\ disturbed \subseteq Request
SlotsOK == req \in [Request -> Handler] /\ \A r \in Request : HandlerOK(req[r])
Inv == RowsOK /\ SlotsOK /\ \A r \in Request \ disturbed : Sound(req[r])

LEMMA InvImpliesType == Inv => TypeOK
<1>. SUFFICES ASSUME Inv PROVE TypeOK
  OBVIOUS
<1>1. \A p \in Program : \A i \in 1..Len(p) : p[i] \in Statement
  BY DEF Program, Statement
<1>. QED
  BY <1>1 DEF Inv, RowsOK, SlotsOK, Handler, TypeOK

LEMMA IdleOK == HandlerOK(Idle) /\ Sound(Idle) /\ Sound(Idle)' /\ Idle.do = <<>>
BY BootAssumption, Distinct DEF Idle, HandlerOK, Handler, Program, Role, Sound

LEMMA InitInv == Init => Inv
<1>. SUFFICES ASSUME Init PROVE Inv
  OBVIOUS
<1>1. RowsOK
  BY DEF Init, RowsOK, Role
<1>2. SlotsOK /\ \A r \in Request : Sound(req[r])
  BY IdleOK DEF Init, SlotsOK, HandlerOK
<1>. QED
  BY <1>1, <1>2 DEF Inv

\* A handler that did not move in a step stays sound unless it comes to be disturbed:
\* that is what Observe records.
LEMMA Observed ==
  ASSUME Inv, Observe, NEW r \in Request, r \notin disturbed',
         req'[r] # req[r] /\ r \notin disturbed => Sound(req[r])'
  PROVE  Sound(req[r])'
<1>1. CASE req'[r].do \in Unwatched
  BY <1>1, Distinct DEF Sound
<1>2. CASE req'[r].do \notin Unwatched /\ req'[r] = req[r]
  <2>1. r \notin disturbed /\ Of(req[r].for)' = Of(req[r].for)
    BY <1>2 DEF Observe
  <2>2. /\ role'[req[r].for] = role[req[r].for]
        /\ req[r].for \in banned' <=> req[r].for \in banned
        /\ req[r].for \in refresh' <=> req[r].for \in refresh
    BY <1>2, <2>1 DEF Of
  <2>3. Sound(req[r])
    BY <2>1 DEF Inv
  <2>. QED
    BY <1>2, <2>2, <2>3 DEF Sound
<1>3. CASE req'[r].do \notin Unwatched /\ req'[r] # req[r]
  BY <1>3 DEF Observe
<1>. QED
  BY <1>1, <1>2, <1>3

\* The slot of one handler changes, or none.
LEMMA SlotStep ==
  ASSUME Inv, Observe, RowsOK', NEW r \in Request, NEW q, HandlerOK(q),
         req' = [req EXCEPT ![r] = q], r \notin disturbed => Sound(q)'
  PROVE  Inv'
<1>1. SlotsOK'
  BY DEF Inv, SlotsOK, HandlerOK
<1>2. \A p \in Request : req'[p] = IF p = r THEN q ELSE req[p]
  BY DEF Inv, SlotsOK
<1>3. ASSUME NEW p \in Request, p \notin disturbed'
      PROVE  Sound(req[p])'
  <2>1. req'[p] # req[p] /\ p \notin disturbed => Sound(req[p])'
    BY <1>2 DEF Sound
  <2>. QED
    BY <1>3, <2>1, Observed
<1>. QED
  BY <1>1, <1>3 DEF Inv

LEMMA SlotsQuiet ==
  ASSUME Inv, Observe, RowsOK', UNCHANGED req
  PROVE  Inv'
<1>1. SlotsOK'
  BY DEF Inv, SlotsOK, HandlerOK
<1>2. ASSUME NEW p \in Request, p \notin disturbed'
      PROVE  Sound(req[p])'
  BY <1>2, Observed
<1>. QED
  BY <1>1, <1>2 DEF Inv

LEMMA DisturbedOK == ASSUME Observe PROVE disturbed' \subseteq Request
BY DEF Observe

---------------------------------------------------------------------------
(* One step per operation.                                                 *)

LEMMA AnswerStep ==
  ASSUME Inv, Observe, RowsOK', NEW r \in Request, Answer(r)
  PROVE  Inv'
BY IdleOK, SlotStep DEF Answer

LEMMA BeginStep ==
  ASSUME Inv, Observe, RowsOK', NEW r \in Request, NEW do \in Program, NEW door \in {"rest", "mcp"},
         NEW by \in User, NEW for \in User, NEW new \in Role, Begin(r, do, door, by, for, new),
         do \in {<<"role">>, <<"ban">>} /\ by = for => door = "mcp",
         do = <<"tokens">> => door = "mcp",
         do = <<"issue", "session">> => new = role'[for] /\ for \notin banned',
         do \notin {<<"session">>, <<"issue">>, <<"bff">>}
  PROVE  Inv'
<1>1. PICK q : q = [Idle EXCEPT !.do = do, !.door = door, !.by = by, !.for = for, !.role = new]
  OBVIOUS
<1>2. q = [do |-> do, door |-> door, by |-> by, for |-> for, role |-> new]
  BY <1>1 DEF Idle
<1>3. HandlerOK(q)
  BY <1>2 DEF HandlerOK, Handler
<1>4. Sound(q)'
  BY <1>2 DEF Sound
<1>5. req' = [req EXCEPT ![r] = q]
  BY <1>1 DEF Begin
<1>. QED
  BY <1>3, <1>4, <1>5, SlotStep

LEMMA BeginDeletion ==
  ASSUME Inv, Observe, RowsOK', NEW r \in Request, NEW by \in User, NEW for \in User,
         Begin(r, Deletion, "rest", by, for, "user")
  PROVE  Inv'
<1>1. Deletion \in Unwatched /\ Deletion \in Program /\ Deletion \notin {<<"role">>, <<"ban">>}
  BY Distinct DEF Unwatched, Deletion, Program
<1>2. Deletion \notin {<<"issue", "session">>, <<"session">>, <<"issue">>, <<"bff">>, <<"tokens">>}
  BY <1>1, Distinct
<1>3. "user" \in Role /\ "rest" \in {"rest", "mcp"}
  BY DEF Role
<1>. QED
  BY <1>1, <1>2, <1>3, BeginStep

\* What is known of the handler in a slot.
LEMMA SlotFacts ==
  ASSUME Inv, NEW r \in Request
  PROVE  /\ req[r] \in Handler /\ HandlerOK(req[r])
         /\ req[r].for \in User /\ req[r].role \in Role /\ req[r].do \in Program
         /\ r \notin disturbed => Sound(req[r])
BY DEF Inv, SlotsOK, HandlerOK, Handler

LEMMA OwnInv ==
  ASSUME Inv, Observe, NEW r \in Request, Own(r)
  PROVE  Inv'
<1>1. ASSUME NEW u \in User, Login(r, u)
      PROVE  Inv'
  <2>1. RowsOK' /\ role[u] \in Role /\ UNCHANGED <<role, banned>>
    BY <1>1, DisturbedOK DEF Login, Inv, RowsOK, Known, rows, sessions
  <2>2. <<"issue", "session">> \in Program /\ "rest" \in {"rest", "mcp"} /\ Boot \in User
    BY BootAssumption DEF Program
  <2>3. Begin(r, <<"issue", "session">>, "rest", Boot, u, role[u]) /\ u \notin banned
    BY <1>1 DEF Login, BeginOwn
  <2>. QED
    BY <2>1, <2>2, <2>3, BeginStep, Distinct
<1>2. ASSUME NEW u \in User, Refresh(r, u)
      PROVE  Inv'
  <2>1. RowsOK' /\ "user" \in Role
    BY <1>2, DisturbedOK DEF Refresh, Inv, RowsOK, rows, Role
  <2>2. <<"load", "issue">> \in Program /\ "rest" \in {"rest", "mcp"} /\ Boot \in User
    BY BootAssumption DEF Program
  <2>3. Begin(r, <<"load", "issue">>, "rest", Boot, u, "user")
    BY <1>2 DEF Refresh, BeginOwn
  <2>. QED
    BY <2>1, <2>2, <2>3, BeginStep, Distinct
<1>3. ASSUME NEW u \in User, LogoutEverywhere(r, u)
      PROVE  Inv'
  <2>1. RowsOK' /\ "user" \in Role
    BY <1>3, DisturbedOK DEF LogoutEverywhere, Inv, RowsOK, rows, sessions, Role
  <2>2. <<"tokens", "bff">> \in Program /\ "rest" \in {"rest", "mcp"} /\ Boot \in User
    BY BootAssumption DEF Program
  <2>3. Begin(r, <<"tokens", "bff">>, "rest", Boot, u, "user")
    BY <1>3 DEF LogoutEverywhere, BeginOwn, Everywhere
  <2>. QED
    BY <2>1, <2>2, <2>3, BeginStep, Distinct
<1>4. ASSUME NEW u \in User, DeleteOwnAccount(r, u)
      PROVE  Inv'
  <2>1. RowsOK' /\ "user" \in Role
    BY <1>4, DisturbedOK DEF DeleteOwnAccount, Inv, RowsOK, rows, sessions, Role
  <2>2. Deletion \in Program /\ "rest" \in {"rest", "mcp"}
    BY DEF Program, Deletion
  <2>3. Begin(r, Deletion, "rest", u, u, "user")
    BY <1>4 DEF DeleteOwnAccount
  <2>. QED
    BY <2>1, <2>2, <2>3, BeginDeletion
<1>. QED
  BY <1>1, <1>2, <1>3, <1>4 DEF Own

LEMMA UnbanInv ==
  ASSUME Inv, Observe, NEW by \in User, NEW for \in User, UnbanUser(by, for)
  PROVE  Inv'
<1>1. RowsOK' /\ UNCHANGED req
  BY DisturbedOK DEF UnbanUser, Inv, RowsOK, sessions
<1>. QED
  BY <1>1, SlotsQuiet

LEMMA AdminInv ==
  ASSUME Inv, Observe, NEW r \in Request, Admin(r)
  PROVE  Inv'
<1>1. ASSUME NEW door \in {"rest", "mcp"}, NEW by \in User, NEW for \in User, NEW new \in Role,
             \/ ChangeRole(r, door, by, for, new)
             \/ BanUser(r, door, by, for)
      PROVE  Inv'
  <2>1. RowsOK' /\ "user" \in Role
    BY <1>1, DisturbedOK DEF ChangeRole, BanUser, Inv, RowsOK, rows, sessions, Role
  <2>2. <<"role">> \in Program /\ <<"ban">> \in Program
    BY DEF Program
  <2>3. PICK d \in {"rest", "mcp"} : d = IF by = for THEN door ELSE "rest"
    OBVIOUS
  <2>4. by = for => d = "mcp"
    BY <1>1, <2>3 DEF ChangeRole, BanUser, NotOneself
  <2>5. Begin(r, <<"role">>, d, by, for, new) \/ Begin(r, <<"ban">>, d, by, for, "user")
    BY <1>1, <2>3 DEF ChangeRole, BanUser
  <2>. QED
    BY <2>1, <2>2, <2>4, <2>5, BeginStep, Distinct
<1>2. ASSUME NEW door \in {"rest", "mcp"}, NEW by \in User, NEW for \in User,
             EndSessions(r, door, by, for)
      PROVE  Inv'
  <2>1. RowsOK' /\ "user" \in Role /\ Boot \in User
    BY <1>2, BootAssumption, DisturbedOK DEF EndSessions, Inv, RowsOK, rows, sessions, Role
  <2>2. PICK do \in {<<"tokens">>, <<"tokens", "bff">>} :
          do = Everywhere(door) /\ (do = <<"tokens">> => door = "mcp")
    BY Distinct DEF Everywhere
  <2>3. do \in Program /\ Begin(r, do, door, Boot, for, "user")
    BY <1>2, <2>2 DEF EndSessions, Program
  <2>. QED
    BY <2>1, <2>2, <2>3, BeginStep, Distinct
<1>3. ASSUME NEW door \in {"rest", "mcp"}, NEW by \in User, NEW for \in User,
             DeleteUser(r, door, by, for)
      PROVE  Inv'
  <2>1. RowsOK'
    BY <1>3, DisturbedOK DEF DeleteUser, Inv, RowsOK, rows, sessions
  <2>. QED
    BY <1>3, <2>1, BeginDeletion DEF DeleteUser
<1>4. "user" \in Role
  BY DEF Role
<1>. QED
  BY <1>1, <1>2, <1>3, <1>4 DEF Admin

\* A statement that is the last one ends the handler.
LEMMA DoneStep ==
  ASSUME Inv, Observe, RowsOK', NEW r \in Request, Done(r),
         req[r].do \in {<<"session">>, <<"issue">>, <<"tokens">>, <<"bff">>, <<"role">>, <<"ban">>,
                        <<"row">>}
  PROVE  Inv'
BY Lengths, AnswerStep DEF Done

\* After one that is not, the handler stays in its slot with the rest to execute.
LEMMA TailStep ==
  ASSUME Inv, Observe, RowsOK', NEW r \in Request,
         NEW do \in {<<"session">>, <<"issue">>, <<"bff">>, <<"bff", "row">>, <<"row">>},
         NEW new \in Role, req' = [req EXCEPT ![r] = [@ EXCEPT !.do = do, !.role = new]],
         do \in {<<"session">>, <<"issue">>} /\ r \notin disturbed => new = role'[req[r].for] /\ req[r].for \notin banned',
         do = <<"bff">> => req[r].for \notin refresh'
  PROVE  Inv'
<1>1. req[r] \in Handler
  BY SlotFacts
<1>2. PICK q : q = [req[r] EXCEPT !.do = do, !.role = new]
  OBVIOUS
<1>3. do \in Program
  BY DEF Program
<1>4. /\ q \in Handler /\ q.do = do /\ q.role = new
      /\ q.for = req[r].for /\ q.by = req[r].by /\ q.door = req[r].door
  BY <1>1, <1>2, <1>3 DEF Handler
<1>5. do \notin {<<"role">>, <<"ban">>, <<"tokens">>} /\ do # <<"issue", "session">>
  BY Distinct DEF Unwatched, Deletion
<1>6. HandlerOK(q)
  BY <1>4, <1>5 DEF HandlerOK
<1>7. r \notin disturbed => Sound(q)'
  BY <1>4, Distinct DEF Sound
<1>8. req' = [req EXCEPT ![r] = q]
  BY <1>2
<1>. QED
  BY <1>6, <1>7, <1>8, SlotStep

LEMMA IssueInv ==
  ASSUME Inv, Observe, NEW r \in Request, Issue(r)
  PROVE  Inv'
<1>0. req[r].do \in {<<"issue", "session">>, <<"issue">>}
  BY SlotFacts, Programs DEF Issue, At, Free
<1>1. RowsOK' /\ UNCHANGED <<role, banned>>
  BY SlotFacts, DisturbedOK DEF Issue, Inv, RowsOK, rows, Empower
<1>2. CASE req[r].do = <<"issue">>
  BY <1>1, <1>2, DoneStep DEF Issue
<1>3. CASE req[r].do = <<"issue", "session">>
  <2>1. req' = [req EXCEPT ![r].do = <<"session">>]
    BY <1>3, Lengths DEF Issue, Done
  <2>2. req' = [req EXCEPT ![r] = [@ EXCEPT !.do = <<"session">>, !.role = req[r].role]]
    BY <2>1, SlotFacts DEF Handler
  <2>3. r \notin disturbed => req[r].role = role'[req[r].for] /\ req[r].for \notin banned'
    BY <1>1, <1>3, SlotFacts DEF Sound
  <2>. QED
    BY <1>1, <2>2, <2>3, SlotFacts, TailStep, Distinct
<1>. QED
  BY <1>0, <1>2, <1>3

LEMMA LoadUserInv ==
  ASSUME Inv, Observe, NEW r \in Request, LoadUser(r)
  PROVE  Inv'
<1>0. req[r].do = <<"load", "issue">> /\ req[r].for \in User
  BY SlotFacts, Programs DEF LoadUser, At, Free
<1>1. RowsOK' /\ UNCHANGED <<role, banned>>
  BY <1>0, DisturbedOK DEF LoadUser, Inv, RowsOK, rows, sessions
<1>2. CASE Answer(r)
  BY <1>1, <1>2, AnswerStep
<1>3. CASE req[r].for \in Known \ banned
  <2>0. role[req[r].for] \in Role
    BY <1>0, <1>3 DEF Known, Inv, RowsOK
  <2>1. req' = [req EXCEPT ![r].do = <<"issue">>, ![r].role = role[req[r].for]]
    BY <1>0, <1>3, Lengths DEF LoadUser, RoleFor
  <2>2. req' = [req EXCEPT ![r] = [@ EXCEPT !.do = <<"issue">>, !.role = role[req[r].for]]]
    BY <2>1, SlotFacts DEF Handler, Inv, SlotsOK
  <2>. QED
    BY <1>1, <1>3, <2>0, <2>2, TailStep, Distinct
<1>. QED
  BY <1>2, <1>3 DEF LoadUser

LEMMA RevokeTokensInv ==
  ASSUME Inv, Observe, NEW r \in Request, RevokeTokens(r)
  PROVE  Inv'
<1>0. req[r].do \in {<<"tokens", "bff", "row">>, <<"tokens", "bff">>, <<"tokens">>}
  BY SlotFacts, Programs DEF RevokeTokens, At, Free
<1>1. RowsOK' /\ req[r].for \notin refresh'
  BY DisturbedOK DEF RevokeTokens, Inv, RowsOK, rows
<1>2. CASE req[r].do = <<"tokens">>
  BY <1>1, <1>2, DoneStep DEF RevokeTokens
<1>3. ASSUME NEW do \in {<<"bff">>, <<"bff", "row">>}, req' = [req EXCEPT ![r].do = do]
      PROVE  Inv'
  <2>1. req' = [req EXCEPT ![r] = [@ EXCEPT !.do = do, !.role = req[r].role]]
    BY <1>3, SlotFacts DEF Handler
  <2>2. do \notin {<<"session">>, <<"issue">>}
    BY Distinct DEF Unwatched
  <2>. QED
    BY <1>1, <2>1, <2>2, SlotFacts, TailStep
<1>4. CASE req[r].do = <<"tokens", "bff">>
  BY <1>3, <1>4, Lengths DEF RevokeTokens, Done
<1>5. CASE req[r].do = <<"tokens", "bff", "row">>
  BY <1>3, <1>5, Lengths DEF RevokeTokens, Done
<1>. QED
  BY <1>0, <1>2, <1>4, <1>5

LEMMA RevokeBffInv ==
  ASSUME Inv, Observe, NEW r \in Request, RevokeBff(r)
  PROVE  Inv'
<1>0. req[r].do \in {<<"bff", "row">>, <<"bff">>}
  BY SlotFacts, Programs DEF RevokeBff, At, Free
<1>1. RowsOK'
  BY DisturbedOK DEF RevokeBff, Inv, RowsOK, rows
<1>2. CASE req[r].do = <<"bff">>
  BY <1>1, <1>2, DoneStep DEF RevokeBff
<1>3. CASE req[r].do = <<"bff", "row">>
  <2>1. req' = [req EXCEPT ![r].do = <<"row">>]
    BY <1>3, Lengths DEF RevokeBff, Done
  <2>2. req' = [req EXCEPT ![r] = [@ EXCEPT !.do = <<"row">>, !.role = req[r].role]]
    BY <2>1, SlotFacts DEF Handler
  <2>3. <<"row">> \notin {<<"session">>, <<"issue">>, <<"bff">>}
    BY Distinct DEF Unwatched
  <2>. QED
    BY <1>1, <2>2, <2>3, SlotFacts, TailStep
<1>. QED
  BY <1>0, <1>2, <1>3

LEMMA ExecuteInv ==
  ASSUME Inv, Observe, NEW r \in Request, Execute(r)
  PROVE  Inv'
<1>1. CASE CreateSession(r)
  <2>1. req[r].do = <<"session">>
    BY <1>1, SlotFacts, Programs DEF CreateSession, At, Free
  <2>2. RowsOK'
    BY <1>1, SlotFacts, DisturbedOK DEF CreateSession, Inv, RowsOK, rows, Empower
  <2>. QED
    BY <1>1, <2>1, <2>2, DoneStep DEF CreateSession
<1>2. CASE DeleteRow(r)
  <2>1. req[r].do = <<"row">> /\ Done(r)
    BY <1>2, SlotFacts, Programs DEF DeleteRow, At, Free
  <2>2. RowsOK'
    BY <1>2, DisturbedOK DEF DeleteRow, Swept, Inv, RowsOK
  <2>. QED
    BY <2>1, <2>2, DoneStep
<1>3. CASE RoleBatch(r) \/ BanBatch(r)
  <2>1. req[r].do \in {<<"role">>, <<"ban">>} /\ Done(r)
    BY <1>3, SlotFacts, Programs DEF RoleBatch, BanBatch, At, Free
  <2>2. RowsOK'
    BY <1>3, SlotFacts, DisturbedOK DEF RoleBatch, BanBatch, Swept, Inv, RowsOK
  <2>. QED
    BY <2>1, <2>2, DoneStep
<1>. QED
  BY <1>1, <1>2, <1>3, LoadUserInv, IssueInv, RevokeTokensInv, RevokeBffInv DEF Execute

LEMMA NextInv == Inv /\ [Next]_vars => Inv'
<1>. SUFFICES ASSUME Inv, [Next]_vars PROVE Inv'
  OBVIOUS
<1>1. ASSUME Observe,
             \/ Bootstrap
             \/ \E u \in User : Register(u) \/ Expire(u) \/ RevokeOneBff(u) \/ RevokeOneToken(u)
      PROVE  Inv'
  <2>1. RowsOK' /\ UNCHANGED req
    BY <1>1, DisturbedOK DEF Bootstrap, Register, Expire, RevokeOneBff, RevokeOneToken, Inv, RowsOK,
                             rows, sessions, Role
  <2>. QED
    BY <1>1, <2>1, SlotsQuiet
<1>2. ASSUME Observe, NEW r \in Request, Abort(r)
      PROVE  Inv'
  <2>1. RowsOK'
    BY <1>2, DisturbedOK DEF Abort, Inv, RowsOK, rows, sessions
  <2>. QED
    BY <1>2, <2>1, AnswerStep DEF Abort
<1>3. CASE UNCHANGED vars
  BY <1>3 DEF vars, rows, sessions, Inv, RowsOK, SlotsOK, HandlerOK, Sound
<1>. QED
  BY <1>1, <1>2, <1>3, AdminInv, UnbanInv, OwnInv, ExecuteInv DEF Next, Step

LEMMA InvHolds == Spec => []Inv
BY InitInv, NextInv, PTL DEF Spec

\* Every reachable state of roles, suspensions, sessions and handlers is type correct.
THEOREM TypeCorrect == Spec => []TypeOK
BY InvHolds, InvImpliesType, PTL

---------------------------------------------------------------------------
(* Properties.                                                             *)

\* A logout everywhere and a forced one come to their last statement with nothing
\* left but what it takes, unless a session began or the user changed while they
\* ran: that nothing did is what undisturbed handlers know.
THEOREM LogoutIsComplete == Spec => []LogoutReachesAll
<1>1. Inv => LogoutReachesAll
  <2>. SUFFICES ASSUME Inv, NEW r \in Request \ disturbed, Last(r)
                PROVE  Held(req[r].for) \subseteq Taken(r)
    BY DEF LogoutReachesAll
  <2>1. CASE At(r, "bff")
    <3>1. req[r].do = <<"bff">> /\ Head(req[r].do) = "bff"
      BY <2>1, SlotFacts, Programs, Lengths DEF At, Free, Last
    <3>2. req[r].for \notin refresh
      BY <3>1, SlotFacts DEF Sound
    <3>. QED
      BY <3>1, <3>2 DEF Held, Taken
  <2>2. CASE At(r, "tokens")
    <3>1. req[r].do = <<"tokens">> /\ Head(req[r].do) = "tokens"
      BY <2>2, SlotFacts, Programs, Lengths DEF At, Free, Last
    <3>2. req[r].door = "mcp"
      BY <3>1, SlotFacts DEF HandlerOK
    <3>. QED
      BY <3>1, <3>2 DEF Held, Taken
  <2>. QED
    BY <2>1, <2>2 DEF Last
<1>. QED
  BY <1>1, InvHolds, PTL

\* The steps that give a user tokens or a session.
Begins(r) == Issue(r) \/ CreateSession(r)

LEMMA Beginning ==
  ASSUME Inv, NEW r \in Request, Begins(r)
  PROVE  /\ req'[r] # req[r] /\ UNCHANGED rows
         /\ r \notin disturbed => req[r].role = role[req[r].for] /\ req[r].for \notin banned
<1>1. req[r].do \in {<<"issue", "session">>, <<"issue">>, <<"session">>}
  BY SlotFacts, Programs DEF Begins, Issue, CreateSession, At, Free
<1>2. req'[r].do # req[r].do
  <2>1. req \in [Request -> Handler] /\ Done(r)
    BY DEF Begins, Issue, CreateSession, Inv, SlotsOK
  <2>2. CASE req[r].do \in {<<"issue">>, <<"session">>}
    BY <2>1, <2>2, Lengths, IdleOK DEF Done, Answer
  <2>3. CASE req[r].do = <<"issue", "session">>
    <3>1. req'[r].do = <<"session">>
      BY <2>1, <2>3, Lengths DEF Done, Handler
    <3>. QED
      BY <2>3, <3>1, Lengths
  <2>. QED
    BY <1>1, <2>2, <2>3
<1>3. r \notin disturbed => req[r].role = role[req[r].for] /\ req[r].for \notin banned
  BY <1>1, SlotFacts DEF Sound
<1>. QED
  BY <1>2, <1>3 DEF Begins, Issue, CreateSession

\* Nothing else brings a session, a refresh token or an access token about.
LEMMA OnlyBegins ==
  ASSUME Inv, Step, NEW u \in User,
         \/ u \in power' \ power
         \/ u \in refresh' \ refresh
         \/ bff'[u] # "none" /\ bff'[u] # bff[u]
  PROVE  \E r \in Request : /\ Begins(r) /\ req[r].for = u
                            /\ u \in power' \ power => req[r].role = "admin"
                            /\ bff'[u] # bff[u] => req[r].role = bff'[u]
<1>1. \E r \in Request : Begins(r)
  <2>1. ASSUME NEW r \in Request, Admin(r) \/ Own(r) \/ Abort(r)
        PROVE  UNCHANGED <<bff, power>> /\ refresh' \subseteq refresh
    BY <2>1 DEF Admin, Own, Abort, ChangeRole, BanUser, EndSessions, DeleteUser,
                Login, Refresh, LogoutEverywhere, DeleteOwnAccount, sessions
  <2>2. ASSUME NEW r \in Request, Execute(r), ~Begins(r)
        PROVE  power' \subseteq power /\ refresh' \subseteq refresh
               /\ (bff'[u] = bff[u] \/ bff'[u] = "none")
    BY <2>2 DEF Execute, Begins, LoadUser, RevokeTokens, RevokeBff, RoleBatch, BanBatch, DeleteRow,
                Swept, sessions, Inv, RowsOK
  <2>3. ASSUME \/ Bootstrap
               \/ \E v \in User : Register(v) \/ Expire(v) \/ RevokeOneBff(v) \/ RevokeOneToken(v)
               \/ \E by, for \in User : UnbanUser(by, for)
        PROVE  power' \subseteq power /\ refresh' \subseteq refresh
               /\ (bff'[u] = bff[u] \/ bff'[u] = "none")
    BY <2>3 DEF Bootstrap, Register, Expire, RevokeOneBff, RevokeOneToken, UnbanUser, sessions, Inv,
                RowsOK
  <2>. QED
    BY <2>1, <2>2, <2>3 DEF Step
<1>2. PICK r \in Request : Begins(r)
  BY <1>1
<1>3. req[r].for = u
  BY <1>2, SlotFacts DEF Begins, Issue, CreateSession, Empower, Inv, RowsOK
<1>4. u \in power' \ power => req[r].role = "admin"
  BY <1>2 DEF Begins, Issue, CreateSession, Empower
<1>5. bff'[u] # bff[u] => bff'[u] = req[r].role
  BY <1>2, <1>3, SlotFacts DEF Begins, Issue, CreateSession, Inv, RowsOK
<1>. QED
  BY <1>2, <1>3, <1>4, <1>5

\* Who loses the role, or the account, loses the session, who is suspended all that is
\* theirs, in the same batch.
LEMMA BatchesSweep ==
  ASSUME Inv, Step, NEW u \in User
  PROVE  /\ role[u] = "admin" /\ role'[u] # "admin" => bff'[u] = "none"
         /\ u \in banned' \ banned => bff'[u] = "none" /\ u \notin refresh'
<1>1. ASSUME NEW r \in Request, RoleBatch(r) \/ BanBatch(r) \/ DeleteRow(r)
      PROVE  /\ role'[u] # role[u] => bff'[u] = "none"
             /\ u \in banned' \ banned => bff'[u] = "none" /\ u \notin refresh'
  BY <1>1, SlotFacts DEF RoleBatch, BanBatch, DeleteRow, Swept, Inv, RowsOK
<1>2. ASSUME NEW r \in Request, Admin(r) \/ Own(r) \/ Abort(r)
      PROVE  UNCHANGED role /\ banned' \subseteq banned
  BY <1>2 DEF Admin, Own, Abort, ChangeRole, BanUser, EndSessions, DeleteUser,
              Login, Refresh, LogoutEverywhere, DeleteOwnAccount, rows
<1>3. ASSUME NEW r \in Request, Execute(r), ~RoleBatch(r), ~BanBatch(r), ~DeleteRow(r)
      PROVE  UNCHANGED rows
  BY <1>3 DEF Execute, LoadUser, Issue, CreateSession, RevokeTokens, RevokeBff
<1>4. ASSUME \/ Bootstrap
             \/ \E v \in User : Register(v) \/ Expire(v) \/ RevokeOneBff(v) \/ RevokeOneToken(v)
             \/ \E by, for \in User : UnbanUser(by, for)
      PROVE  banned' \subseteq banned /\ (role[u] = "admin" => role'[u] = "admin")
  BY <1>4 DEF Bootstrap, Register, Known, Expire, RevokeOneBff, RevokeOneToken, UnbanUser, rows,
              Inv, RowsOK
<1>. QED
  BY <1>1, <1>2, <1>3, <1>4 DEF Step, rows

\* A token or a cookie comes to say admin of somebody who is not only through a
\* login or a refresh that read the row before the role was taken away.
THEOREM RoleComesFromTheRow == Spec => SessionRoleFromRow
<1>1. Inv /\ [Next]_vars => [ReadBeforeTaken]_vars
  <2>. SUFFICES ASSUME Inv, Next, NEW u \in User, role'[u] # "admin",
                       u \in power' \ power \/ (Misled(u)' /\ ~Misled(u))
                PROVE  \E r \in disturbed : /\ req'[r] # req[r] /\ req[r].for = u
                                            /\ req[r].role = "admin"
    BY DEF ReadBeforeTaken
  <2>1. Step
    BY DEF Next
  <2>2. u \in power' \ power \/ (bff'[u] = "admin" /\ bff'[u] # bff[u])
    BY <2>1, BatchesSweep DEF Misled
  <2>3. PICK r \in Request : Begins(r) /\ req[r].for = u /\ req[r].role = "admin"
    BY <2>1, <2>2, OnlyBegins
  <2>4. role[u] # "admin"
    BY <2>3, Beginning DEF rows
  <2>. QED
    BY <2>3, <2>4, Beginning
<1>. QED
  BY <1>1, InvHolds, PTL DEF Spec, SessionRoleFromRow

\* Somebody suspended has a session or tokens only through a request that was
\* admitted before.
THEOREM SuspensionHolds == Spec => SuspendedStaysOut
<1>1. Inv /\ [Next]_vars => [AdmittedBefore]_vars
  <2>. SUFFICES ASSUME Inv, Next, NEW u \in User, Inside(u)', ~Inside(u)
                PROVE  \E r \in disturbed : req'[r] # req[r] /\ req[r].for = u
    BY DEF AdmittedBefore
  <2>1. Step /\ u \in banned'
    BY DEF Next, Inside
  <2>2. u \in refresh' \/ bff'[u] # "none"
    BY DEF Inside, Held
  <2>3. u \in banned
    BY <2>1, <2>2, BatchesSweep
  <2>4. u \notin refresh /\ bff[u] = "none"
    BY <2>3 DEF Inside, Held
  <2>5. PICK r \in Request : Begins(r) /\ req[r].for = u
    BY <2>1, <2>2, <2>4, OnlyBegins
  <2>. QED
    BY <2>3, <2>5, Beginning
<1>. QED
  BY <1>1, InvHolds, PTL DEF Spec, SuspendedStaysOut

\* The last administrator that can act goes by deleting the own account, by its own
\* request over the MCP server, or by the request of somebody who is an administrator
\* that can act no more.
THEOREM AdministratorsRemain == Spec => KeepsAnAdmin
<1>1. Inv /\ [Next]_vars => [AdminLeavesForCause]_vars
  <2>. SUFFICES ASSUME Inv, Next, Active # {}, Active' = {}
                PROVE  \E r \in Request :
                         /\ req'[r] # req[r]
                         /\ \/ req[r].by \notin Active
                            \/ req[r].by = req[r].for /\ (req[r].door = "mcp" \/ At(r, "row"))
    BY DEF AdminLeavesForCause
  <2>1. PICK u \in User : u \in Active /\ u \notin Active'
    BY DEF Active
  <2>2. \E r \in Request : RoleBatch(r) \/ BanBatch(r) \/ DeleteRow(r)
    <3>1. ASSUME NEW r \in Request, Admin(r) \/ Own(r) \/ Abort(r)
          PROVE  UNCHANGED role /\ banned' \subseteq banned
      BY <3>1 DEF Admin, Own, Abort, ChangeRole, BanUser, EndSessions, DeleteUser,
                  Login, Refresh, LogoutEverywhere, DeleteOwnAccount, rows
    <3>2. ASSUME NEW r \in Request, Execute(r), ~RoleBatch(r), ~BanBatch(r), ~DeleteRow(r)
          PROVE  UNCHANGED rows
      BY <3>2 DEF Execute, LoadUser, Issue, CreateSession, RevokeTokens, RevokeBff
    <3>3. ASSUME \/ Bootstrap
                 \/ \E v \in User : Register(v) \/ Expire(v) \/ RevokeOneBff(v) \/ RevokeOneToken(v)
                 \/ \E by, for \in User : UnbanUser(by, for)
          PROVE  banned' \subseteq banned /\ (role[u] = "admin" => role'[u] = "admin")
      BY <3>3 DEF Bootstrap, Register, Known, Expire, RevokeOneBff, RevokeOneToken, UnbanUser,
                  rows, Inv, RowsOK
    <3>. QED
      BY <2>1, <3>1, <3>2, <3>3 DEF Next, Step, Active, rows
  <2>3. PICK r \in Request : RoleBatch(r) \/ BanBatch(r) \/ DeleteRow(r)
    BY <2>2
  <2>4. /\ req[r].do \in {<<"role">>, <<"ban">>, <<"row">>} /\ Done(r)
        /\ req[r].do = <<"row">> => At(r, "row")
    BY <2>3, SlotFacts, Programs, Distinct DEF RoleBatch, BanBatch, DeleteRow, At, Free
  <2>5. req'[r] # req[r]
    <3>1. req'[r].do = <<>>
      BY <2>4, Lengths, IdleOK DEF Done, Answer, Inv, SlotsOK
    <3>. QED
      BY <2>4, <3>1, Distinct DEF Unwatched
  <2>6. \A v \in User \ {req[r].for} : v \in Active => v \in Active'
    BY <2>3, SlotFacts DEF RoleBatch, BanBatch, DeleteRow, Active, Inv, RowsOK
  <2>7. req[r].by \in Active => req[r].by = req[r].for
    BY <2>6 DEF Active
  <2>8. req[r].by = req[r].for => req[r].door = "mcp" \/ At(r, "row")
    BY <2>4, SlotFacts DEF HandlerOK
  <2>. QED
    BY <2>5, <2>7, <2>8
<1>. QED
  BY <1>1, InvHolds, PTL DEF Spec, KeepsAnAdmin
=============================================================================
