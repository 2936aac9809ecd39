-------------------------- MODULE AuthCodesProofs --------------------------
(***************************************************************************)
(* Theorems about AuthCodes, for every number of codes, users, services,   *)
(* redirect URIs, registrations of the resource and parallel handlers, and *)
(* any clock.                                                              *)
(***************************************************************************)
EXTENDS AuthCodes, TLAPS

\* What the tests that a redemption has passed still say: the columns of its code
\* fit its request, and name the registration it looked up.
Matches(q) == q.pc \in HolderPC =>
  /\ q.user = owner[q.code]
  /\ redirect[q.code] = q.redirect /\ challenge[q.code] \in {NONE, q.verifier}
  /\ IF q.flag THEN generation[q.code] = NONE ELSE client[q.code] = q.client
  /\ q.pc = "auth" => q.flag
  /\ q.pc \in {"target", "issue"} => client[q.code] \in {NONE, q.client}
  /\ q.gen = IF q.pc = "issue" THEN generation[q.code] ELSE NONE

\* Who is still suspended since the request arrived has not passed LoadOwner.
Unbarred(q) ==
  /\ q.barred \subseteq banned
  /\ q.pc \in {"auth", "target", "issue", "session"} => owner[q.code] \notin q.barred

HandlerOK(q) == q \in Handler /\ Knows(q) /\ Matches(q) /\ Unbarred(q)

RowsOK ==
  /\ rows \subseteq created /\ created \subseteq Code /\ used \subseteq created
  /\ owner \in [Code -> User \cup {NONE}] /\ client \in [Code -> Service \cup {NONE}]
  /\ redirect \in [Code -> Redirect \cup {NONE}] /\ challenge \in [Code -> Verifier \cup {NONE}]
  /\ generation \in [Code -> Generation \cup {NONE}] /\ expiresAt \in [Code -> Nat]
  /\ \A c \in created : owner[c] \in User
RestOK ==
  /\ users \subseteq User /\ banned \subseteq User /\ services \subseteq Service
  /\ registered \in Generation \cup {NONE} /\ past \subseteq Generation
  /\ sessions \subseteq created /\ now \in Nat
  /\ pairs \in [Code -> Nat]
SlotsOK == req \in [Request -> Handler] /\ \A r \in Request : HandlerOK(req[r])

Inv == RowsOK /\ RestOK /\ SlotsOK

LEMMA InvImpliesType == Inv => TypeOK
BY DEF Inv, RowsOK, RestOK, SlotsOK, HandlerOK, TypeOK

LEMMA IdleOK == HandlerOK(Idle) /\ HandlerOK(Idle)' /\ Idle \in Handler /\ Idle.pc = "idle"
BY DEF Idle, Handler, PC, HolderPC, HandlerOK, Knows, Matches, Unbarred

LEMMA InitInv == Init => Inv
<1>. SUFFICES ASSUME Init PROVE Inv
  OBVIOUS
<1>1. RowsOK /\ RestOK
  BY ConstantsAssumption DEF Init, RowsOK, RestOK
<1>2. SlotsOK
  BY IdleOK DEF Init, SlotsOK
<1>. QED
  BY <1>1, <1>2 DEF Inv

---------------------------------------------------------------------------
(* No step changes the columns of a code that was created, and none takes  *)
(* a code out of created or used: what a handler knows of its code stays.  *)

Lasting ==
  /\ created \subseteq created' /\ used \subseteq used'
  /\ \A c \in created :
       /\ owner'[c] = owner[c] /\ client'[c] = client[c] /\ redirect'[c] = redirect[c]
       /\ challenge'[c] = challenge[c] /\ generation'[c] = generation[c]

LEMMA HandlerLasts ==
  ASSUME Lasting, NEW q, HandlerOK(q), q.barred \subseteq banned'
  PROVE  HandlerOK(q)'
<1>1. q \in Handler /\ Knows(q) /\ Matches(q) /\ Unbarred(q)
  BY DEF HandlerOK
<1>2. q.pc \in HolderPC \cup {"client", "consume", "session"} => q.code \in created
  BY <1>1 DEF Knows
<1>3. Knows(q)'
  BY <1>1, <1>2 DEF Lasting, Knows, HolderPC
<1>4. Matches(q)'
  BY <1>1, <1>2 DEF Lasting, Matches, HolderPC
<1>5. Unbarred(q)'
  BY <1>1, <1>2 DEF Lasting, Unbarred, HolderPC
<1>. QED
  BY <1>1, <1>3, <1>4, <1>5 DEF HandlerOK

\* The slot of one request changes, or none.
LEMMA SlotStep ==
  ASSUME SlotsOK, Lasting, banned \subseteq banned', NEW r \in Request, NEW q,
         HandlerOK(q)', req' = [req EXCEPT ![r] = q]
  PROVE  SlotsOK'
<1>1. q \in Handler
  BY DEF HandlerOK
<1>2. req' \in [Request -> Handler]
  BY <1>1 DEF SlotsOK
<1>3. ASSUME NEW p \in Request, p # r
      PROVE  HandlerOK(req[p])'
  <2>1. HandlerOK(req[p]) /\ req'[p] = req[p] /\ req[p].barred \subseteq banned
    BY <1>3 DEF SlotsOK, HandlerOK, Unbarred
  <2>2. HandlerOK(req[p])'
    <3>1. PICK h : h = req[p]
      OBVIOUS
    <3>2. HandlerOK(h)'
      BY <2>1, <3>1, HandlerLasts
    <3>. QED
      BY <2>1, <3>1, <3>2 DEF HandlerOK, Knows, Matches, Unbarred
  <2>. QED
    BY <2>2
<1>4. HandlerOK(req[r])'
  BY <1>2 DEF SlotsOK, HandlerOK, Knows, Matches, Unbarred
<1>. QED
  BY <1>2, <1>3, <1>4 DEF SlotsOK

LEMMA AnswerStep ==
  ASSUME SlotsOK, Lasting, banned \subseteq banned', NEW r \in Request, Answer(r)
  PROVE  SlotsOK'
BY IdleOK, SlotStep DEF Answer

LEMMA SlotsQuiet ==
  ASSUME SlotsOK, Lasting, banned \subseteq banned', UNCHANGED req
  PROVE  SlotsOK'
<1>1. ASSUME NEW p \in Request
      PROVE  HandlerOK(req[p])'
  <2>1. PICK h : h = req[p]
    OBVIOUS
  <2>2. HandlerOK(h) /\ h.barred \subseteq banned
    BY <2>1 DEF SlotsOK, HandlerOK, Unbarred
  <2>3. HandlerOK(h)'
    BY <2>2, HandlerLasts
  <2>. QED
    BY <2>1, <2>3 DEF HandlerOK, Knows, Matches, Unbarred
<1>. QED
  BY <1>1 DEF SlotsOK

\* What is known of the handler in a slot.
LEMMA SlotFacts ==
  ASSUME Inv, NEW r \in Request
  PROVE  /\ HandlerOK(req[r]) /\ req[r] \in Handler
         /\ req[r].pc \in HolderPC \cup {"client", "consume", "session"}
              => req[r].code \in created /\ req[r].code \in Code
BY DEF Inv, SlotsOK, RowsOK, HandlerOK, Knows

\* A step that reads the tables, or some of them, and moves on.
LEMMA Reads == ASSUME Inv, Unmoved PROVE RowsOK' /\ RestOK' /\ Lasting /\ banned \subseteq banned'
BY DEF Inv, RowsOK, RestOK, Unmoved, rowVars, columns, dirVars, Lasting

LEMMA DeleteRows ==
  ASSUME RowsOK, NEW codes, Delete(codes) PROVE RowsOK' /\ Lasting /\ UNCHANGED created
BY DEF RowsOK, Delete, columns, Lasting

LEMMA RowsQuiet ==
  ASSUME RowsOK, UNCHANGED rowVars PROVE RowsOK' /\ Lasting /\ UNCHANGED created
BY DEF RowsOK, rowVars, columns, Lasting

---------------------------------------------------------------------------
(* One step per statement.                                                 *)

LEMMA EnterStep ==
  ASSUME Inv, NEW r \in Request, NEW pc, NEW c, NEW u, NEW cl, NEW uri, NEW ver,
         NEW flag, NEW barred, Enter(r, pc, c, u, cl, uri, ver, flag, barred), Unmoved,
         \/ pc = "user" /\ c = NONE /\ u \in User /\ barred = {}
         \/ pc \in {"consume", "client"} /\ c \in created /\ u = NONE /\ barred = banned,
         cl \in Service \cup {NONE}, uri \in Redirect, ver \in Verifier \cup {NONE},
         flag \in BOOLEAN
  PROVE  Inv'
<1>1. RowsOK' /\ RestOK' /\ Lasting /\ UNCHANGED <<banned, created>>
  BY Reads DEF Unmoved, rowVars, dirVars
<1>2. PICK q : q = [pc |-> pc, code |-> c, user |-> u, client |-> cl, redirect |-> uri,
                    verifier |-> ver, gen |-> NONE, flag |-> flag, barred |-> barred]
  OBVIOUS
<1>3. q \in Handler
  BY <1>2 DEF Inv, RowsOK, RestOK, Handler, PC
<1>4. HandlerOK(q)'
  BY <1>1, <1>2, <1>3 DEF HandlerOK, Knows, Matches, Unbarred, HolderPC
<1>5. SlotsOK'
  BY <1>1, <1>2, <1>4, SlotStep DEF Enter, Inv
<1>. QED
  BY <1>1, <1>5 DEF Inv

\* The handler in r goes on to pc, with the user and the registration it then knows.
LEMMA GotoStep ==
  ASSUME Inv, NEW r \in Request, NEW pc \in PC, NEW u \in User \cup {NONE},
         NEW g \in Generation \cup {NONE}, Goto(r, pc, u, g), Lasting,
         banned \subseteq banned',
         NEW q, q = [req[r] EXCEPT !.pc = pc, !.user = u, !.gen = g],
         Knows(q)', Matches(q)', Unbarred(q)'
  PROVE  SlotsOK'
<1>1. req[r] \in Handler
  BY SlotFacts
<1>2. q \in Handler /\ req' = [req EXCEPT ![r] = q]
  BY <1>1 DEF Handler, Goto
<1>. QED
  BY <1>2, SlotStep DEF HandlerOK, Inv

LEMMA LoginInv ==
  ASSUME Inv, NEW r \in Request, Login(r)
  PROVE  Inv'
<1>0. req[r] \in Handler /\ HandlerOK(req[r])
  BY SlotFacts
<1>1. ASSUME NEW u \in User, NEW cl \in Service \cup {NONE}, NEW uri \in Redirect,
             NEW ver \in Verifier \cup {NONE}, NEW target \in BOOLEAN,
             BeginCallback(r, u, cl, uri, ver, target)
      PROVE  Inv'
  BY <1>1, EnterStep DEF BeginCallback
<1>2. CASE ResolveUser(r) \/ CheckRedirect(r) \/ FixGeneration(r)
  <2>1. RowsOK' /\ RestOK' /\ Lasting /\ banned \subseteq banned'
    BY <1>2, Reads DEF ResolveUser, CheckRedirect, FixGeneration
  <2>2. req[r].pc \in {"user", "redirect", "resource"}
    BY <1>2 DEF ResolveUser, CheckRedirect, FixGeneration, At
  <2>3. req[r].user \in User /\ req[r].barred \subseteq banned
    BY <1>0, <2>2 DEF HandlerOK, Knows, Unbarred
  <2>4. ASSUME NEW pc \in {"create", "redirect", "resource"},
               NEW g \in Generation \cup {NONE}, Goto(r, pc, req[r].user, g)
        PROVE  SlotsOK'
    <3>1. PICK q : q = [req[r] EXCEPT !.pc = pc, !.user = req[r].user, !.gen = g]
      OBVIOUS
    <3>2. q.pc = pc /\ q.user = req[r].user /\ q.barred = req[r].barred
      BY <1>0, <3>1 DEF Handler
    <3>3. Knows(q)' /\ Matches(q)' /\ Unbarred(q)'
      BY <2>1, <2>3, <3>2 DEF Knows, Matches, Unbarred, HolderPC
    <3>4. pc \in PC
      BY DEF PC
    <3>. QED
      BY <2>1, <2>3, <2>4, <3>1, <3>3, <3>4, GotoStep
  <2>5. registered \in Generation \cup {NONE} /\ req[r].gen \in Generation \cup {NONE}
    BY <1>0 DEF Inv, RestOK, Handler
  <2>6. \/ Answer(r)
        \/ \E pc \in {"create", "redirect", "resource"}, g \in Generation \cup {NONE} :
             Goto(r, pc, req[r].user, g)
    BY <1>2, <2>5 DEF ResolveUser, CheckRedirect, FixGeneration, Advance
  <2>7. SlotsOK'
    BY <2>1, <2>4, <2>6, AnswerStep DEF Inv
  <2>. QED
    BY <2>1, <2>7 DEF Inv
<1>3. ASSUME NEW c \in Code, CreateAuthCode(r, c)
      PROVE  Inv'
  <2>1. Lasting /\ UNCHANGED banned
    BY <1>3 DEF CreateAuthCode, Lasting, Inv, RowsOK, dirVars
  <2>2. RowsOK'
    BY <1>0, <1>3, ConstantsAssumption DEF CreateAuthCode, Inv, RowsOK, RestOK, Handler
  <2>3. RestOK'
    BY <1>3 DEF CreateAuthCode, Inv, RestOK, dirVars
  <2>4. SlotsOK'
    BY <1>3, <2>1, AnswerStep DEF CreateAuthCode, Inv
  <2>. QED
    BY <2>2, <2>3, <2>4 DEF Inv
<1>. QED
  BY <1>1, <1>2, <1>3 DEF Login

LEMMA ConsumeInv ==
  ASSUME Inv, NEW r \in Request, Consume(r)
  PROVE  Inv'
<1>. DEFINE c == req[r].code
<1>0. req[r] \in Handler /\ HandlerOK(req[r]) /\ c \in created /\ c \in Code
  BY SlotFacts DEF Consume, At
<1>1. RowsOK' /\ RestOK' /\ Lasting /\ UNCHANGED <<banned, columns, created>>
  BY <1>0 DEF Consume, Inv, RowsOK, RestOK, columns, dirVars, Lasting
<1>2. CASE Answer(r)
  BY <1>1, <1>2, AnswerStep DEF Inv
<1>3. CASE c \in used' /\ Fits(req[r], c) /\ Goto(r, "owner", owner[c], NONE)
  <2>1. PICK q : q = [req[r] EXCEPT !.pc = "owner", !.user = owner[c], !.gen = NONE]
    OBVIOUS
  <2>2. /\ q.pc = "owner" /\ q.user = owner[c] /\ q.gen = NONE /\ q.code = c
        /\ q.barred = req[r].barred /\ q.flag = req[r].flag /\ q.client = req[r].client
        /\ q.redirect = req[r].redirect /\ q.verifier = req[r].verifier
    BY <1>0, <2>1 DEF Handler
  <2>3. owner[c] \in User
    BY <1>0, <1>3 DEF Inv, RowsOK
  <2>4. Knows(q)'
    BY <1>0, <1>1, <1>3, <2>2, <2>3 DEF Knows, HolderPC
  <2>5. Matches(q)'
    BY <1>1, <1>3, <2>2 DEF Matches, HolderPC, Fits, ProvesPossession, columns
  <2>6. Unbarred(q)'
    BY <1>0, <1>1, <2>2 DEF Unbarred, HandlerOK
  <2>7. SlotsOK'
    BY <1>1, <1>3, <2>1, <2>3, <2>4, <2>5, <2>6, GotoStep DEF PC, HolderPC
  <2>. QED
    BY <1>1, <2>7 DEF Inv
<1>. QED
  BY <1>0, <1>2, <1>3 DEF Consume, Inv, RowsOK

LEMMA RedeemInv ==
  ASSUME Inv, NEW r \in Request, Redeem(r)
  PROVE  Inv'
<1>. DEFINE c == req[r].code
<1>0. req[r] \in Handler /\ HandlerOK(req[r])
  BY SlotFacts
<1>1. ASSUME NEW d \in Code, NEW uri \in Redirect, NEW ver \in Verifier \cup {NONE}
      PROVE  /\ \A cl \in (Service \ Public) \cup {NONE} : BeginExchange(r, d, cl, uri, ver) => Inv'
             /\ \A cl \in Service : BeginTokenRequest(r, d, cl, uri, ver) => Inv'
  BY EnterStep DEF BeginExchange, BeginTokenRequest
<1>2. CASE AuthenticateClient(r) \/ LoadOwner(r) \/ AuthenticateService(r) \/ LoadResource(r)
  <2>1. RowsOK' /\ RestOK' /\ Lasting /\ UNCHANGED <<banned, created, used, columns>>
    BY <1>2, Reads DEF AuthenticateClient, LoadOwner, AuthenticateService, LoadResource,
                       Unmoved, rowVars, dirVars
  <2>2. c \in created /\ c \in Code
    BY <1>2, SlotFacts DEF AuthenticateClient, LoadOwner, AuthenticateService, LoadResource,
                           At, HolderPC
  <2>3. CASE Answer(r)
    BY <2>1, <2>3, AnswerStep DEF Inv
  <2>4. ASSUME NEW pc \in {"consume", "auth", "target", "issue"},
               NEW g \in Generation \cup {NONE}, Goto(r, pc, req[r].user, g),
               \/ At(r, "client") /\ pc = "consume"
               \/ /\ At(r, "owner") /\ ~Suspended(req[r].user)
                  /\ pc = "auth" => req[r].flag
                  /\ pc \in {"target", "issue"} => client[c] \in {NONE, req[r].client}
                  /\ g = IF pc = "issue" THEN generation[c] ELSE NONE
               \/ /\ At(r, "auth") /\ pc = "issue" /\ g = generation[c]
                  /\ req[r].client = client[c]
               \/ At(r, "target") /\ pc = "issue" /\ g = generation[c]
        PROVE  Inv'
    <3>1. PICK q : q = [req[r] EXCEPT !.pc = pc, !.user = req[r].user, !.gen = g]
      OBVIOUS
    <3>2. /\ q.pc = pc /\ q.user = req[r].user /\ q.gen = g /\ q.code = c
          /\ q.barred = req[r].barred /\ q.flag = req[r].flag /\ q.client = req[r].client
          /\ q.redirect = req[r].redirect /\ q.verifier = req[r].verifier
      BY <1>0, <3>1 DEF Handler
    <3>3. Knows(q)'
      BY <1>0, <2>1, <2>4, <3>2 DEF HandlerOK, Knows, HolderPC, At
    <3>4. Matches(q)'
      BY <1>0, <2>1, <2>4, <3>2 DEF HandlerOK, Matches, HolderPC, At, columns
    <3>5. Unbarred(q)'
      BY <1>0, <2>1, <2>4, <3>2 DEF HandlerOK, Unbarred, Matches, Suspended, HolderPC, At, columns
    <3>6. pc \in PC /\ req[r].user \in User \cup {NONE}
      BY <1>0 DEF PC, HolderPC, Handler
    <3>7. SlotsOK'
      BY <2>1, <2>4, <3>1, <3>3, <3>4, <3>5, <3>6, GotoStep
    <3>. QED
      BY <2>1, <3>7 DEF Inv
  <2>5. /\ req[r].gen \in Generation \cup {NONE} /\ registered \in Generation \cup {NONE}
        /\ Matches(req[r])
    BY <1>0 DEF Inv, RestOK, Handler, HandlerOK
  <2>6. CASE AuthenticateClient(r)
    BY <2>3, <2>4, <2>5, <2>6 DEF AuthenticateClient, Advance
  <2>7. CASE LoadOwner(r)
    <3>1. /\ IF req[r].flag THEN generation[c] = NONE ELSE client[c] = req[r].client
          /\ req[r].gen = NONE
      BY <2>5, <2>7 DEF LoadOwner, At, Matches, HolderPC
    <3>. QED
      BY <2>3, <2>4, <2>5, <2>7, <3>1 DEF LoadOwner, Advance
  <2>8. CASE AuthenticateService(r)
    <3>1. req[r].gen = NONE /\ generation[c] = NONE
      BY <2>5, <2>8 DEF AuthenticateService, At, Matches, HolderPC
    <3>. QED
      BY <2>3, <2>4, <2>5, <2>8, <3>1 DEF AuthenticateService, Advance
  <2>9. CASE LoadResource(r)
    BY <2>3, <2>4, <2>5, <2>9 DEF LoadResource, SameGeneration
  <2>. QED
    BY <1>2, <2>6, <2>7, <2>8, <2>9
<1>3. CASE Issue(r)
  <2>1. c \in created /\ c \in Code
    BY <1>3, SlotFacts DEF Issue, At, HolderPC
  <2>2. RowsOK' /\ RestOK' /\ Lasting /\ UNCHANGED <<banned, created, used, columns>>
    BY <1>3, <2>1, RowsQuiet DEF Issue, Inv, RestOK, dirVars, rowVars
  <2>3. CASE Answer(r)
    BY <2>2, <2>3, AnswerStep DEF Inv
  <2>4. CASE NeedsSession(c) /\ Advance(r, "session")
    <3>1. PICK q : q = [req[r] EXCEPT !.pc = "session", !.user = req[r].user, !.gen = req[r].gen]
      OBVIOUS
    <3>2. q.pc = "session" /\ q.user = req[r].user /\ q.code = c /\ q.barred = req[r].barred
      BY <1>0, <3>1 DEF Handler
    <3>3. Knows(q)' /\ Matches(q)' /\ Unbarred(q)'
      BY <1>0, <1>3, <2>2, <2>4, <3>2
         DEF HandlerOK, Knows, Matches, Unbarred, HolderPC, At, Issue, NeedsSession, columns
    <3>4. "session" \in PC /\ req[r].user \in User \cup {NONE}
          /\ req[r].gen \in Generation \cup {NONE}
      BY <1>0 DEF PC, Handler
    <3>5. SlotsOK'
      BY <2>2, <2>4, <3>1, <3>3, <3>4, GotoStep DEF Advance
    <3>. QED
      BY <2>2, <3>5 DEF Inv
  <2>. QED
    BY <1>3, <2>3, <2>4 DEF Issue
<1>4. CASE CreateSession(r)
  <2>1. c \in created
    BY <1>4, SlotFacts DEF CreateSession, At
  <2>2. RowsOK' /\ RestOK' /\ Lasting /\ UNCHANGED banned
    BY <1>4, <2>1, RowsQuiet DEF CreateSession, Inv, RestOK, dirVars, rowVars
  <2>. QED
    BY <1>4, <2>2, AnswerStep DEF CreateSession, Inv
<1>. QED
  BY <1>1, <1>2, <1>3, <1>4, ConsumeInv DEF Redeem

LEMMA AbortInv ==
  ASSUME Inv, NEW r \in Request, Abort(r)
  PROVE  Inv'
BY Reads, AnswerStep DEF Abort, Inv

LEMMA DirectoryInv ==
  ASSUME Inv, Directory
  PROVE  Inv'
<1>1. ASSUME NEW u \in User, Unban(u)
      PROVE  Inv'
  <2>1. RowsOK' /\ RestOK' /\ UNCHANGED rowVars
    BY <1>1, RowsQuiet DEF Unban, Inv, RestOK, rowVars
  <2>2. ASSUME NEW r \in Request
        PROVE  req'[r] \in Handler /\ HandlerOK(req[r])'
    <3>1. req[r] \in Handler /\ HandlerOK(req[r])
      BY SlotFacts
    <3>2. PICK h : h = [req[r] EXCEPT !.barred = @ \ {u}]
      OBVIOUS
    <3>3. /\ h \in Handler /\ req'[r] = h /\ h.barred = req[r].barred \ {u}
          /\ h.pc = req[r].pc /\ h.code = req[r].code /\ h.user = req[r].user
          /\ h.client = req[r].client /\ h.redirect = req[r].redirect
          /\ h.verifier = req[r].verifier /\ h.gen = req[r].gen /\ h.flag = req[r].flag
      BY <1>1, <3>1, <3>2 DEF Unban, Handler
    <3>4. Knows(h)' /\ Matches(h)' /\ Unbarred(h)'
      BY <1>1, <2>1, <3>1, <3>3 DEF Unban, HandlerOK, Knows, Matches, Unbarred, rowVars, columns
    <3>. QED
      BY <3>3, <3>4 DEF HandlerOK, Knows, Matches, Unbarred
  <2>3. SlotsOK'
    BY <1>1, <2>2 DEF SlotsOK, Unban
  <2>. QED
    BY <2>1, <2>3 DEF Inv
<1>2. ASSUME NEW u \in User, Ban(u) \/ DeleteUser(u)
      PROVE  Inv'
  <2>1. RowsOK' /\ Lasting /\ UNCHANGED created
    BY <1>2, RowsQuiet, DeleteRows DEF Ban, DeleteUser, Inv
  <2>2. RestOK' /\ banned \subseteq banned' /\ UNCHANGED req
    BY <1>2, <2>1 DEF Ban, DeleteUser, Inv, RestOK
  <2>. QED
    BY <2>1, <2>2, SlotsQuiet DEF Inv
<1>3. ASSUME NEW s \in Service, DeleteService(s)
      PROVE  Inv'
  <2>1. RowsOK' /\ Lasting /\ UNCHANGED created
    BY <1>3, DeleteRows DEF DeleteService, Inv
  <2>2. RestOK' /\ UNCHANGED <<banned, req>>
    BY <1>3, <2>1 DEF DeleteService, Inv, RestOK
  <2>. QED
    BY <2>1, <2>2, SlotsQuiet DEF Inv
<1>4. ASSUME DeleteResource \/ \E g \in Generation : CreateResource(g)
      PROVE  Inv'
  <2>1. RowsOK' /\ Lasting /\ UNCHANGED <<created, banned, req>>
    BY <1>4, RowsQuiet DEF DeleteResource, CreateResource, Inv
  <2>2. RestOK'
    BY <1>4, <2>1 DEF DeleteResource, CreateResource, Inv, RestOK
  <2>. QED
    BY <2>1, <2>2, SlotsQuiet DEF Inv
<1>. QED
  BY <1>1, <1>2, <1>3, <1>4 DEF Directory

LEMMA NextInv == Inv /\ [Next]_vars => Inv'
<1>. SUFFICES ASSUME Inv, [Next]_vars PROVE Inv'
  OBVIOUS
<1>1. CASE DeleteExpired
  <2>1. RowsOK' /\ Lasting /\ UNCHANGED <<created, banned, req>>
    BY <1>1, DeleteRows DEF DeleteExpired, Inv, dirVars
  <2>2. RestOK'
    BY <1>1, <2>1 DEF DeleteExpired, Inv, RestOK, dirVars
  <2>. QED
    BY <2>1, <2>2, SlotsQuiet DEF Inv
<1>2. CASE Tick \/ UNCHANGED vars
  <2>1. RowsOK' /\ Lasting /\ UNCHANGED <<created, banned, req>>
    BY <1>2, RowsQuiet DEF Tick, Inv, vars, dirVars
  <2>2. RestOK'
    BY <1>2, <2>1 DEF Tick, vars, Inv, RestOK, dirVars
  <2>. QED
    BY <2>1, <2>2, SlotsQuiet DEF Inv
<1>. QED
  BY <1>1, <1>2, LoginInv, RedeemInv, AbortInv, DirectoryInv DEF Next

LEMMA InvHolds == Spec => []Inv
BY InitInv, NextInv, PTL DEF Spec

\* Every reachable state of the code flow is type correct; a handler that redeems
\* has consumed an existing code and knows its user.
THEOREM TypeCorrect == Spec => []TypeOK
BY InvHolds, InvImpliesType, PTL

---------------------------------------------------------------------------
(* Action properties: who gets tokens or a session in a step, and what the *)
(* tests it has passed still say.                                          *)

LEMMA OnlyIssuePays ==
  ASSUME Inv, [Next]_vars, pairs' # pairs, NEW r \in Request, req'[r] # req[r]
  PROVE  Issue(r)
<1>1. PICK p \in Request : Issue(p)
  BY DEF Next, Login, BeginCallback, ResolveUser, CheckRedirect, FixGeneration, CreateAuthCode,
         Redeem, BeginExchange, BeginTokenRequest, AuthenticateClient, Consume, LoadOwner,
         AuthenticateService, LoadResource, CreateSession, Abort, Unmoved, DeleteExpired,
         Directory, Ban, Unban, DeleteUser, DeleteService, CreateResource, DeleteResource, Tick,
         vars
<1>2. r = p
  BY <1>1 DEF Issue, Answer, Advance, Goto, Inv, SlotsOK
<1>. QED
  BY <1>1, <1>2

LEMMA OnlyCreateSessionAdds ==
  ASSUME Inv, [Next]_vars, ~(sessions' \subseteq sessions), NEW r \in Request, req'[r] # req[r]
  PROVE  CreateSession(r)
<1>1. PICK p \in Request : CreateSession(p)
  BY DEF Next, Login, BeginCallback, ResolveUser, CheckRedirect, FixGeneration, CreateAuthCode,
         Redeem, BeginExchange, BeginTokenRequest, AuthenticateClient, Consume, LoadOwner,
         AuthenticateService, LoadResource, Issue, Abort, Unmoved, DeleteExpired,
         Directory, Ban, Unban, DeleteUser, DeleteService, CreateResource, DeleteResource, Tick,
         vars
<1>2. r = p
  BY <1>1 DEF CreateSession, Answer, Inv, SlotsOK
<1>. QED
  BY <1>1, <1>2

\* Tokens go to the party the login was for: a redemption that inserts a pair has
\* named the redirect URI of the login, proved its challenge and come from its
\* service, although the tests and the INSERT are separate statements.
THEOREM TokensFitTheLogin == Spec => PairFitsLogin
<1>. DEFINE Fitting == \A r \in Request : Pays(r) =>
       LET q == req[r] IN
       /\ q.redirect = redirect[q.code]
       /\ challenge[q.code] \in {NONE, q.verifier}
       /\ client[q.code] \in {NONE, q.client}
<1>1. Inv /\ [Next]_vars => [Fitting]_vars
  BY SlotFacts DEF Pays, At, HandlerOK, Matches, HolderPC
<1>. QED
  BY <1>1, InvHolds, PTL DEF Spec, PairFitsLogin

\* A code created under one registration of the resource buys nothing under the
\* next, wherever the deletion falls: what the handler looked up is what the code
\* was created under, and the INSERT holds only while it is registered.
THEOREM GrantsEndWithTheResource == Spec => ResourceBound
<1>. DEFINE Bound == \A r \in Request : Pays(r) => generation[req[r].code] \in {NONE, registered}
<1>1. Inv /\ [Next]_vars => [Bound]_vars
  <2>. SUFFICES ASSUME Inv, [Next]_vars, NEW r \in Request, Pays(r)
                PROVE  generation[req[r].code] \in {NONE, registered}
    OBVIOUS
  <2>1. Issue(r)
    BY OnlyIssuePays DEF Pays
  <2>2. req[r].gen = generation[req[r].code]
    BY <2>1, SlotFacts DEF Issue, At, HandlerOK, Matches, HolderPC
  <2>. QED
    BY <2>1, <2>2 DEF Issue, InsertHolds
<1>. QED
  BY <1>1, InvHolds, PTL DEF Spec, ResourceBound

\* A redemption that arrives when the owner is suspended, and all the time it runs
\* stays so, gets neither tokens nor a session.
THEOREM SuspendedGetsNothing == Spec => BarredGetsNothing
<1>. DEFINE Barred == \A r \in Request :
       req'[r] # req[r] /\ (pairs' # pairs \/ ~(sessions' \subseteq sessions)) =>
         owner[req[r].code] \notin req[r].barred
<1>1. Inv /\ [Next]_vars => [Barred]_vars
  <2>. SUFFICES ASSUME Inv, [Next]_vars, NEW r \in Request, req'[r] # req[r],
                       pairs' # pairs \/ ~(sessions' \subseteq sessions)
                PROVE  owner[req[r].code] \notin req[r].barred
    OBVIOUS
  <2>1. At(r, "issue") \/ At(r, "session")
    BY OnlyIssuePays, OnlyCreateSessionAdds DEF Issue, CreateSession
  <2>. QED
    BY <2>1, SlotFacts DEF At, HandlerOK, Unbarred
<1>. QED
  BY <1>1, InvHolds, PTL DEF Spec, BarredGetsNothing

---------------------------------------------------------------------------
(* What a step does to the right to a token pair.  A row is open while it  *)
(* is unused; six effects stand for all statements, and are all that the   *)
(* next theorems need.                                                     *)

Open == rows \ used
SameHolding == \A q \in Request, d \in Code : Holding(q, d)' <=> Holding(q, d)

Quiet == UNCHANGED <<Open, created, used, pairs>> /\ SameHolding
Offers(c) ==
  /\ c \in Code \ created /\ Open' = Open \cup {c} /\ created' = created \cup {c}
  /\ UNCHANGED <<used, pairs>> /\ SameHolding
Loses(codes) ==
  /\ Open' = Open \ codes /\ used \subseteq used'
  /\ UNCHANGED <<created, pairs>> /\ SameHolding
TakesRight(r, c) ==
  /\ c \in Open /\ Open' = Open \ {c} /\ used' = used \cup {c} /\ UNCHANGED <<created, pairs>>
  /\ \A q \in Request, d \in Code : Holding(q, d)' <=> Holding(q, d) \/ (q = r /\ d = c)
EndsHolding(r, c) ==
  /\ Holding(r, c) /\ UNCHANGED <<Open, created, used>>
  /\ \A q \in Request, d \in Code : Holding(q, d)' <=> Holding(q, d) /\ q # r
Uses(r, c) == EndsHolding(r, c) /\ pairs' = [pairs EXCEPT ![c] = @ + 1]
Drops(r, c) == EndsHolding(r, c) /\ UNCHANGED pairs

Effect ==
  \/ Quiet
  \/ \E c \in Code : Offers(c)
  \/ \E codes \in SUBSET Code : Loses(codes)
  \/ \E r \in Request, c \in Code : TakesRight(r, c) \/ Uses(r, c) \/ Drops(r, c)

\* The slot of r changes from outside the holder's steps to outside of them, or
\* from one of them to another for the same code.
LEMMA SlotKeepsHolding ==
  ASSUME Inv, NEW r \in Request, NEW q, req' = [req EXCEPT ![r] = q],
         \/ req[r].pc \notin HolderPC /\ q.pc \notin HolderPC
         \/ req[r].pc \in HolderPC /\ q.pc \in HolderPC /\ q.code = req[r].code
  PROVE  SameHolding
<1>1. \A p \in Request : req'[p] = IF p = r THEN q ELSE req[p]
  BY DEF Inv, SlotsOK
<1>. QED
  BY <1>1 DEF SameHolding, Holding

LEMMA AnswerKeepsHolding ==
  ASSUME Inv, NEW r \in Request, Answer(r), req[r].pc \notin HolderPC
  PROVE  SameHolding
<1>1. Idle.pc \notin HolderPC
  BY DEF Idle, HolderPC
<1>. QED
  BY <1>1, SlotKeepsHolding DEF Answer

LEMMA GotoKeepsHolding ==
  ASSUME Inv, NEW r \in Request, NEW pc, NEW u, NEW g, Goto(r, pc, u, g),
         req[r].pc \in HolderPC <=> pc \in HolderPC
  PROVE  SameHolding
<1>1. PICK q : q = [pc |-> pc, code |-> req[r].code, user |-> u, client |-> req[r].client,
                    redirect |-> req[r].redirect, verifier |-> req[r].verifier, gen |-> g,
                    flag |-> req[r].flag, barred |-> req[r].barred]
  OBVIOUS
<1>2. q.pc = pc /\ q.code = req[r].code
  BY <1>1
<1>3. req' = [req EXCEPT ![r] = q]
  BY <1>1 DEF Goto
<1>. QED
  BY <1>2, <1>3, SlotKeepsHolding

LEMMA EnterKeepsHolding ==
  ASSUME Inv, NEW r \in Request, NEW pc \in {"user", "consume", "client"}, NEW c, NEW u, NEW cl,
         NEW uri, NEW ver, NEW flag, NEW barred, Enter(r, pc, c, u, cl, uri, ver, flag, barred)
  PROVE  SameHolding
<1>1. PICK q : q = [pc |-> pc, code |-> c, user |-> u, client |-> cl, redirect |-> uri,
                    verifier |-> ver, gen |-> NONE, flag |-> flag, barred |-> barred]
  OBVIOUS
<1>2. q.pc \notin HolderPC /\ req[r].pc \notin HolderPC
  BY <1>1 DEF HolderPC, Enter, At
<1>. QED
  BY <1>1, <1>2, SlotKeepsHolding DEF Enter

LEMMA EndOfHolding ==
  ASSUME Inv, NEW r \in Request, req[r].pc \in HolderPC, NEW q, q.pc \notin HolderPC,
         req' = [req EXCEPT ![r] = q], UNCHANGED rowVars
  PROVE  EndsHolding(r, req[r].code) /\ req[r].code \in Code
<1>1. req[r].code \in Code
  BY SlotFacts
<1>2. \A p \in Request : req'[p] = IF p = r THEN q ELSE req[p]
  BY DEF Inv, SlotsOK
<1>. QED
  BY <1>1, <1>2 DEF EndsHolding, Holding, Open, rowVars

LEMMA DeleteLoses ==
  ASSUME Inv, NEW codes, Delete(codes), UNCHANGED <<pairs, req>>
  PROVE  Effect
<1>. DEFINE lost == codes \cap Code
<1>1. SameHolding
  BY DEF SameHolding, Holding
<1>2. Loses(lost) /\ lost \in SUBSET Code
  BY <1>1 DEF Inv, RowsOK, Delete, Loses, Open
<1>. QED
  BY <1>2 DEF Effect

LEMMA ReadsQuietly ==
  ASSUME Unmoved, SameHolding PROVE Effect
BY DEF Unmoved, rowVars, Open, Quiet, Effect

LEMMA LoginEffect ==
  ASSUME Inv, NEW r \in Request, Login(r)
  PROVE  Effect
<1>1. ASSUME NEW u \in User, NEW cl \in Service \cup {NONE}, NEW uri \in Redirect,
             NEW ver \in Verifier \cup {NONE}, NEW target \in BOOLEAN,
             BeginCallback(r, u, cl, uri, ver, target)
      PROVE  Effect
  BY <1>1, EnterKeepsHolding, ReadsQuietly DEF BeginCallback
<1>2. CASE ResolveUser(r) \/ CheckRedirect(r) \/ FixGeneration(r)
  <2>1. Unmoved /\ req[r].pc \notin HolderPC
    BY <1>2 DEF ResolveUser, CheckRedirect, FixGeneration, At, HolderPC
  <2>2. \/ Answer(r)
        \/ \E pc \in {"create", "redirect", "resource"} :
             \E g : Goto(r, pc, req[r].user, g)
    BY <1>2 DEF ResolveUser, CheckRedirect, FixGeneration, Advance
  <2>3. \A pc \in {"create", "redirect", "resource"} : pc \notin HolderPC
    BY DEF HolderPC
  <2>. QED
    BY <2>1, <2>2, <2>3, AnswerKeepsHolding, GotoKeepsHolding, ReadsQuietly
<1>3. ASSUME NEW c \in Code, CreateAuthCode(r, c)
      PROVE  Effect
  <2>1. SameHolding
    BY <1>3, AnswerKeepsHolding DEF CreateAuthCode, At, HolderPC
  <2>2. Offers(c)
    BY <1>3, <2>1 DEF CreateAuthCode, Offers, Open, Inv, RowsOK
  <2>. QED
    BY <2>2 DEF Effect
<1>. QED
  BY <1>1, <1>2, <1>3 DEF Login

LEMMA ConsumeEffect ==
  ASSUME Inv, NEW r \in Request, Consume(r)
  PROVE  Effect
<1>. DEFINE c == req[r].code
<1>1. req[r].pc = "consume" /\ req[r].pc \notin HolderPC /\ c \in created /\ c \in Code
  BY SlotFacts DEF Consume, At, HolderPC
<1>2. UNCHANGED <<rows, created, pairs>>
  BY DEF Consume
<1>3. CASE Answer(r) /\ UNCHANGED used
  BY <1>1, <1>2, <1>3, AnswerKeepsHolding DEF Effect, Quiet, Open
<1>4. CASE Answer(r) /\ used' = used \cup {c}
  <2>1. Loses({c})
    BY <1>1, <1>2, <1>4, AnswerKeepsHolding DEF Loses, Open
  <2>2. {c} \in SUBSET Code
    BY <1>1
  <2>. QED
    BY <2>1, <2>2 DEF Effect
<1>5. CASE Consumable(c) /\ used' = used \cup {c} /\ Goto(r, "owner", owner[c], NONE)
  <2>1. \A p \in Request : p # r => req'[p] = req[p]
    BY <1>5 DEF Goto, Inv, SlotsOK
  <2>2. req'[r].pc = "owner" /\ req'[r].code = c
    BY <1>5 DEF Goto, Inv, SlotsOK
  <2>3. \A q \in Request, d \in Code : Holding(q, d)' <=> Holding(q, d) \/ (q = r /\ d = c)
    BY <1>1, <2>1, <2>2 DEF Holding, HolderPC
  <2>4. TakesRight(r, c)
    BY <1>2, <1>5, <2>3 DEF TakesRight, Open, Consumable
  <2>. QED
    BY <1>1, <2>4 DEF Effect
<1>. QED
  BY <1>3, <1>4, <1>5 DEF Consume

LEMMA AnswerEffect ==
  ASSUME Inv, NEW r \in Request, Answer(r), Unmoved
  PROVE  Effect
<1>1. CASE req[r].pc \in HolderPC
  <2>1. Idle.pc \notin HolderPC /\ UNCHANGED rowVars /\ UNCHANGED pairs
    BY DEF Idle, HolderPC, Unmoved
  <2>2. EndsHolding(r, req[r].code) /\ req[r].code \in Code
    BY <1>1, <2>1, EndOfHolding DEF Answer
  <2>3. Drops(r, req[r].code)
    BY <2>1, <2>2 DEF Drops
  <2>. QED
    BY <2>2, <2>3 DEF Effect
<1>2. CASE req[r].pc \notin HolderPC
  BY <1>2, AnswerKeepsHolding, ReadsQuietly
<1>. QED
  BY <1>1, <1>2

LEMMA RedeemEffect ==
  ASSUME Inv, NEW r \in Request, Redeem(r)
  PROVE  Effect
<1>1. ASSUME NEW d \in Code, NEW uri \in Redirect, NEW ver \in Verifier \cup {NONE}
      PROVE  /\ \A cl \in (Service \ Public) \cup {NONE} : BeginExchange(r, d, cl, uri, ver) => Effect
             /\ \A cl \in Service : BeginTokenRequest(r, d, cl, uri, ver) => Effect
  BY EnterKeepsHolding, ReadsQuietly DEF BeginExchange, BeginTokenRequest
<1>2. CASE AuthenticateClient(r) \/ LoadOwner(r) \/ AuthenticateService(r) \/ LoadResource(r)
  <2>1. Unmoved
    BY <1>2 DEF AuthenticateClient, LoadOwner, AuthenticateService, LoadResource
  <2>2. \/ Answer(r)
        \/ At(r, "client") /\ \E g : Goto(r, "consume", req[r].user, g)
        \/ /\ At(r, "owner") \/ At(r, "auth") \/ At(r, "target")
           /\ \E pc \in {"auth", "target", "issue"} : \E g : Goto(r, pc, req[r].user, g)
    BY <1>2 DEF AuthenticateClient, LoadOwner, AuthenticateService, LoadResource, Advance
  <2>3. CASE Answer(r)
    BY <2>1, <2>3, AnswerEffect
  <2>4. ASSUME NEW g, At(r, "client"), Goto(r, "consume", req[r].user, g)
        PROVE  Effect
    BY <2>1, <2>4, GotoKeepsHolding, ReadsQuietly DEF At, HolderPC
  <2>5. ASSUME NEW g, NEW pc \in {"auth", "target", "issue"}, Goto(r, pc, req[r].user, g),
               At(r, "owner") \/ At(r, "auth") \/ At(r, "target")
        PROVE  Effect
    BY <2>1, <2>5, GotoKeepsHolding, ReadsQuietly DEF At, HolderPC
  <2>. QED
    BY <2>2, <2>3, <2>4, <2>5
<1>3. CASE Issue(r)
  <2>1. req[r].pc \in HolderPC /\ UNCHANGED rowVars
    BY <1>3 DEF Issue, At, HolderPC
  <2>2. \E q : q.pc \notin HolderPC /\ req' = [req EXCEPT ![r] = q]
    <3>1. CASE Answer(r)
      BY <3>1 DEF Answer, Idle, HolderPC
    <3>2. CASE Advance(r, "session")
      <4>1. PICK q : q = [pc |-> "session", code |-> req[r].code, user |-> req[r].user,
                          client |-> req[r].client, redirect |-> req[r].redirect,
                          verifier |-> req[r].verifier, gen |-> req[r].gen,
                          flag |-> req[r].flag, barred |-> req[r].barred]
        OBVIOUS
      <4>. QED
        BY <3>2, <4>1 DEF Advance, Goto, HolderPC
    <3>. QED
      BY <1>3, <3>1, <3>2 DEF Issue
  <2>3. EndsHolding(r, req[r].code) /\ req[r].code \in Code
    BY <2>1, <2>2, EndOfHolding
  <2>4. Uses(r, req[r].code)
    BY <1>3, <2>3 DEF Issue, Uses
  <2>. QED
    BY <2>3, <2>4 DEF Effect
<1>4. CASE CreateSession(r)
  <2>1. SameHolding /\ UNCHANGED <<rowVars, pairs>>
    BY <1>4, AnswerKeepsHolding DEF CreateSession, At, HolderPC
  <2>. QED
    BY <2>1 DEF Effect, Quiet, Open, rowVars
<1>. QED
  BY <1>1, <1>2, <1>3, <1>4, ConsumeEffect DEF Redeem

LEMMA NextEffect ==
  ASSUME Inv, [Next]_vars
  PROVE  Effect
<1>1. ASSUME NEW u \in User, Unban(u)
      PROVE  Effect
  <2>1. \A q \in Request : req'[q].pc = req[q].pc /\ req'[q].code = req[q].code
    BY <1>1 DEF Unban, Inv, SlotsOK, Handler
  <2>2. SameHolding
    BY <2>1 DEF SameHolding, Holding
  <2>. QED
    BY <1>1, <2>2 DEF Unban, rowVars, Effect, Quiet, Open
<1>2. ASSUME \/ \E u \in User : Ban(u)
             \/ DeleteResource \/ \E g \in Generation : CreateResource(g)
             \/ Tick \/ UNCHANGED vars
      PROVE  Effect
  <2>1. UNCHANGED <<rowVars, pairs, req>>
    BY <1>2 DEF Ban, DeleteResource, CreateResource, Tick, vars
  <2>. QED
    BY <2>1 DEF Effect, Quiet, Open, SameHolding, Holding, rowVars
<1>3. ASSUME NEW u \in User, DeleteUser(u)
      PROVE  Effect
  BY <1>3, DeleteLoses DEF DeleteUser
<1>4. ASSUME NEW s \in Service, DeleteService(s)
      PROVE  Effect
  BY <1>4, DeleteLoses DEF DeleteService
<1>5. CASE DeleteExpired
  BY <1>5, DeleteLoses DEF DeleteExpired
<1>6. ASSUME NEW r \in Request, Abort(r)
      PROVE  Effect
  BY <1>6, AnswerEffect DEF Abort
<1>. QED
  BY <1>1, <1>2, <1>3, <1>4, <1>5, <1>6, LoginEffect, RedeemEffect DEF Next, Directory

---------------------------------------------------------------------------
(* One token pair per code.                                                *)

LEMMA InitOneRight == Init => OneRight
BY DEF Init, OneRight, OnePair, Holding, HolderPC, Idle

LEMMA HoldersCode ==
  ASSUME Inv
  PROVE  /\ \A r \in Request, c \in Code : Holding(r, c) => c \in used
         /\ rows \subseteq created /\ created \subseteq Code /\ used \subseteq created
         /\ pairs \in [Code -> Nat]
BY SlotFacts DEF HandlerOK, Knows, Holding, Inv, RowsOK, RestOK

LEMMA EffectKeepsOneRight ==
  ASSUME Inv, OneRight, Effect
  PROVE  OneRight'
<1>. USE DEF OneRight, OnePair
<1>1. CASE Quiet
  BY <1>1, HoldersCode DEF Quiet, SameHolding
<1>2. ASSUME NEW c \in Code, Offers(c)
      PROVE  OneRight'
  BY <1>2, HoldersCode DEF Offers, SameHolding
<1>3. ASSUME NEW codes \in SUBSET Code, Loses(codes)
      PROVE  OneRight'
  BY <1>3, HoldersCode DEF Loses, SameHolding
<1>4. ASSUME NEW r \in Request, NEW c \in Code, TakesRight(r, c)
      PROVE  OneRight'
  BY <1>4, HoldersCode DEF TakesRight, Open
<1>5. ASSUME NEW r \in Request, NEW c \in Code, Uses(r, c)
      PROVE  OneRight'
  <2>1. /\ c \in used /\ pairs[c] = 0 /\ pairs'[c] = 1
        /\ \A d \in Code : d # c => pairs'[d] = pairs[d]
        /\ \A q \in Request : ~Holding(q, c)'
    BY <1>5, HoldersCode DEF Uses, EndsHolding
  <2>2. \A q \in Request, d \in Code : Holding(q, d)' => Holding(q, d)
    BY <1>5 DEF Uses, EndsHolding
  <2>. QED
    BY <1>5, <2>1, <2>2, HoldersCode DEF Uses, EndsHolding
<1>6. ASSUME NEW r \in Request, NEW c \in Code, Drops(r, c)
      PROVE  OneRight'
  BY <1>6, HoldersCode DEF Drops, EndsHolding
<1>. QED
  BY <1>1, <1>2, <1>3, <1>4, <1>5, <1>6 DEF Effect

LEMMA RightHolds == Spec => [](Inv /\ OneRight)
<1>1. Inv /\ OneRight /\ [Next]_vars => OneRight'
  BY NextEffect, EffectKeepsOneRight
<1>. QED
  BY <1>1, InitOneRight, InvHolds, PTL DEF Spec

\* However many exchanges and token requests present a code, at both endpoints,
\* before and after the clean-up, it buys at most one token pair.
THEOREM CodeBuysOnePair == Spec => []OnePair
<1>1. OneRight => OnePair
  BY DEF OneRight
<1>. QED
  BY <1>1, RightHolds, PTL

---------------------------------------------------------------------------
(* The code flow implements OneTimeGrant.                                  *)

Stages == [c \in Code |-> StageOf(c)]

LEMMA StageValues ==
  ASSUME Inv, OneRight, NEW c \in Code
  PROVE  /\ c \notin created => StageOf(c) = "new"
         /\ c \in Open => StageOf(c) = "open"
         /\ c \in created \ Open /\ pairs[c] = 1 => StageOf(c) = "used"
         /\ c \in created \ Open /\ pairs[c] = 0 /\ (\E r \in Request : Holding(r, c))
              => StageOf(c) = "taken"
         /\ c \in created \ Open /\ pairs[c] = 0 /\ (\A r \in Request : ~Holding(r, c))
              => StageOf(c) = "void"
         /\ pairs[c] \in {0, 1}
<1>1. /\ Open \subseteq created /\ pairs[c] \in Nat /\ pairs[c] <= 1
      /\ c \in Open => pairs[c] = 0
  BY HoldersCode DEF OneRight, OnePair, Open
<1>. QED
  BY <1>1 DEF StageOf, Open

LEMMA StageValuesNext ==
  ASSUME Inv', OneRight', NEW c \in Code
  PROVE  /\ c \notin created' => StageOf(c)' = "new"
         /\ c \in Open' => StageOf(c)' = "open"
         /\ c \in created' \ Open' /\ pairs'[c] = 1 => StageOf(c)' = "used"
         /\ c \in created' \ Open' /\ pairs'[c] = 0 /\ (\E r \in Request : Holding(r, c)')
              => StageOf(c)' = "taken"
         /\ c \in created' \ Open' /\ pairs'[c] = 0 /\ (\A r \in Request : ~Holding(r, c)')
              => StageOf(c)' = "void"
<1>1. /\ Open' \subseteq created' /\ pairs'[c] \in Nat /\ pairs'[c] <= 1
      /\ c \in Open' => pairs'[c] = 0
  BY DEF Inv, RowsOK, RestOK, OneRight, OnePair, Open
<1>. QED
  BY <1>1 DEF StageOf, Open

LEMMA EffectRefines ==
  ASSUME Inv, OneRight, Inv', OneRight', Effect
  PROVE  Grants!Next \/ UNCHANGED Stages
<1>0. /\ Open \subseteq created /\ created \subseteq Code /\ pairs \in [Code -> Nat]
      /\ \A r \in Request, c \in Code : Holding(r, c) => c \in created \ Open /\ pairs[c] = 0
      /\ \A c \in Open : pairs[c] = 0
  BY HoldersCode DEF OneRight, Open
<1>1. CASE Quiet
  <2>1. ASSUME NEW c \in Code
        PROVE  StageOf(c)' = StageOf(c)
    BY <1>1, StageValues, StageValuesNext DEF Quiet, SameHolding
  <2>. QED
    BY <2>1 DEF Stages
<1>2. ASSUME NEW c \in Code, Offers(c)
      PROVE  Grants!Next
  <2>1. StageOf(c) = "new" /\ StageOf(c)' = "open"
    BY <1>2, StageValues, StageValuesNext DEF Offers
  <2>2. ASSUME NEW d \in Code, d # c
        PROVE  StageOf(d)' = StageOf(d)
    BY <1>2, <2>2, StageValues, StageValuesNext DEF Offers, SameHolding
  <2>3. Grants!Offer(c)
    BY <2>1, <2>2 DEF Grants!Offer, Grants!Move
  <2>. QED
    BY <2>3 DEF Grants!Next
<1>3. ASSUME NEW codes \in SUBSET Code, Loses(codes)
      PROVE  Grants!Next
  <2>. DEFINE lost == codes \cap Open
  <2>1. ASSUME NEW d \in lost
        PROVE  StageOf(d) = "open" /\ StageOf(d)' = "void"
    <3>1. d \in Code /\ d \in created' \ Open' /\ pairs'[d] = 0
      BY <1>0, <1>3 DEF Loses
    <3>2. \A r \in Request : ~Holding(r, d)'
      BY <1>0, <1>3, <3>1 DEF Loses, SameHolding
    <3>. QED
      BY <3>1, <3>2, StageValues, StageValuesNext
  <2>2. ASSUME NEW d \in Code, d \notin lost
        PROVE  StageOf(d)' = StageOf(d)
    BY <1>3, <2>2, StageValues, StageValuesNext DEF Loses, SameHolding
  <2>3. Grants!Withdraw(lost)
    BY <1>0, <2>1, <2>2 DEF Grants!Withdraw
  <2>4. lost \in SUBSET Code
    OBVIOUS
  <2>. QED
    BY <2>3, <2>4 DEF Grants!Next
<1>4. ASSUME NEW r \in Request, NEW c \in Code, TakesRight(r, c)
      PROVE  Grants!Next
  <2>1. StageOf(c) = "open" /\ StageOf(c)' = "taken"
    <3>1. c \in created' \ Open' /\ pairs'[c] = 0 /\ Holding(r, c)'
      BY <1>0, <1>4 DEF TakesRight
    <3>. QED
      BY <1>4, <3>1, StageValues, StageValuesNext DEF TakesRight
  <2>2. ASSUME NEW d \in Code, d # c
        PROVE  StageOf(d)' = StageOf(d)
    BY <1>4, <2>2, StageValues, StageValuesNext DEF TakesRight
  <2>3. Grants!Take(c)
    BY <2>1, <2>2 DEF Grants!Take, Grants!Move
  <2>. QED
    BY <2>3 DEF Grants!Next
<1>5. ASSUME NEW r \in Request, NEW c \in Code, Uses(r, c) \/ Drops(r, c)
      PROVE  Grants!Next
  <2>1. c \in created \ Open /\ pairs[c] = 0 /\ StageOf(c) = "taken"
    BY <1>0, <1>5, StageValues DEF Uses, Drops, EndsHolding
  <2>2. \A q \in Request : ~Holding(q, c)'
    BY <1>5 DEF Uses, Drops, EndsHolding, OneRight
  <2>3. ASSUME NEW d \in Code, d # c
        PROVE  StageOf(d)' = StageOf(d)
    <3>1. \A q \in Request : Holding(q, d)' <=> Holding(q, d)
      BY <1>5, <2>3 DEF Uses, Drops, EndsHolding, Holding
    <3>2. pairs'[d] = pairs[d] /\ UNCHANGED <<Open, created>>
      BY <1>0, <1>5, <2>3 DEF Uses, Drops, EndsHolding
    <3>. QED
      BY <3>1, <3>2, StageValues, StageValuesNext
  <2>4. CASE Uses(r, c)
    <3>1. StageOf(c)' = "used"
      BY <1>0, <2>1, <2>4, StageValuesNext DEF Uses, EndsHolding
    <3>2. Grants!Use(c)
      BY <2>1, <2>3, <3>1 DEF Grants!Use, Grants!Move
    <3>. QED
      BY <3>2 DEF Grants!Next
  <2>5. CASE Drops(r, c)
    <3>1. StageOf(c)' = "void"
      BY <2>1, <2>2, <2>5, StageValuesNext DEF Drops, EndsHolding
    <3>2. Grants!Withdraw({c})
      BY <2>1, <2>3, <3>1 DEF Grants!Withdraw
    <3>3. {c} \in SUBSET Code
      OBVIOUS
    <3>. QED
      BY <3>2, <3>3 DEF Grants!Next
  <2>. QED
    BY <1>5, <2>4, <2>5
<1>. QED
  BY <1>1, <1>2, <1>3, <1>4, <1>5 DEF Effect

LEMMA InitRefines == Init => Grants!Init
BY DEF Init, Grants!Init, StageOf

\* Every behaviour of the code flow is one of the one-time grant: one request takes
\* a code, and turns it into one pair or, whichever test it fails, spoils it.
THEOREM CodeFlowIsOneTimeGrant == Spec => GrantOnce
<1>1. /\ Inv /\ OneRight /\ (Inv /\ OneRight)' /\ [Next]_vars
         => [Grants!Next]_([c \in Code |-> StageOf(c)])
  BY NextEffect, EffectRefines DEF Stages
<1>. QED
  BY <1>1, InitRefines, RightHolds, PTL DEF Spec, GrantOnce, Grants!Spec
=============================================================================
