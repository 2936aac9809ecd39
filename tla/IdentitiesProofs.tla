-------------------------- MODULE IdentitiesProofs --------------------------
(***************************************************************************)
(* Theorems about Identities, for every number of users, providers,        *)
(* accounts, link tokens and tabs, stated of the specification of          *)
(* MCLogins, whose behaviours are those of DeviceGrant and those of        *)
(* Identities.  In every name that begins with Identity, User is Holder,   *)
(* Tab is Request, users is people, banned is barred and disturbed is      *)
(* overlapped.                                                             *)
(***************************************************************************)
EXTENDS MCLogins, FiniteSetTheorems, TLAPS

---------------------------------------------------------------------------
(* The invariant.                                                          *)

\* The rows, the link tokens and the cookie are of their types.
TablesOK ==
  /\ people \subseteq Holder /\ gone \subseteq Holder \ people /\ barred \subseteq people
  /\ subs \in [Holder -> [Provider -> Account \cup {NONE}]]
  /\ email \in [Holder -> Identity!Address \cup {NONE}]
  /\ \A u \in Holder : u \in people <=> email[u] # NONE
  /\ issued \in [Link -> Holder \cup {NONE}]
  /\ cookie \in Request \cup {NONE}

\* The steps of a flow that knows its account, and those that have found a user
Knowing == {"resolve", "profile", "email", "attach", "insert", "owner", "link", "open"}
Finding == {"profile", "attach", "open", "unlink"}

\* What a flow has found out, by the step that it is at.
FlowOK(t) ==
  LET q == tab[t] IN
  /\ q.pc # "idle" => q.provider \in Provider
  /\ q.pc \in Knowing =>
       q.account \in Account /\ (q.provider \in Updating => q.mail \in Email)
  /\ q.pc \in Finding => q.found \in Holder
  /\ q.link = IF q.token = NONE THEN NONE ELSE issued[q.token]
  /\ q.token # NONE => q.link \in Holder
  /\ q.pc \in {"email", "attach"} => q.token = NONE
  /\ q.pc \in {"email", "attach"} => q.mail # NONE
  /\ q.pc \in {"owner", "link"} => q.token # NONE
  /\ q.pc \in {"profile", "open"} => q.found \in seen[t]

\* What an undisturbed flow has read is still so.
Steady(t) ==
  LET q == tab[t] IN
  /\ q.pc = "attach" =>
       /\ q.found \in people \ barred /\ subs[q.found][q.provider] = NONE
       /\ email[q.found] = q.mail
  /\ q.pc = "unlink" => q.found \in people /\ Identity!MayUnlink(q.found, q.provider)

FlowsOK ==
  /\ tab \in [Request -> Identity!Flow] /\ seen \in [Request -> SUBSET Holder]
  /\ overlapped \subseteq Request
  /\ \A t \in Request : FlowOK(t) /\ (t \notin overlapped => Steady(t))

IInv == TablesOK /\ FlowsOK

---------------------------------------------------------------------------
(* What a step leaves alone, and how it moves a tab.                       *)

LEMMA IdleFlow ==
  /\ Identity!Idle \in Identity!Flow
  /\ \A t \in Request : tab'[t] = Identity!Idle => FlowOK(t)' /\ Steady(t)'
<1>1. Identity!Idle \in Identity!Flow
  BY DEF Identity!Idle, Identity!Flow
<1>2. ASSUME NEW t \in Request, tab'[t] = Identity!Idle
      PROVE  FlowOK(t)' /\ Steady(t)'
  BY <1>2, IdentitiesAssumption
  DEF FlowOK, Steady, Identity!Idle, Knowing, Finding, Identity!ProvidersAssumption
<1> QED BY <1>1, <1>2

\* A tab that does not move keeps what it knows; once rows change it is disturbed.
LEMMA Untouched ==
  ASSUME IInv, Identity!Observe, NEW s \in Request, tab'[s] = tab[s],
         \A l \in Link : issued[l] # NONE => issued'[l] = issued[l]
  PROVE  FlowOK(s)' /\ (s \notin overlapped' => Steady(s)')
<1> DEFINE q == tab[s]
<1>0. q \in Identity!Flow /\ FlowOK(s) /\ (s \notin overlapped => Steady(s))
  BY DEF IInv, FlowsOK
<1>1. q.token \in Link \cup {NONE} /\ NONE \notin Account
  BY <1>0, IdentitiesAssumption DEF Identity!Flow, Identity!ProvidersAssumption
<1>2. q.pc \in {"profile", "open"} => q.found \in seen'[s]
  <2> SUFFICES ASSUME q.pc \in {"profile", "open"} PROVE q.found \in seen'[s]
    OBVIOUS
  <2>1. q.found \in seen[s] /\ q.account # NONE
    BY <1>0, <1>1 DEF FlowOK, Knowing
  <2> QED BY <2>1 DEF Identity!Observe
<1>3. q.token # NONE => q.link = issued'[q.token]
  <2> SUFFICES ASSUME q.token # NONE PROVE q.link = issued'[q.token]
    OBVIOUS
  <2>1. q.link = issued[q.token] /\ q.link \in Holder
    BY <1>0 DEF FlowOK
  <2> QED BY <2>1, <1>1, IdentitiesAssumption DEF Identity!ProvidersAssumption
<1>4. FlowOK(s)'
  BY <1>0, <1>2, <1>3 DEF FlowOK
<1>5. ASSUME s \notin overlapped' PROVE Steady(s)'
  <2>1. CASE q.pc \in {"idle", "provider"}
    BY <2>1 DEF Steady
  <2>2. CASE q.pc \notin {"idle", "provider"}
    <3>1. s \notin overlapped /\ UNCHANGED Identity!rows
      BY <2>2, <1>5 DEF Identity!Observe
    <3>2. UNCHANGED <<people, barred, subs, email>>
      BY <3>1 DEF Identity!rows
    <3> QED BY <1>0, <3>1, <3>2 DEF Steady, Identity!MayUnlink, Identity!Connected
  <2> QED BY <2>1, <2>2
<1> QED BY <1>4, <1>5

LEMMA HistoryOK ==
  ASSUME IInv, Identity!Observe, tab' \in [Request -> Identity!Flow], people' \subseteq Holder
  PROVE  seen' \in [Request -> SUBSET Holder] /\ overlapped' \subseteq Request
<1>1. seen \in [Request -> SUBSET Holder]
  BY DEF IInv, FlowsOK
<1>2. \A t \in Request :
        seen[t] \cup {u \in people' : subs'[u][tab'[t].provider] = tab'[t].account}
          \subseteq Holder
  BY <1>1
<1>3. seen' \in [Request -> SUBSET Holder]
  BY <1>2 DEF Identity!Observe
<1>4. overlapped' \subseteq Request
  BY DEF Identity!Observe
<1> QED BY <1>3, <1>4

\* One tab moves.
LEMMA TabMoves ==
  ASSUME IInv, Identity!Observe, TablesOK', NEW t \in Request,
         tab' \in [Request -> Identity!Flow],
         \A s \in Request \ {t} : tab'[s] = tab[s],
         \A l \in Link : issued[l] # NONE => issued'[l] = issued[l],
         FlowOK(t)', t \notin overlapped' => Steady(t)'
  PROVE  IInv'
<1>1. \A s \in Request \ {t} : FlowOK(s)' /\ (s \notin overlapped' => Steady(s)')
  BY Untouched
<1>2. seen' \in [Request -> SUBSET Holder] /\ overlapped' \subseteq Request
  BY HistoryOK DEF TablesOK
<1> QED BY <1>1, <1>2 DEF IInv, FlowsOK

LEMMA NoTabMoves ==
  ASSUME IInv, Identity!Observe, TablesOK', UNCHANGED tab,
         \A l \in Link : issued[l] # NONE => issued'[l] = issued[l]
  PROVE  IInv'
<1>1. \A s \in Request : FlowOK(s)' /\ (s \notin overlapped' => Steady(s)')
  BY Untouched
<1>2. tab' \in [Request -> Identity!Flow]
  BY DEF IInv, FlowsOK
<1>3. seen' \in [Request -> SUBSET Holder] /\ overlapped' \subseteq Request
  BY <1>2, HistoryOK DEF TablesOK
<1> QED BY <1>1, <1>2, <1>3 DEF IInv, FlowsOK

LEMMA TablesStay ==
  ASSUME IInv, UNCHANGED <<Identity!rows, issued>>, cookie' \in Request \cup {NONE}
  PROVE  TablesOK'
BY DEF IInv, TablesOK, Identity!rows

LEMMA AnswerInv ==
  ASSUME IInv, Identity!Observe, TablesOK', NEW t \in Request, Identity!Answer(t),
         UNCHANGED issued
  PROVE  IInv'
<1>1. tab \in [Request -> Identity!Flow]
  BY DEF IInv, FlowsOK
<1>2. /\ tab' \in [Request -> Identity!Flow] /\ tab'[t] = Identity!Idle
      /\ \A s \in Request \ {t} : tab'[s] = tab[s]
  BY <1>1, IdleFlow DEF Identity!Answer
<1>3. FlowOK(t)' /\ Steady(t)'
  BY <1>2, IdleFlow
<1> QED BY <1>2, <1>3, TabMoves

LEMMA GoStep ==
  ASSUME IInv, NEW t \in Request, NEW u \in Holder \cup {NONE},
         NEW pc \in Knowing \cup Finding, Identity!Go(t, pc, u)
  PROVE  /\ tab' \in [Request -> Identity!Flow]
         /\ \A s \in Request \ {t} : tab'[s] = tab[s]
         /\ tab'[t].pc = pc /\ tab'[t].found = u
         /\ tab'[t].provider = tab[t].provider /\ tab'[t].token = tab[t].token
         /\ tab'[t].link = tab[t].link /\ tab'[t].account = tab[t].account
         /\ tab'[t].mail = tab[t].mail
<1>1. tab \in [Request -> Identity!Flow] /\ tab[t] \in Identity!Flow
  BY DEF IInv, FlowsOK
<1>2. PICK q : q = [tab[t] EXCEPT !.pc = pc, !.found = u]
  OBVIOUS
<1>3. /\ q \in Identity!Flow /\ q.pc = pc /\ q.found = u
      /\ q.provider = tab[t].provider /\ q.token = tab[t].token /\ q.link = tab[t].link
      /\ q.account = tab[t].account /\ q.mail = tab[t].mail
  BY <1>1, <1>2 DEF Identity!Flow, Knowing, Finding
<1>4. tab' = [tab EXCEPT ![t] = q]
  BY <1>1, <1>2 DEF Identity!Go, Identity!Flow
<1> QED BY <1>1, <1>3, <1>4

---------------------------------------------------------------------------
(* Every step keeps the invariant: GET /auth/login, POST /auth/link-intent.*)

LEMMA LinkIntentInv ==
  ASSUME IInv, Identity!Observe, NEW u \in Holder, NEW l \in Link, Identity!LinkIntent(u, l)
  PROVE  IInv'
<1>1. issued' = [issued EXCEPT ![l] = u] /\ issued[l] = NONE
      /\ UNCHANGED <<Identity!rows, cookie, tab>>
  BY DEF Identity!LinkIntent
<1>2. TablesOK'
  BY <1>1 DEF IInv, TablesOK, Identity!rows
<1>3. \A m \in Link : issued[m] # NONE => issued'[m] = issued[m]
  BY <1>1 DEF IInv, TablesOK
<1> QED BY <1>1, <1>2, <1>3, NoTabMoves

LEMMA LoginInv ==
  ASSUME IInv, Identity!Observe, NEW t \in Request, NEW p \in Provider, Identity!Login(t, p)
  PROVE  IInv'
<1>1. PICK q : q = [Identity!Idle EXCEPT !.pc = "provider", !.provider = p, !.token = NONE,
                      !.link = IF NONE = NONE THEN NONE ELSE issued[NONE]]
  OBVIOUS
<1>2. /\ q \in Identity!Flow /\ q.pc = "provider" /\ q.provider = p
      /\ q.token = NONE /\ q.link = NONE
  BY <1>1 DEF Identity!Idle, Identity!Flow
<1>3. /\ tab' = [tab EXCEPT ![t] = q]
      /\ UNCHANGED <<Identity!rows, issued>> /\ cookie' \in Request \cup {NONE}
  BY <1>1 DEF Identity!Login, Identity!StartAt
<1>4. /\ tab' \in [Request -> Identity!Flow] /\ tab'[t] = q
      /\ \A s \in Request \ {t} : tab'[s] = tab[s]
  BY <1>2, <1>3 DEF IInv, FlowsOK
<1>5. FlowOK(t)' /\ Steady(t)'
  BY <1>2, <1>4 DEF FlowOK, Steady, Knowing, Finding
<1>6. TablesOK'
  BY <1>3, TablesStay
<1> QED BY <1>3, <1>4, <1>5, <1>6, TabMoves

LEMMA LoginWithTokenInv ==
  ASSUME IInv, Identity!Observe, NEW t \in Request, NEW p \in Provider, NEW l \in Link,
         Identity!LoginWithToken(t, p, l)
  PROVE  IInv'
<1>1. issued[l] \in Holder /\ l # NONE
  BY IdentitiesAssumption
  DEF IInv, TablesOK, Identity!LoginWithToken, Identity!ProvidersAssumption
<1>2. PICK q : q = [Identity!Idle EXCEPT !.pc = "provider", !.provider = p, !.token = l,
                                         !.link = issued[l]]
  OBVIOUS
<1>3. /\ q \in Identity!Flow /\ q.pc = "provider" /\ q.provider = p
      /\ q.token = l /\ q.link = issued[l]
  BY <1>1, <1>2 DEF Identity!Idle, Identity!Flow
<1>4. /\ tab' = [tab EXCEPT ![t] = q] /\ cookie' = t
      /\ UNCHANGED <<Identity!rows, issued>>
  BY <1>1, <1>2 DEF Identity!LoginWithToken, Identity!StartAt
<1>5. /\ tab' \in [Request -> Identity!Flow] /\ tab'[t] = q
      /\ \A s \in Request \ {t} : tab'[s] = tab[s]
  BY <1>3, <1>4 DEF IInv, FlowsOK
<1>6. FlowOK(t)' /\ Steady(t)'
  BY <1>1, <1>3, <1>4, <1>5 DEF FlowOK, Steady, Knowing, Finding
<1>7. TablesOK'
  BY <1>4, TablesStay
<1> QED BY <1>4, <1>5, <1>6, <1>7, TabMoves

---------------------------------------------------------------------------
(* GET /auth/callback up to its writes.                                    *)

LEMMA CallbackInv ==
  ASSUME IInv, Identity!Observe, NEW t \in Request, NEW a \in Account,
         NEW m \in Email \cup {NONE}, Identity!Callback(t, a, m)
  PROVE  IInv'
<1> DEFINE p == tab[t].provider
<1>1. /\ tab[t].pc = "provider" /\ cookie = t /\ m \in Identity!Mails(p)
      /\ cookie' = NONE /\ UNCHANGED <<Identity!rows, issued>>
  BY DEF Identity!Callback, Identity!At, Identity!StateMatches
<1>2. /\ tab \in [Request -> Identity!Flow] /\ tab[t] \in Identity!Flow
      /\ p \in Provider /\ FlowOK(t)
  BY <1>1 DEF IInv, FlowsOK, FlowOK
<1>3. p \in Updating => m \in Email
  BY <1>1, IdentitiesAssumption DEF Identity!Mails, Identity!ProvidersAssumption
<1>4. PICK q : q = [tab[t] EXCEPT !.pc = "resolve", !.account = a, !.mail = m]
  OBVIOUS
<1>5. /\ q \in Identity!Flow /\ q.pc = "resolve" /\ q.provider = p
      /\ q.token = tab[t].token /\ q.link = tab[t].link /\ q.account = a /\ q.mail = m
  BY <1>2, <1>4 DEF Identity!Flow
<1>6. tab' = [tab EXCEPT ![t] = q]
  BY <1>1, <1>2, <1>4 DEF Identity!Callback, Identity!Flow
<1>7. /\ tab' \in [Request -> Identity!Flow] /\ tab'[t] = q
      /\ \A s \in Request \ {t} : tab'[s] = tab[s]
  BY <1>2, <1>5, <1>6
<1>8. FlowOK(t)' /\ Steady(t)'
  BY <1>1, <1>2, <1>3, <1>5, <1>7 DEF FlowOK, Steady, Knowing, Finding
<1>9. TablesOK'
  BY <1>1, TablesStay
<1> QED BY <1>1, <1>7, <1>8, <1>9, TabMoves

LEMMA CallbackRefusedInv ==
  ASSUME IInv, Identity!Observe, NEW t \in Request, Identity!CallbackRefused(t)
  PROVE  IInv'
BY TablesStay, AnswerInv DEF Identity!CallbackRefused

LEMMA FinishInv ==
  ASSUME IInv, Identity!Observe, NEW t \in Request, Identity!Finish(t) \/ Identity!Abort(t)
  PROVE  IInv'
BY TablesStay, AnswerInv DEF Identity!Finish, Identity!Abort, IInv, TablesOK

\* A step that only reads, and goes on with the user it has found.
LEMMA ReadInv ==
  ASSUME IInv, Identity!Observe, NEW t \in Request, NEW u \in Holder \cup {NONE},
         tab[t].pc \in Knowing,
         NEW pc \in Knowing, Identity!Go(t, pc, u),
         UNCHANGED <<Identity!rows, issued, cookie>>,
         pc \in Finding => u \in Holder,
         pc \in {"email", "attach"} => tab[t].token = NONE /\ tab[t].mail # NONE,
         pc \in {"owner", "link"} => tab[t].token # NONE,
         pc \in {"profile", "open"} => u \in seen'[t],
         pc = "attach" => /\ u \in people \ barred /\ subs[u][tab[t].provider] = NONE
                          /\ email[u] = tab[t].mail
  PROVE  IInv'
<1>1. /\ tab' \in [Request -> Identity!Flow]
      /\ \A s \in Request \ {t} : tab'[s] = tab[s]
      /\ tab'[t].pc = pc /\ tab'[t].found = u
      /\ tab'[t].provider = tab[t].provider /\ tab'[t].token = tab[t].token
      /\ tab'[t].link = tab[t].link /\ tab'[t].account = tab[t].account
      /\ tab'[t].mail = tab[t].mail
  BY GoStep
<1>2. FlowOK(t)
  BY DEF IInv, FlowsOK
<1>3. FlowOK(t)'
  BY <1>1, <1>2 DEF FlowOK, Knowing, Finding
<1>4. Steady(t)'
  BY <1>1 DEF Steady, Knowing, Identity!rows
<1>5. TablesOK'
  BY TablesStay DEF IInv, TablesOK
<1> QED BY <1>1, <1>3, <1>4, <1>5, TabMoves

LEMMA ResolveInv ==
  ASSUME IInv, Identity!Observe, NEW t \in Request, Identity!Resolve(t)
  PROVE  IInv'
<1> DEFINE q == tab[t]
           h == Identity!Holders(q.provider, q.account)
<1>1. q.pc = "resolve" /\ UNCHANGED <<Identity!rows, issued, cookie>>
  BY DEF Identity!Resolve, Identity!At
<1>2. /\ q \in Identity!Flow /\ FlowOK(t) /\ q.account \in Account
      /\ q.provider \in Provider /\ people \subseteq Holder /\ NONE \notin Account
  BY <1>1, IdentitiesAssumption
  DEF IInv, FlowsOK, FlowOK, TablesOK, Knowing, Identity!ProvidersAssumption
<1>3. q.link # NONE <=> q.token # NONE
  BY <1>1, <1>2, IdentitiesAssumption DEF FlowOK, Identity!ProvidersAssumption
<1>a. q.pc \in Knowing /\ {"owner", "profile", "email", "insert"} \subseteq Knowing
  BY <1>1 DEF Knowing
<1>4. CASE Identity!Answer(t)
  BY <1>1, <1>4, AnswerInv, TablesStay DEF IInv, TablesOK
<1>5. CASE q.link # NONE /\ q.link \in people /\ Identity!Go(t, "owner", q.link)
  BY <1>1, <1>2, <1>3, <1>5, <1>a, ReadInv DEF Finding
<1>6. CASE q.link = NONE /\ \E u \in h : Identity!Go(t, "profile", u)
  <2>1. PICK u \in h : Identity!Go(t, "profile", u)
    BY <1>6
  <2>2. u \in people /\ subs[u][q.provider] = q.account /\ u \in Holder
    BY <1>2 DEF Identity!Holders
  <2>3. "profile" \in Knowing
    BY DEF Knowing
  <2>4. tab'[t].provider = q.provider /\ tab'[t].account = q.account
    BY <2>1, <2>2, <2>3, GoStep
  <2>5. people' = people /\ subs' = subs
    BY <1>1 DEF Identity!rows
  <2>6. u \in seen'[t]
    BY <1>2, <2>2, <2>4, <2>5 DEF Identity!Observe
  <2> QED BY <1>1, <1>a, <2>1, <2>2, <2>6, ReadInv
<1>7. CASE q.link = NONE /\ Identity!Go(t, IF q.mail # NONE THEN "email" ELSE "insert", NONE)
  BY <1>1, <1>3, <1>7, <1>a, ReadInv DEF Finding
<1> QED BY <1>4, <1>5, <1>6, <1>7 DEF Identity!Resolve

LEMMA FindByEmailInv ==
  ASSUME IInv, Identity!Observe, NEW t \in Request, Identity!FindByEmail(t)
  PROVE  IInv'
<1> DEFINE q == tab[t]
<1>1. q.pc = "email" /\ UNCHANGED <<Identity!rows, issued, cookie>>
  BY DEF Identity!FindByEmail, Identity!At
<1>2. q.token = NONE /\ q.mail # NONE /\ people \subseteq Holder
  BY <1>1 DEF IInv, FlowsOK, FlowOK, TablesOK
<1>a. q.pc \in Knowing /\ {"attach", "insert"} \subseteq Knowing
  BY <1>1 DEF Knowing
<1>3. CASE \E u \in people : /\ email[u] = q.mail /\ Identity!MayAttach(u, q.provider)
                            /\ Identity!Go(t, "attach", u)
  BY <1>1, <1>2, <1>3, <1>a, ReadInv DEF Identity!MayAttach
<1>4. CASE Identity!Go(t, "insert", NONE)
  BY <1>1, <1>2, <1>4, <1>a, ReadInv DEF Finding
<1> QED BY <1>3, <1>4 DEF Identity!FindByEmail

LEMMA CheckOwnerInv ==
  ASSUME IInv, Identity!Observe, NEW t \in Request, Identity!CheckOwner(t)
  PROVE  IInv'
<1>1. tab[t].pc = "owner" /\ UNCHANGED <<Identity!rows, issued, cookie>>
  BY DEF Identity!CheckOwner, Identity!At
<1>2. tab[t].token # NONE /\ tab[t].link \in Holder
  BY <1>1 DEF IInv, FlowsOK, FlowOK
<1>3. CASE Identity!Answer(t)
  BY <1>1, <1>3, AnswerInv, TablesStay DEF IInv, TablesOK
<1>4. CASE Identity!Go(t, "link", tab[t].link)
  <2>1. tab[t].pc \in Knowing /\ "link" \in Knowing
    BY <1>1 DEF Knowing
  <2> QED BY <1>1, <1>2, <1>4, <2>1, ReadInv
<1> QED BY <1>3, <1>4 DEF Identity!CheckOwner

---------------------------------------------------------------------------
(* The writes of a login, DELETE /api/users/me/providers, administration.  *)

\* The row that a write returned: it holds the account, or held it before.
LEMMA OpenedInv ==
  ASSUME IInv, Identity!Observe, TablesOK', NEW t \in Request, NEW u \in Holder,
         tab[t].pc \in Knowing, UNCHANGED issued,
         Identity!Opened(t, u),
         \/ u \in seen[t]
         \/ u \in people' /\ subs'[u][tab[t].provider] = tab[t].account
  PROVE  IInv'
<1>1. CASE Identity!Answer(t)
  BY <1>1, AnswerInv
<1>2. CASE Identity!Go(t, "open", u)
  <2>1. "open" \in Knowing
    BY DEF Knowing
  <2>2. /\ tab' \in [Request -> Identity!Flow]
        /\ \A s \in Request \ {t} : tab'[s] = tab[s]
        /\ tab'[t].pc = "open" /\ tab'[t].found = u
        /\ tab'[t].provider = tab[t].provider /\ tab'[t].token = tab[t].token
        /\ tab'[t].link = tab[t].link /\ tab'[t].account = tab[t].account
        /\ tab'[t].mail = tab[t].mail
    BY <1>2, <2>1, GoStep
  <2>3. FlowOK(t) /\ tab[t].account \in Account /\ NONE \notin Account
    BY IdentitiesAssumption DEF IInv, FlowsOK, FlowOK, Identity!ProvidersAssumption
  <2>4. u \in seen'[t]
    BY <2>2, <2>3 DEF Identity!Observe, TablesOK
  <2>5. FlowOK(t)'
    BY <2>2, <2>3, <2>4 DEF FlowOK, Knowing, Finding
  <2>6. Steady(t)'
    BY <2>2 DEF Steady
  <2> QED BY <2>2, <2>5, <2>6, TabMoves
<1> QED BY <1>1, <1>2 DEF Identity!Opened

LEMMA UpdateProfileInv ==
  ASSUME IInv, Identity!Observe, NEW t \in Request, Identity!UpdateProfile(t)
  PROVE  IInv'
<1> DEFINE q == tab[t]
<1>1. /\ q.pc = "profile" /\ q.found \in people /\ Identity!Opened(t, q.found)
      /\ UNCHANGED <<people, gone, subs, barred, issued, cookie>>
  BY DEF Identity!UpdateProfile, Identity!At
<1>2. q.found \in Holder /\ q.found \in seen[t] /\ (q.provider \in Updating => q.mail \in Email)
  BY <1>1 DEF IInv, FlowsOK, FlowOK, Knowing, Finding
<1>3. TablesOK'
  <2>1. CASE q.provider \in Updating
    <3>1. email' = [email EXCEPT ![q.found] = q.mail]
      BY <2>1 DEF Identity!UpdateProfile
    <3>2. q.mail \in Identity!Address /\ q.mail # NONE
      BY <1>2, <2>1, IdentitiesAssumption DEF Identity!Address, Identity!ProvidersAssumption
    <3> QED BY <1>1, <1>2, <3>1, <3>2 DEF IInv, TablesOK
  <2>2. CASE q.provider \notin Updating
    BY <1>1, <2>2 DEF IInv, TablesOK, Identity!UpdateProfile
  <2> QED BY <2>1, <2>2
<1>4. q.pc \in Knowing
  BY <1>1 DEF Knowing
<1> QED BY <1>1, <1>2, <1>3, <1>4, OpenedInv

\* UPDATE users SET <provider>_sub, of a login by address and of a link
LEMMA SetSubInv ==
  ASSUME IInv, Identity!Observe, NEW t \in Request, NEW u \in Holder,
         tab[t].pc \in Knowing, Identity!SetSub(t, u), Identity!Opened(t, u),
         UNCHANGED <<people, gone, email, barred, issued, cookie>>
  PROVE  IInv'
<1> DEFINE q == tab[t]
<1>1. u \in people /\ subs' = [subs EXCEPT ![u][q.provider] = q.account]
  BY DEF Identity!SetSub, Identity!WithSub
<1>2. q.provider \in Provider /\ q.account \in Account
  BY DEF IInv, FlowsOK, FlowOK, Knowing
<1>3. subs \in [Holder -> [Provider -> Account \cup {NONE}]]
  BY DEF IInv, TablesOK
<1>4. /\ subs' \in [Holder -> [Provider -> Account \cup {NONE}]]
      /\ subs'[u][q.provider] = q.account
  BY <1>1, <1>2, <1>3
<1>5. TablesOK'
  BY <1>4 DEF IInv, TablesOK
<1> QED BY <1>1, <1>4, <1>5, OpenedInv

LEMMA AttachInv ==
  ASSUME IInv, Identity!Observe, NEW t \in Request,
         Identity!Attach(t) \/ Identity!LinkProvider(t)
  PROVE  IInv'
<1>1. CASE Identity!Attach(t)
  <2>1. tab[t].pc = "attach"
    BY <1>1 DEF Identity!Attach, Identity!At
  <2>2. tab[t].pc \in Knowing /\ tab[t].found \in Holder
    BY <2>1 DEF IInv, FlowsOK, FlowOK, Knowing, Finding
  <2> QED BY <1>1, <2>2, SetSubInv DEF Identity!Attach
<1>2. CASE Identity!LinkProvider(t)
  <2>1. tab[t].pc = "link"
    BY <1>2 DEF Identity!LinkProvider, Identity!At
  <2>2. tab[t].pc \in Knowing /\ tab[t].link \in Holder
    BY <2>1 DEF IInv, FlowsOK, FlowOK, Knowing
  <2> QED BY <1>2, <2>2, SetSubInv DEF Identity!LinkProvider
<1> QED BY <1>1, <1>2

LEMMA InsertUserInv ==
  ASSUME IInv, Identity!Observe, NEW t \in Request, NEW u \in Holder,
         Identity!InsertUser(t, u)
  PROVE  IInv'
<1> DEFINE q == tab[t]
<1>1. /\ q.pc = "insert" /\ u \notin people \cup gone /\ people' = people \cup {u}
      /\ subs' = [subs EXCEPT ![u][q.provider] = q.account]
      /\ email' = [email EXCEPT ![u] = Identity!AddressOf(q)]
      /\ Identity!Go(t, "open", u) /\ UNCHANGED <<gone, barred, issued, cookie>>
  BY DEF Identity!InsertUser, Identity!At, Identity!WithSub
<1>2. q.provider \in Provider /\ q.account \in Account /\ q \in Identity!Flow
  BY <1>1 DEF IInv, FlowsOK, FlowOK, Knowing
<1>3. Identity!AddressOf(q) \in Identity!Address /\ Identity!AddressOf(q) # NONE
  BY <1>2, IdentitiesAssumption
  DEF Identity!AddressOf, Identity!Address, Identity!Flow, Identity!ProvidersAssumption
<1>4. subs \in [Holder -> [Provider -> Account \cup {NONE}]]
  BY DEF IInv, TablesOK
<1>5. /\ subs' \in [Holder -> [Provider -> Account \cup {NONE}]]
      /\ subs'[u][q.provider] = q.account
  BY <1>1, <1>2, <1>4
<1>6. TablesOK'
  BY <1>1, <1>3, <1>5 DEF IInv, TablesOK
<1>7. q.pc \in Knowing /\ "open" \in Knowing
  BY <1>1 DEF Knowing
<1>8. /\ tab' \in [Request -> Identity!Flow]
      /\ \A s \in Request \ {t} : tab'[s] = tab[s]
      /\ tab'[t].pc = "open" /\ tab'[t].found = u
      /\ tab'[t].provider = tab[t].provider /\ tab'[t].token = tab[t].token
      /\ tab'[t].link = tab[t].link /\ tab'[t].account = tab[t].account
      /\ tab'[t].mail = tab[t].mail
  BY <1>1, <1>7, GoStep
<1>9. u \in seen'[t]
  BY <1>1, <1>2, <1>5, <1>8, IdentitiesAssumption
  DEF Identity!Observe, Identity!ProvidersAssumption
<1>10. FlowOK(t)
  BY DEF IInv, FlowsOK
<1>11. FlowOK(t)'
  BY <1>1, <1>7, <1>8, <1>9, <1>10 DEF FlowOK, Knowing, Finding
<1>12. Steady(t)'
  BY <1>8 DEF Steady
<1> QED BY <1>1, <1>6, <1>8, <1>11, <1>12, TabMoves

LEMMA CountProvidersInv ==
  ASSUME IInv, Identity!Observe, NEW t \in Request, NEW u \in Holder, NEW p \in Provider,
         Identity!CountProviders(t, u, p)
  PROVE  IInv'
<1>1. PICK q : q = [Identity!Idle EXCEPT !.pc = "unlink", !.provider = p, !.found = u]
  OBVIOUS
<1>2. /\ q \in Identity!Flow /\ q.pc = "unlink" /\ q.provider = p /\ q.found = u
      /\ q.token = NONE /\ q.link = NONE
  BY <1>1 DEF Identity!Idle, Identity!Flow
<1>3. /\ tab' = [tab EXCEPT ![t] = q] /\ u \in people /\ Identity!MayUnlink(u, p)
      /\ UNCHANGED <<Identity!rows, issued, cookie>>
  BY <1>1 DEF Identity!CountProviders
<1>4. /\ tab' \in [Request -> Identity!Flow] /\ tab'[t] = q
      /\ \A s \in Request \ {t} : tab'[s] = tab[s]
  BY <1>2, <1>3 DEF IInv, FlowsOK
<1>5. FlowOK(t)'
  BY <1>2, <1>3, <1>4 DEF FlowOK, Knowing, Finding
<1>6. people' = people /\ subs' = subs
  BY <1>3 DEF Identity!rows
<1>7. Steady(t)'
  BY <1>2, <1>3, <1>4, <1>6 DEF Steady, Identity!MayUnlink, Identity!Connected
<1>8. TablesOK'
  BY <1>3, TablesStay DEF IInv, TablesOK
<1> QED BY <1>3, <1>4, <1>5, <1>7, <1>8, TabMoves

LEMMA UnlinkProviderInv ==
  ASSUME IInv, Identity!Observe, NEW t \in Request, Identity!UnlinkProvider(t)
  PROVE  IInv'
<1> DEFINE q == tab[t]
<1>1. /\ subs' = [subs EXCEPT ![q.found][q.provider] = NONE] /\ Identity!Answer(t)
      /\ UNCHANGED <<people, gone, email, barred, issued, cookie>>
  BY DEF Identity!UnlinkProvider
<1>2. TablesOK'
  BY <1>1 DEF IInv, TablesOK
<1> QED BY <1>1, <1>2, AnswerInv

LEMMA AdminInvariant ==
  ASSUME IInv, Identity!Observe, NEW u \in Holder,
         Identity!Ban(u) \/ Identity!Unban(u) \/ Identity!DeleteUser(u)
  PROVE  IInv'
<1>1. UNCHANGED <<issued, cookie, tab>>
  BY DEF Identity!Ban, Identity!Unban, Identity!DeleteUser
<1>2. CASE Identity!Ban(u) \/ Identity!Unban(u)
  <2>1. TablesOK'
    BY <1>2 DEF Identity!Ban, Identity!Unban, IInv, TablesOK
  <2> QED BY <1>1, <2>1, NoTabMoves
<1>3. CASE Identity!DeleteUser(u)
  <2>1. TablesOK'
    BY <1>3 DEF Identity!DeleteUser, IInv, TablesOK
  <2> QED BY <1>1, <2>1, NoTabMoves
<1> QED BY <1>2, <1>3

LEMMA IInvInit ==
  ASSUME Identity!Init
  PROVE  IInv
<1>1. TablesOK
  BY DEF Identity!Init, TablesOK
<1>2. Identity!Idle \in Identity!Flow /\ \A t \in Request : tab[t] = Identity!Idle
  BY IdleFlow DEF Identity!Init
<1>3. \A t \in Request : FlowOK(t) /\ Steady(t)
  BY <1>2, IdentitiesAssumption
  DEF FlowOK, Steady, Identity!Idle, Knowing, Finding, Identity!ProvidersAssumption
<1> QED BY <1>1, <1>2, <1>3 DEF Identity!Init, IInv, FlowsOK

LEMMA IInvNext ==
  ASSUME IInv, Identity!Next
  PROVE  IInv'
<1> USE DEF Identity!Next
<1>1. CASE Identity!StartSteps
  BY <1>1, LinkIntentInv, LoginInv, LoginWithTokenInv DEF Identity!StartSteps
<1>2. CASE Identity!Admin
  BY <1>2, AdminInvariant DEF Identity!Admin
<1>3. ASSUME NEW t \in Request, Identity!CallbackSteps(t) PROVE IInv'
  BY <1>3, CallbackInv, CallbackRefusedInv, ResolveInv, UpdateProfileInv, FindByEmailInv,
     AttachInv, InsertUserInv, CheckOwnerInv, FinishInv DEF Identity!CallbackSteps
<1>4. ASSUME NEW t \in Request, Identity!UnlinkSteps(t) \/ Identity!Abort(t) PROVE IInv'
  BY <1>4, CountProvidersInv, UnlinkProviderInv, FinishInv DEF Identity!UnlinkSteps
<1> QED BY <1>1, <1>2, <1>3, <1>4 DEF Identity!Step

---------------------------------------------------------------------------
(* Behaviours of MCLogins.                                               *)

loginsVars == <<world, vars, identityVars>>
WorldInv == world = "identities" => IInv

LEMMA WorldInvInit == LoginsInit => WorldInv
<1> SUFFICES ASSUME LoginsInit, world = "identities" PROVE IInv
  BY DEF WorldInv
<1>1. Identity!Init
  BY DEF LoginsInit
<1> QED BY <1>1, IInvInit

LEMMA WorldInvNext == WorldInv /\ [LoginsNext]_loginsVars => WorldInv'
<1> SUFFICES ASSUME WorldInv, [LoginsNext]_loginsVars, world' = "identities"
             PROVE  IInv'
  BY DEF WorldInv
<1>1. CASE UNCHANGED loginsVars
  <2>1. world = "identities" /\ IInv
    BY <1>1 DEF loginsVars, WorldInv
  <2>2. UNCHANGED identityVars
    BY <1>1 DEF loginsVars
  <2>3. \A u \in Holder, p \in Provider :
          Identity!MayUnlink(u, p)' <=> Identity!MayUnlink(u, p)
    BY <2>2 DEF identityVars, Identity!MayUnlink, Identity!Connected
  <2>4. ASSUME NEW t \in Request PROVE FlowOK(t)' /\ (t \notin overlapped' => Steady(t)')
    <3>1. FlowOK(t) /\ (t \notin overlapped => Steady(t))
      BY <2>1 DEF IInv, FlowsOK
    <3>2. FlowOK(t)'
      BY <2>2, <3>1 DEF identityVars, FlowOK
    <3>3. tab[t].pc = "unlink" => tab[t].found \in Holder /\ tab[t].provider \in Provider
      BY <3>1 DEF FlowOK, Finding
    <3>4. t \notin overlapped' => Steady(t)'
      BY <2>2, <2>3, <3>1, <3>3 DEF identityVars, Steady
    <3> QED BY <3>2, <3>4
  <2>5. TablesOK'
    BY <2>1, <2>2 DEF identityVars, IInv, TablesOK
  <2>6. FlowsOK'
    BY <2>1, <2>2, <2>4 DEF identityVars, IInv, FlowsOK
  <2> QED BY <2>5, <2>6 DEF IInv
<1>2. CASE LoginsNext
  <2>1. world = "identities" /\ Identity!Next
    BY <1>2 DEF LoginsNext
  <2> QED BY <2>1, IInvNext DEF WorldInv
<1> QED BY <1>1, <1>2

LEMMA WorldInvHolds == LoginsSpec => []WorldInv
BY WorldInvInit, WorldInvNext, PTL DEF LoginsSpec, loginsVars

\* Whatever the logins, links and removals that overlap, a user's row has an address
\* and every other row none, and a flow knows what its next statement needs
\* (callback.ts, users.ts, me/providers.ts).
THEOREM IdentitiesTyped == LoginsSpec => []IdentitiesTypeOK
<1>1. WorldInv => IdentitiesTypeOK
  <2> SUFFICES ASSUME WorldInv, world = "identities" PROVE Identity!TypeOK
    BY DEF IdentitiesTypeOK
  <2>1. \A u \in Holder : IF u \in people THEN email[u] \in Identity!Address
                                         ELSE email[u] = NONE
    BY DEF WorldInv, IInv, TablesOK
  <2> QED BY <2>1 DEF WorldInv, IInv, TablesOK, FlowsOK, Identity!TypeOK
<1> QED BY <1>1, WorldInvHolds, PTL

\* A login ends in the session of a user that held the provider's account at some
\* moment of the login: no interleaving of two logins, links, removals and deletions
\* gives it another user's session (callback.ts, users.ts).
THEOREM LoginOpensOwnAccount == LoginsSpec => []OpensOwnAccount
<1>1. WorldInv => OpensOwnAccount
  BY DEF WorldInv, OpensOwnAccount, Identity!OpensOwnAccount, Identity!At, IInv, FlowsOK, FlowOK
<1> QED BY <1>1, WorldInvHolds, PTL

---------------------------------------------------------------------------
(* The steps that change an account of a user.                             *)

SubWrites ==
  \E t \in Request :
    \/ Identity!Attach(t) \/ Identity!LinkProvider(t) \/ Identity!UnlinkProvider(t)
    \/ \E u \in Holder : Identity!InsertUser(t, u)

\* No other step changes an account of a user who stays.
LEMMA OnlySubWrites ==
  ASSUME Identity!Next, NEW u \in people \cap people', subs'[u] # subs[u], IInv
  PROVE  SubWrites
<1> USE DEF Identity!Next
<1>1. subs' # subs
  OBVIOUS
<1>2. ~Identity!StartSteps
  BY <1>1 DEF Identity!StartSteps, Identity!LinkIntent, Identity!Login,
     Identity!LoginWithToken, Identity!rows
<1>3. ~Identity!Admin
  <2>1. ASSUME NEW v \in Holder, Identity!DeleteUser(v) PROVE subs'[u] = subs[u]
    BY <2>1 DEF Identity!DeleteUser, IInv, TablesOK
  <2> QED BY <1>1, <2>1 DEF Identity!Admin, Identity!Ban, Identity!Unban
<1>4. ASSUME NEW t \in Request, Identity!CallbackSteps(t) PROVE SubWrites
  BY <1>1, <1>4 DEF SubWrites, Identity!CallbackSteps, Identity!Callback,
     Identity!CallbackRefused, Identity!Resolve, Identity!UpdateProfile,
     Identity!FindByEmail, Identity!CheckOwner, Identity!Finish, Identity!rows
<1>5. ASSUME NEW t \in Request, Identity!UnlinkSteps(t) \/ Identity!Abort(t) PROVE SubWrites
  BY <1>1, <1>5 DEF SubWrites, Identity!UnlinkSteps, Identity!CountProviders, Identity!Abort,
     Identity!rows
<1> QED BY <1>2, <1>3, <1>4, <1>5 DEF Identity!Step

SubWritten(t, v, a) ==
  \A u \in people :
    subs'[u] = IF u = v THEN [subs[u] EXCEPT ![tab[t].provider] = a] ELSE subs[u]

\* What each of them does to a user who was there.
LEMMA SubWriteEffect ==
  ASSUME IInv, SubWrites
  PROVE  \E t \in Request, v \in Holder, a \in Account \cup {NONE} :
           /\ SubWritten(t, v, a)
           /\ tab[t].provider \in Provider /\ tab'[t] # tab[t]
           /\ \/ tab[t].pc = "attach" /\ tab[t].found = v /\ a = tab[t].account /\ a # NONE
              \/ tab[t].pc = "link" /\ tab[t].link = v /\ a = tab[t].account /\ a # NONE
              \/ tab[t].pc = "unlink" /\ tab[t].found = v /\ a = NONE
              \/ v \notin people
<1>1. /\ subs \in [Holder -> [Provider -> Account \cup {NONE}]] /\ people \subseteq Holder
      /\ NONE \notin Account /\ tab \in [Request -> Identity!Flow]
      /\ \A t \in Request : FlowOK(t)
  BY IdentitiesAssumption DEF IInv, TablesOK, FlowsOK, Identity!ProvidersAssumption
<1>2. \A t \in Request : tab[t].pc \in {"attach", "link", "insert"} =>
        tab[t].provider \in Provider /\ tab[t].account \in Account
  BY <1>1 DEF FlowOK, Knowing
<1>3. \A t \in Request, u \in Holder : Identity!Opened(t, u) => tab'[t].pc \in {"open", "idle"}
  BY <1>1 DEF Identity!Opened, Identity!Answer, Identity!Go, Identity!Idle, Identity!Flow
<1>4. ASSUME NEW t \in Request, Identity!Attach(t)
      PROVE  /\ tab[t].pc = "attach" /\ tab[t].found \in Holder /\ tab'[t] # tab[t]
             /\ subs' = [subs EXCEPT ![tab[t].found][tab[t].provider] = tab[t].account]
  BY <1>1, <1>3, <1>4
  DEF Identity!Attach, Identity!SetSub, Identity!WithSub, Identity!At, FlowOK, Finding
<1>5. ASSUME NEW t \in Request, Identity!LinkProvider(t)
      PROVE  /\ tab[t].pc = "link" /\ tab[t].link \in Holder /\ tab'[t] # tab[t]
             /\ subs' = [subs EXCEPT ![tab[t].link][tab[t].provider] = tab[t].account]
  BY <1>1, <1>3, <1>5
  DEF Identity!LinkProvider, Identity!SetSub, Identity!WithSub, Identity!At, FlowOK
<1>6. ASSUME NEW t \in Request, Identity!UnlinkProvider(t)
      PROVE  /\ tab[t].pc = "unlink" /\ tab[t].found \in Holder /\ tab'[t] # tab[t]
             /\ tab[t].provider \in Provider
             /\ subs' = [subs EXCEPT ![tab[t].found][tab[t].provider] = NONE]
  BY <1>1, <1>6
  DEF Identity!UnlinkProvider, Identity!Answer, Identity!Idle, Identity!At, FlowOK, Finding
<1>7. ASSUME NEW t \in Request, NEW u \in Holder, Identity!InsertUser(t, u)
      PROVE  /\ tab[t].pc = "insert" /\ u \notin people /\ tab'[t] # tab[t]
             /\ subs' = [subs EXCEPT ![u][tab[t].provider] = tab[t].account]
  BY <1>1, <1>7
  DEF Identity!InsertUser, Identity!WithSub, Identity!At, Identity!Go, Identity!Flow
<1>8. ASSUME NEW t \in Request, NEW v \in Holder, NEW a \in Account \cup {NONE},
             subs' = [subs EXCEPT ![v][tab[t].provider] = a]
      PROVE  SubWritten(t, v, a)
  BY <1>1, <1>8 DEF SubWritten
<1>9. CASE \E t \in Request : Identity!Attach(t)
  <2>1. PICK t \in Request : Identity!Attach(t)
    BY <1>9
  <2>2. SubWritten(t, tab[t].found, tab[t].account)
    BY <1>2, <1>4, <1>8, <2>1
  <2>3. /\ tab[t].pc = "attach" /\ tab[t].found \in Holder /\ tab'[t] # tab[t]
        /\ tab[t].provider \in Provider
        /\ tab[t].account \in Account \cup {NONE} /\ tab[t].account # NONE
    BY <1>1, <1>2, <1>4, <2>1
  <2> QED BY <2>2, <2>3
<1>10. CASE \E t \in Request : Identity!LinkProvider(t)
  <2>1. PICK t \in Request : Identity!LinkProvider(t)
    BY <1>10
  <2>2. SubWritten(t, tab[t].link, tab[t].account)
    BY <1>2, <1>5, <1>8, <2>1
  <2>3. /\ tab[t].pc = "link" /\ tab[t].link \in Holder /\ tab'[t] # tab[t]
        /\ tab[t].provider \in Provider
        /\ tab[t].account \in Account \cup {NONE} /\ tab[t].account # NONE
    BY <1>1, <1>2, <1>5, <2>1
  <2> QED BY <2>2, <2>3
<1>11. CASE \E t \in Request : Identity!UnlinkProvider(t)
  <2>1. PICK t \in Request : Identity!UnlinkProvider(t)
    BY <1>11
  <2>2. SubWritten(t, tab[t].found, NONE)
    BY <1>6, <1>8, <2>1
  <2> QED BY <1>6, <2>1, <2>2
<1>12. CASE \E t \in Request, u \in Holder : Identity!InsertUser(t, u)
  BY <1>1, <1>2, <1>7, <1>8, <1>12
<1> QED BY <1>9, <1>10, <1>11, <1>12 DEF SubWrites

\* So for a user who stays and one provider.
LEMMA AccountChanges ==
  ASSUME IInv, Identity!Next, NEW u \in people \cap people', NEW p \in Provider,
         subs'[u][p] # subs[u][p]
  PROVE  \E t \in Request :
           /\ tab[t].provider = p /\ tab'[t] # tab[t]
           /\ \A r \in Provider \ {p} : subs'[u][r] = subs[u][r]
           /\ \/ /\ tab[t].pc = "attach" /\ tab[t].found = u
                 /\ subs'[u][p] = tab[t].account /\ subs'[u][p] # NONE
              \/ /\ tab[t].pc = "link" /\ tab[t].link = u
                 /\ subs'[u][p] = tab[t].account /\ subs'[u][p] # NONE
              \/ tab[t].pc = "unlink" /\ tab[t].found = u /\ subs'[u][p] = NONE
<1>1. SubWrites
  BY OnlySubWrites
<1>2. subs[u] \in [Provider -> Account \cup {NONE}]
  BY DEF IInv, TablesOK
<1>3. PICK t \in Request, v \in Holder, a \in Account \cup {NONE} :
           /\ SubWritten(t, v, a)
           /\ tab[t].provider \in Provider /\ tab'[t] # tab[t]
           /\ \/ tab[t].pc = "attach" /\ tab[t].found = v /\ a = tab[t].account /\ a # NONE
              \/ tab[t].pc = "link" /\ tab[t].link = v /\ a = tab[t].account /\ a # NONE
              \/ tab[t].pc = "unlink" /\ tab[t].found = v /\ a = NONE
              \/ v \notin people
  BY <1>1, SubWriteEffect
<1>4. u = v /\ subs'[u] = [subs[u] EXCEPT ![tab[t].provider] = a]
  BY <1>3 DEF SubWritten
<1>5. /\ tab[t].provider = p /\ subs'[u][p] = a
      /\ \A r \in Provider \ {p} : subs'[u][r] = subs[u][r]
  BY <1>2, <1>3, <1>4
<1> QED BY <1>3, <1>4, <1>5

LEMMA CountIsCount == \A S : Identity!Cardinality(S) = Cardinality(S)
BY DEF Identity!Cardinality, Cardinality

\* What was counted before the last provider went was no longer so.
LEMMA OrphanedStep ==
  ASSUME IInv, Identity!Next
  PROVE  Identity!OrphanedByOverlap
<1> SUFFICES ASSUME NEW u \in Holder, Identity!Orphaned(u)
             PROVE  \E t \in overlapped : tab[t].pc = "unlink" /\ tab[t].found = u
  BY DEF Identity!OrphanedByOverlap, Identity!At
<1>1. PICK p \in Provider : subs[u][p] # NONE
  BY DEF Identity!Orphaned, Identity!Connected
<1>2. u \in people \cap people' /\ \A r \in Provider : subs'[u][r] = NONE
  BY DEF Identity!Orphaned, Identity!Connected
<1>3. PICK t \in Request : /\ tab[t].provider = p
                           /\ \A r \in Provider \ {p} : subs'[u][r] = subs[u][r]
                           /\ tab[t].pc = "unlink" /\ tab[t].found = u
  BY <1>1, <1>2, AccountChanges
<1>4. Identity!Connected(u) = {p}
  BY <1>1, <1>2, <1>3 DEF Identity!Connected
<1>5. Identity!Cardinality(Identity!Connected(u)) = 1
  BY <1>4, CountIsCount, FS_Singleton
<1>6. ~Identity!MayUnlink(u, p)
  BY <1>5 DEF Identity!MayUnlink
<1>7. t \in overlapped
  BY <1>3, <1>6 DEF IInv, FlowsOK, Steady
<1> QED BY <1>3, <1>7

LEMMA DisplacedStep ==
  ASSUME IInv, Identity!Next
  PROVE  Identity!DisplacedForCause
<1> SUFFICES ASSUME NEW u \in Holder, NEW p \in Provider, Identity!Displaced(u, p)
             PROVE  \E t \in Request :
                      \/ tab[t].pc = "link" /\ tab[t].link = u
                      \/ tab[t].pc = "attach" /\ tab[t].found = u /\ t \in overlapped
  BY DEF Identity!DisplacedForCause, Identity!At
<1>1. /\ u \in people \cap people' /\ subs[u][p] # NONE
      /\ subs'[u][p] # subs[u][p] /\ subs'[u][p] # NONE
  BY DEF Identity!Displaced
<1>2. PICK t \in Request :
        /\ tab[t].provider = p
        /\ \/ tab[t].pc = "attach" /\ tab[t].found = u
           \/ tab[t].pc = "link" /\ tab[t].link = u
  BY <1>1, AccountChanges
<1>3. tab[t].pc = "attach" => t \in overlapped
  BY <1>1, <1>2 DEF IInv, FlowsOK, Steady
<1> QED BY <1>2, <1>3

LEMMA GainedStep ==
  ASSUME IInv, Identity!Next
  PROVE  Identity!GainedForCause
<1> SUFFICES ASSUME NEW u \in Holder, NEW p \in Provider, Identity!Gains(u, p)
             PROVE  \E t \in Request :
                      /\ tab'[t] # tab[t] /\ tab[t].account = subs'[u][p]
                      /\ \/ tab[t].token # NONE /\ issued[tab[t].token] = u
                         \/ /\ tab[t].token = NONE
                            /\ \/ email[u] = tab[t].mail /\ u \notin barred
                               \/ t \in overlapped
  BY DEF Identity!GainedForCause
<1>1. u \in people /\ subs'[u][p] # subs[u][p] /\ subs'[u][p] # NONE
  BY DEF Identity!Gains
<1>2. u \in people'
  <2> SUFFICES ASSUME u \notin people' PROVE FALSE
    OBVIOUS
  <2>1. Identity!DeleteUser(u)
    <3>1. people' # people
      BY <1>1
    <3>2. Identity!Step
      BY DEF Identity!Next
    <3>3. ~Identity!StartSteps
      BY <3>1 DEF Identity!StartSteps, Identity!LinkIntent, Identity!Login,
         Identity!LoginWithToken, Identity!rows
    <3>4. \A t \in Request : ~Identity!CallbackSteps(t)
      BY <1>1 DEF Identity!CallbackSteps, Identity!Callback, Identity!CallbackRefused,
         Identity!Resolve, Identity!UpdateProfile, Identity!FindByEmail, Identity!Attach,
         Identity!InsertUser, Identity!CheckOwner, Identity!LinkProvider, Identity!Finish,
         Identity!rows
    <3>5. \A t \in Request : ~Identity!UnlinkSteps(t) /\ ~Identity!Abort(t)
      BY <3>1 DEF Identity!UnlinkSteps, Identity!CountProviders, Identity!UnlinkProvider,
         Identity!Abort, Identity!rows
    <3>6. PICK v \in Holder : Identity!Ban(v) \/ Identity!Unban(v) \/ Identity!DeleteUser(v)
      BY <3>2, <3>3, <3>4, <3>5 DEF Identity!Step, Identity!Admin
    <3> QED BY <1>1, <3>1, <3>6 DEF Identity!Ban, Identity!Unban, Identity!DeleteUser
  <2>2. subs'[u] = [r \in Provider |-> NONE]
    BY <2>1 DEF Identity!DeleteUser, IInv, TablesOK
  <2> QED BY <1>1, <2>2
<1>3. PICK t \in Request :
        /\ tab[t].provider = p /\ tab'[t] # tab[t] /\ subs'[u][p] = tab[t].account
        /\ \/ tab[t].pc = "attach" /\ tab[t].found = u
           \/ tab[t].pc = "link" /\ tab[t].link = u
  BY <1>1, <1>2, AccountChanges
<1>4. FlowOK(t) /\ (t \notin overlapped => Steady(t))
  BY DEF IInv, FlowsOK
<1>5. CASE tab[t].pc = "attach"
  BY <1>3, <1>4, <1>5 DEF FlowOK, Steady
<1>6. CASE tab[t].pc = "link"
  BY <1>3, <1>4, <1>6 DEF FlowOK
<1> QED BY <1>3, <1>5, <1>6

\* The steps that move anything of Identities are its own.
LEMMA IdentitySteps ==
  WorldInv /\ [LoginsNext]_loginsVars
    => UNCHANGED identityVars \/ (IInv /\ Identity!Next) \/ world = "device"
BY DEF WorldInv, LoginsNext, loginsVars

LEMMA DeviceWorld ==
  world = "device" /\ [LoginsNext]_loginsVars => UNCHANGED identityVars
BY DEF LoginsNext, loginsVars

\* Whoever loses the last way to log in loses it to two removals that overlapped, the
\* count of one being made before the other (DELETE /me/providers/:provider).
THEOREM LastProviderIsKept == LoginsSpec => KeepsAWayIn
<1>1. WorldInv /\ [LoginsNext]_loginsVars
        => [world = "identities" => Identity!OrphanedByOverlap]_identityVars
  BY IdentitySteps, DeviceWorld, OrphanedStep
<1> QED BY <1>1, WorldInvHolds, PTL DEF LoginsSpec, loginsVars, KeepsAWayIn

\* An account that is connected gives way to another one only to a link that its user
\* asked for, or to a login by address whose test another login overlapped (users.ts).
THEOREM ConnectedStaysConnected == LoginsSpec => DisplacesNothing
<1>1. WorldInv /\ [LoginsNext]_loginsVars
        => [world = "identities" => Identity!DisplacedForCause]_identityVars
  BY IdentitySteps, DeviceWorld, DisplacedStep
<1> QED BY <1>1, WorldInvHolds, PTL DEF LoginsSpec, loginsVars, DisplacesNothing

\* A user gains an account through a link token of that user, or through a login that
\* brings the user's own address unless another flow overlapped its look-up; never
\* through the cookie of another tab's login.
THEOREM AccountsAreGainedByTheirUser == LoginsSpec => AttachedForCause
<1>1. WorldInv /\ [LoginsNext]_loginsVars
        => [world = "identities" => Identity!GainedForCause]_identityVars
  BY IdentitySteps, DeviceWorld, GainedStep
<1> QED BY <1>1, WorldInvHolds, PTL DEF LoginsSpec, loginsVars, AttachedForCause
=============================================================================
