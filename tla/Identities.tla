----------------------------- MODULE Identities -----------------------------
(***************************************************************************)
(* The external accounts behind a user: a login at a provider, with the    *)
(* state cookie of the browser it runs in, finds, creates or extends a row *)
(* of users; a signed-in user adds a provider with a link token, or takes  *)
(* one away.                                                               *)
(*                                                                         *)
(* A tab runs one flow at a time; the tabs share the cookies of one        *)
(* browser.  A step of a handler is one database call together with the    *)
(* code up to the next await.  The placeholder address that is made from   *)
(* an account is the account itself here; the addresses of Email are the   *)
(* ones a provider has verified.  The provider is external: it may name    *)
(* any of its accounts.                                                    *)
(***************************************************************************)
EXTENDS Integers, FiniteSets

CONSTANTS
  User,        \* users.id, a fresh one for every INSERT
  Provider,
  Updating,    \* providers whose address is written at every login (google)
  Mailless,    \* providers that never tell an address (x)
  Account,     \* accounts, of all providers
  HostOf, \* the provider of an account
  Email,
  Link,        \* link tokens
  Tab,
  NONE         \* SQL NULL, an absent cookie or parameter

\* Assumed by the modules that give the constants values
ProvidersAssumption ==
  /\ Updating \subseteq Provider /\ Mailless \subseteq Provider \ Updating
  /\ HostOf \in [Account -> Provider]
  /\ NONE \notin User \cup Account \cup Email \cup Link

VARIABLES
  users,       \* ids that have a row
  gone,        \* ids of deleted rows
  subs,        \* users.<provider>_sub
  email,       \* users.email
  banned,
  issued,      \* the user a link token was issued to
  cookie,      \* the state and PKCE cookies: the tab whose login set them
  tab,         \* the flow in each tab
  seen,        \* history: the users that held a flow's account while it ran
  disturbed    \* history: flows inside a request since the start of which another
               \* flow has changed a row

rows == <<users, gone, subs, email, banned>>
vars == <<rows, issued, cookie, tab, seen, disturbed>>

Address == Email \cup Account
Flow == [pc : {"idle", "provider", "resolve", "profile", "email", "attach", "insert", "owner",
               "link", "open", "unlink"},
         provider : Provider \cup {NONE}, token : Link \cup {NONE}, link : User \cup {NONE},
         account : Account \cup {NONE}, mail : Email \cup {NONE}, found : User \cup {NONE}]
Idle == [pc |-> "idle", provider |-> NONE, token |-> NONE, link |-> NONE,
         account |-> NONE, mail |-> NONE, found |-> NONE]

At(t, pc) == tab[t].pc = pc
Go(t, pc, u) == tab' = [tab EXCEPT ![t].pc = pc, ![t].found = u]
Answer(t) == tab' = [tab EXCEPT ![t] = Idle]

Holders(p, a) == {u \in users : subs[u][p] = a}
Connected(u) == {p \in Provider : subs[u][p] # NONE}

Init ==
  /\ users = {} /\ gone = {} /\ banned = {}
  /\ subs = [u \in User |-> [p \in Provider |-> NONE]]
  /\ email = [u \in User |-> NONE]
  /\ issued = [l \in Link |-> NONE]
  /\ cookie = NONE
  /\ tab = [t \in Tab |-> Idle]
  /\ seen = [t \in Tab |-> {}] /\ disturbed = {}

---------------------------------------------------------------------------
(* GET /auth/login and POST /auth/link-intent                              *)

\* A token of two minutes, for the user that asks; nothing is stored.
LinkIntent(u, l) ==
  /\ u \in users \ banned /\ issued[l] = NONE
  /\ issued' = [issued EXCEPT ![l] = u]
  /\ UNCHANGED <<rows, cookie, tab>>

\* The redirect to the provider; both cookies are overwritten.
StartAt(t, p, l) ==
  LET start == [Idle EXCEPT !.pc = "provider", !.provider = p, !.token = l,
                            !.link = IF l = NONE THEN NONE ELSE issued[l]]
  IN /\ tab' = [tab EXCEPT ![t] = start]
     /\ cookie' = t

Login(t, p) ==
  /\ At(t, "idle")
  /\ StartAt(t, p, NONE)
  /\ UNCHANGED <<rows, issued>>

\* Of a token only the signature and the two minutes are certain.  The jti is looked up
\* in LINK_TOKEN_KV and stored there in a second call, but Workers KV is eventually
\* consistent: a look-up, one that is answered from a cached miss too, may not see what
\* another login has stored, and without the binding there is none.  Any login may so
\* find the token unused; what is stored is left out.
LoginWithToken(t, p, l) ==
  /\ At(t, "idle") /\ issued[l] # NONE
  /\ StartAt(t, p, l)
  /\ UNCHANGED <<rows, issued>>

---------------------------------------------------------------------------
(* GET /auth/callback                                                      *)

\* resolveProvider: what the address in the provider's answer may be; an
\* unverified one ends the flow, an absent one becomes a placeholder.
Mails(p) ==
  IF p \in Mailless THEN {NONE} ELSE IF p \in Updating THEN Email ELSE Email \cup {NONE}

StateMatches_Any(t) == cookie # NONE
StateMatches(t) == cookie = t

\* What follows is done for the login that the cookie describes.
Callback(t, a, m) ==
  /\ At(t, "provider") /\ StateMatches(t)
  /\ HostOf[a] = tab[cookie].provider /\ m \in Mails(tab[cookie].provider)
  /\ cookie' = NONE
  /\ tab' = [tab EXCEPT ![t].pc = "resolve", ![t].provider = tab[cookie].provider,
                        ![t].link = tab[cookie].link, ![t].account = a, ![t].mail = m]
  /\ UNCHANGED <<rows, issued>>

\* The cookies have expired or are another login's, or the provider reports an
\* error: whatever they are, they are cleared.
CallbackRefused(t) ==
  /\ At(t, "provider")
  /\ cookie' = NONE /\ Answer(t)
  /\ UNCHANGED <<rows, issued>>

\* findUserById for a link, findUserBySub for a login
Resolve(t) ==
  /\ At(t, "resolve")
  /\ LET q == tab[t]
         h == Holders(q.provider, q.account)
     IN IF q.link # NONE
        THEN IF q.link \in users \ banned THEN Go(t, "owner", q.link) ELSE Answer(t)
        ELSE IF h # {} THEN \E u \in h : Go(t, "profile", u)
        ELSE Go(t, IF q.mail # NONE THEN "email" ELSE "insert", NONE)
  /\ UNCHANGED <<rows, issued, cookie>>

\* The row that a write returned: a suspended user does not get in.
Opened(t, u) == IF u \in banned THEN Answer(t) ELSE Go(t, "open", u)

UpdateProfile(t) ==
  /\ At(t, "profile") /\ tab[t].found \in users
  /\ LET q == tab[t]
     IN IF q.provider \in Updating
        THEN /\ \A u \in users : u = q.found \/ email[u] # q.mail
             /\ email' = [email EXCEPT ![q.found] = q.mail]
        ELSE UNCHANGED email
  /\ Opened(t, tab[t].found)
  /\ UNCHANGED <<users, gone, subs, banned, issued, cookie>>

\* The user to extend has the same address, verified, and no account there yet.
MayAttach_Full(u, p) == u \notin banned
MayAttach(u, p) == u \notin banned /\ subs[u][p] = NONE

FindByEmail(t) ==
  /\ At(t, "email")
  /\ LET q == tab[t]
         m == {u \in users : email[u] = q.mail /\ MayAttach(u, q.provider)}
     IN IF m # {} THEN \E u \in m : Go(t, "attach", u) ELSE Go(t, "insert", NONE)
  /\ UNCHANGED <<rows, issued, cookie>>

\* UPDATE users SET <provider>_sub = ? WHERE id = ?, under the UNIQUE of the column
WithSub_Coalesced(u, p, a) == [subs EXCEPT ![u][p] = IF @ = NONE THEN a ELSE @]
WithSub(u, p, a) == [subs EXCEPT ![u][p] = a]
SetSub(t, u) ==
  LET q == tab[t]
  IN /\ u \in users /\ Holders(q.provider, q.account) \subseteq {u}
     /\ subs' = WithSub(u, q.provider, q.account)

Attach(t) ==
  /\ At(t, "attach") /\ SetSub(t, tab[t].found)
  /\ Opened(t, tab[t].found)
  /\ UNCHANGED <<users, gone, email, banned, issued, cookie>>

AddressOf_Null(q) == q.mail
AddressOf(q) == IF q.mail # NONE THEN q.mail ELSE q.account

\* INSERT, under the UNIQUE of the address and of the provider's column
InsertUser(t, u) ==
  LET q == tab[t]
  IN /\ At(t, "insert") /\ u \notin users \cup gone
     /\ Holders(q.provider, q.account) = {}
     /\ \A v \in users : email[v] # AddressOf(q)
     /\ users' = users \cup {u}
     /\ subs' = WithSub(u, q.provider, q.account)
     /\ email' = [email EXCEPT ![u] = AddressOf(q)]
     /\ Go(t, "open", u)
     /\ UNCHANGED <<gone, banned, issued, cookie>>

\* linkProvider: the account must not be another user's
CheckOwner(t) ==
  /\ At(t, "owner")
  /\ IF Holders(tab[t].provider, tab[t].account) \subseteq {tab[t].link}
     THEN Go(t, "link", tab[t].link) ELSE Answer(t)
  /\ UNCHANGED <<rows, issued, cookie>>

LinkProvider(t) ==
  /\ At(t, "link") /\ SetSub(t, tab[t].link)
  /\ Opened(t, tab[t].link)
  /\ UNCHANGED <<users, gone, email, banned, issued, cookie>>

\* finalizeLogin: the code, and so the session, is for the user that was found.
Finish(t) ==
  /\ At(t, "open") /\ Answer(t)
  /\ UNCHANGED <<rows, issued, cookie>>

---------------------------------------------------------------------------
(* DELETE /api/users/me/providers/:provider                                *)

MayUnlink_Last(u, p) == p \in Connected(u)
MayUnlink(u, p) == p \in Connected(u) /\ Cardinality(Connected(u)) > 1

\* A request that fails the test changes nothing.
CountProviders(t, u, p) ==
  /\ At(t, "idle") /\ u \in users \ banned /\ MayUnlink(u, p)
  /\ tab' = [tab EXCEPT ![t] = [Idle EXCEPT !.pc = "unlink", !.provider = p, !.found = u]]
  /\ UNCHANGED <<rows, issued, cookie>>

UnlinkProvider(t) ==
  /\ At(t, "unlink") /\ tab[t].found \in users
  /\ subs' = [subs EXCEPT ![tab[t].found][tab[t].provider] = NONE]
  /\ Answer(t)
  /\ UNCHANGED <<users, gone, email, banned, issued, cookie>>

\* A call throws, a key is taken, a row is gone: nothing more is executed.
Abort(t) ==
  /\ ~At(t, "idle") /\ ~At(t, "provider") /\ Answer(t)
  /\ UNCHANGED <<rows, issued, cookie>>

---------------------------------------------------------------------------
(* Administration, as far as it reaches here (module Administration)       *)

Ban(u) ==
  /\ u \in users \ banned /\ banned' = banned \cup {u}
  /\ UNCHANGED <<users, gone, subs, email, issued, cookie, tab>>

Unban(u) ==
  /\ u \in banned /\ banned' = banned \ {u}
  /\ UNCHANGED <<users, gone, subs, email, issued, cookie, tab>>

DeleteUser(u) ==
  /\ u \in users
  /\ users' = users \ {u} /\ gone' = gone \cup {u} /\ banned' = banned \ {u}
  /\ subs' = [subs EXCEPT ![u] = [p \in Provider |-> NONE]]
  /\ email' = [email EXCEPT ![u] = NONE]
  /\ UNCHANGED <<issued, cookie, tab>>

---------------------------------------------------------------------------
StartSteps ==
  \/ \E u \in User, l \in Link : LinkIntent(u, l)
  \/ \E t \in Tab, p \in Provider : Login(t, p) \/ \E l \in Link : LoginWithToken(t, p, l)

CallbackSteps(t) ==
  \/ \E a \in Account, m \in Email \cup {NONE} : Callback(t, a, m)
  \/ CallbackRefused(t) \/ Resolve(t) \/ UpdateProfile(t) \/ FindByEmail(t) \/ Attach(t)
  \/ \E u \in User : InsertUser(t, u)
  \/ CheckOwner(t) \/ LinkProvider(t) \/ Finish(t)

UnlinkSteps(t) ==
  \/ \E u \in User, p \in Provider : CountProviders(t, u, p)
  \/ UnlinkProvider(t)

Admin == \E u \in User : Ban(u) \/ Unban(u) \/ DeleteUser(u)

\* The history variables follow every step.
Observe ==
  /\ seen' = [t \in Tab |->
       IF tab'[t].account = NONE THEN {}
       ELSE seen[t] \cup {u \in users' : subs'[u][tab'[t].provider] = tab'[t].account}]
  /\ disturbed' = {t \in Tab : /\ tab'[t].pc \notin {"idle", "provider"}
                               /\ \/ t \in disturbed
                                  \/ tab'[t] = tab[t] /\ rows' # rows}

Step == StartSteps \/ Admin \/ \E t \in Tab : CallbackSteps(t) \/ UnlinkSteps(t) \/ Abort(t)
Next == Step /\ Observe
Spec == Init /\ [][Next]_vars

---------------------------------------------------------------------------
(* Properties.                                                             *)

\* Every row has an address, every value is of its column's kind.
TypeOK ==
  /\ users \subseteq User /\ gone \subseteq User \ users /\ banned \subseteq users
  /\ subs \in [User -> [Provider -> Account \cup {NONE}]]
  /\ \A u \in User : IF u \in users THEN email[u] \in Address ELSE email[u] = NONE
  /\ issued \in [Link -> User \cup {NONE}]
  /\ cookie \in Tab \cup {NONE} /\ tab \in [Tab -> Flow]
  /\ seen \in [Tab -> SUBSET User] /\ disturbed \subseteq Tab

\* A login ends in the session of a user that held the provider's account at some
\* moment of the login, however rows change under it (callback.ts, users.ts).
OpensOwnAccount == \A t \in Tab : At(t, "open") => tab[t].found \in seen[t]

\* Whoever loses the last provider, and with it every way to log in, loses it to
\* two requests that overlapped: the test of DELETE /me/providers counts in one
\* statement and removes in another.
Orphaned(u) == u \in users \cap users' /\ Connected(u) # {} /\ Connected(u)' = {}
OrphanedByOverlap ==
  \A u \in User : Orphaned(u) => \E t \in disturbed : At(t, "unlink") /\ tab[t].found = u
KeepsAWayIn == [][OrphanedByOverlap]_vars

\* An account that a user has connected gives way to another one only when the user
\* links the other one, or when a login by address overlapped the first connection:
\* the UPDATE does not repeat the test that the column is empty (users.ts:97).
Displaced(u, p) ==
  /\ u \in users \cap users' /\ subs[u][p] # NONE
  /\ subs'[u][p] \notin {NONE, subs[u][p]}
DisplacedForCause ==
  \A u \in User, p \in Provider : Displaced(u, p) =>
    \E t \in Tab : \/ At(t, "link") /\ tab[t].link = u
                   \/ At(t, "attach") /\ tab[t].found = u /\ t \in disturbed
DisplacesNothing == [][DisplacedForCause]_vars

\* A user that exists gains an account through a tab that was started with a link
\* token of that user, or that brings the user's own address; never through the
\* state cookie of another tab's login.
Gains(u, p) == u \in users /\ subs'[u][p] \notin {NONE, subs[u][p]}
GainedForCause ==
  \A u \in User, p \in Provider : Gains(u, p) =>
    \E t \in Tab : /\ tab'[t] # tab[t] /\ tab[t].account = subs'[u][p]
                   /\ \/ tab[t].token # NONE /\ issued[tab[t].token] = u
                      \/ /\ tab[t].token = NONE
                         /\ \/ email[u] = tab[t].mail /\ u \notin banned
                            \/ t \in disturbed
AttachedForCause == [][GainedForCause]_vars
=============================================================================
