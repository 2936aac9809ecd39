----------------------------- MODULE BffClient -----------------------------
(***************************************************************************)
(* The session cookie of a BFF: fetchWithAuth, login, callback and logout  *)
(* (packages/shared/src/lib/bff.ts, bff-auth-factory.ts), between a        *)
(* browser that has one cookie jar for all its tabs and the id worker.     *)
(*                                                                         *)
(* A cookie holds a session and the generation of its tokens: generation 0 *)
(* comes with the login, and each refresh gives the next.  Of the id       *)
(* worker there is what its answers depend on; how it comes to them is in  *)
(* RefreshTokens and BffSessions.  A request is the slot of a handler and  *)
(* of its response, which may overtake others and may be lost.             *)
(***************************************************************************)
EXTENDS Integers

CONSTANTS
  Login,        \* sessions: each login gives a new one
  Call,         \* slots for requests of the browser
  MaxGeneration \* bound on the number of refreshes of a session

\* Assumed by the modules that give the constants values
BffAssumption == MaxGeneration \in Nat /\ "none" \notin Login

VARIABLES
  cookie,       \* of the browser
  call,
  begun,        \* sessions the id worker has created
  alive,        \* with an active row in bff_sessions
  family,       \* with an active refresh token
  newest,       \* generation of the active or last refresh token
  expired,      \* access tokens before this generation have expired
  graced,       \* refresh tokens rotated in the last 30 s, whatever became of the family
  wanted,       \* history: the session of the last login, or none after a logout
  overtaken,    \* history: requests in flight when the browser logged in or out
  strayed,      \* history: one of them has since set the cookie
  lost,         \* history: sessions of which a refreshed cookie was lost
  slow          \* history: sessions with a request in flight when a grace ended

browserVars == <<cookie, call>>
idpVars     == <<begun, alive, family, newest, expired, graced>>
bffHistory  == <<wanted, overtaken, strayed, lost, slow>>
bffVars     == <<browserVars, idpVars, bffHistory>>

Generation == 0..MaxGeneration
None == [of |-> "none", generation |-> 0]
Cookie == [of : Login, generation : Generation]
Said == {"ok", "rotated", "refused", "limited", "error"}
\* set: what the response does to the cookie
Quiet == [pc |-> "quiet", sent |-> None, said |-> "ok", set |-> "keep", status |-> 200]

BffInit ==
  /\ cookie = None /\ call = [c \in Call |-> Quiet]
  /\ begun = {} /\ alive = {} /\ family = {}
  /\ newest = [s \in Login |-> 0] /\ expired = [s \in Login |-> 0]
  /\ graced = [s \in Login |-> {}]
  /\ wanted = "none" /\ overtaken = {} /\ strayed = FALSE /\ lost = {} /\ slow = {}

At(c, pc) == call[c].pc = pc
Sent(c) == call[c].sent
To(c, pc) == call' = [call EXCEPT ![c].pc = pc]
Respond(c, status, set) ==
  call' = [call EXCEPT ![c] = [@ EXCEPT !.pc = "response", !.said = "ok",
                                        !.status = status, !.set = set]]
Start(c, pc, sent) == At(c, "quiet") /\ call' = [call EXCEPT ![c].pc = pc, ![c].sent = sent]

---------------------------------------------------------------------------
(* GET /auth/login, the id worker's pages, and GET /auth/callback with the *)
(* state that this login has set.                                          *)

ReturnFromLogin(c, s) ==
  /\ s \notin begun /\ \A d \in Call : ~(At(d, "exchange") /\ Sent(d).of = s)
  /\ Start(c, "exchange", [of |-> s, generation |-> 0])
  /\ UNCHANGED <<cookie, idpVars, bffHistory>>

\* exchangeCodeAtIdp; without its answer the browser is sent to /?error=...
Exchange(c) ==
  LET s == Sent(c).of IN
  /\ At(c, "exchange")
  /\ begun' = begun \cup {s} /\ alive' = alive \cup {s} /\ family' = family \cup {s}
  /\ \/ Respond(c, 302, "set")
     \/ call' = [call EXCEPT ![c] = [Quiet EXCEPT !.pc = "response", !.status = 302]]
  /\ UNCHANGED <<cookie, newest, expired, graced, bffHistory>>

---------------------------------------------------------------------------
(* fetchWithAuth.                                                          *)

StartCall(c) ==
  /\ cookie # None /\ Start(c, "fetch", cookie)
  /\ UNCHANGED <<cookie, idpVars, bffHistory>>

\* authMiddleware
Accepted(k) == k.of \in alive /\ k.generation >= expired[k.of]

Fetch(c) ==
  /\ At(c, "fetch")
  /\ \/ Accepted(Sent(c)) /\ Respond(c, 200, "keep")
     \/ ~Accepted(Sent(c)) /\ To(c, "refresh")
     \/ Respond(c, 502, "keep")
  /\ UNCHANGED <<cookie, idpVars, bffHistory>>

\* POST /auth/refresh and its answer.  That the answer is lost, or the successor
\* could not be inserted after the token was consumed, comes to the same.
Says(c, said) == call' = [call EXCEPT ![c].pc = "answer", ![c].said = said]

Rotate(c) ==
  LET k == Sent(c) IN
  /\ k.of \in family /\ k.generation = newest[k.of] /\ k.generation < MaxGeneration
  /\ newest' = [newest EXCEPT ![k.of] = @ + 1]
  /\ graced' = [graced EXCEPT ![k.of] = @ \cup {k.generation}]
  /\ \/ Says(c, "ok") /\ UNCHANGED lost
     \/ Respond(c, 502, "keep") /\ lost' = lost \cup {k.of}
  /\ UNCHANGED family

Refuse(c) ==
  LET k == Sent(c) IN
  /\ k.of \in family => k.generation # newest[k.of]
  /\ \/ k.generation \in graced[k.of] /\ Says(c, "rotated") /\ UNCHANGED family
     \/ /\ k.generation \notin graced[k.of] /\ Says(c, "refused")
        /\ family' = family \ {k.of}                   \* TOKEN_REUSE
  /\ UNCHANGED <<newest, graced, lost>>

Trouble(c) ==
  /\ Says(c, "limited") \/ Says(c, "error")
  /\ UNCHANGED <<family, newest, graced, lost>>

Refresh(c) ==
  /\ At(c, "refresh")
  /\ Rotate(c) \/ Refuse(c) \/ Trouble(c)
  /\ UNCHANGED <<cookie, begun, alive, expired, wanted, overtaken, strayed, slow>>

\* The status with which the id worker says it
StatusOf(said) ==
  CASE said = "ok" -> 200 [] said = "rotated" -> 503 [] said = "refused" -> 401
    [] said = "limited" -> 429 [] said = "error" -> 500

\* The cookie with the new tokens belongs to the response, whatever the second
\* attempt comes to.
UseTokens_OnSuccess(c) ==
  \/ Accepted([Sent(c) EXCEPT !.generation = @ + 1]) /\ Respond(c, 200, "set")
  \/ ~Accepted([Sent(c) EXCEPT !.generation = @ + 1]) /\ Respond(c, 401, "set")
  \/ Respond(c, 502, "keep")
UseTokens(c) ==
  \/ Accepted([Sent(c) EXCEPT !.generation = @ + 1]) /\ Respond(c, 200, "set")
  \/ ~Accepted([Sent(c) EXCEPT !.generation = @ + 1]) /\ Respond(c, 401, "set")
  \/ Respond(c, 502, "set")

React(c) ==
  LET said == call[c].said IN
  /\ At(c, "answer")
  /\ IF StatusOf(said) = 200 THEN UseTokens(c)
     ELSE IF StatusOf(said) >= 500 THEN Respond(c, 502, "keep")
     ELSE IF StatusOf(said) = 429 \/ said = "rotated" THEN Respond(c, 503, "keep")
     ELSE Respond(c, 401, "delete")
  /\ UNCHANGED <<cookie, idpVars, bffHistory>>

---------------------------------------------------------------------------
(* POST /auth/logout.                                                      *)

Logout(c) ==
  /\ cookie # None /\ Start(c, "logout", cookie)
  /\ UNCHANGED <<cookie, idpVars, bffHistory>>

\* revokeTokenAtIdp, and whatever it comes to the cookie goes.
LogoutResponse_IfRevoked(c, revoked) == Respond(c, 302, IF revoked THEN "delete" ELSE "keep")
LogoutResponse(c, revoked) == Respond(c, 302, "delete")

Revoke(c) ==
  LET k == Sent(c) IN
  /\ At(c, "logout")
  /\ \/ /\ alive' = alive \ {k.of}
        /\ family' = IF k.generation = newest[k.of] THEN family \ {k.of} ELSE family
        /\ LogoutResponse(c, TRUE)
     \/ LogoutResponse(c, FALSE) /\ UNCHANGED <<alive, family>>
  /\ UNCHANGED <<cookie, begun, newest, expired, graced, bffHistory>>

---------------------------------------------------------------------------
(* The browser.                                                            *)

InFlight == {d \in Call : ~At(d, "quiet")}
Choose(c, s) == wanted' = s /\ overtaken' = InFlight \ {c} /\ strayed' = FALSE

New(c) == [of |-> Sent(c).of,
           generation |-> IF call[c].status = 302 THEN 0 ELSE Sent(c).generation + 1]

Deliver(c) ==
  LET set == call[c].set IN
  /\ At(c, "response")
  /\ cookie' = CASE set = "set" -> New(c) [] set = "delete" -> None [] set = "keep" -> cookie
  /\ call' = [call EXCEPT ![c] = Quiet]
  /\ IF call[c].status = 302 /\ Sent(c) # None           \* of a login or a logout
     THEN Choose(c, IF set = "set" THEN Sent(c).of ELSE "none")
     ELSE /\ overtaken' = overtaken \ {c}
          /\ strayed' = (strayed \/ (c \in overtaken /\ set = "set"))
          /\ UNCHANGED wanted
  /\ UNCHANGED <<idpVars, lost, slow>>

\* The tab is closed, or the connection breaks.
Lose(c) ==
  /\ At(c, "response")
  /\ call' = [call EXCEPT ![c] = Quiet] /\ overtaken' = overtaken \ {c}
  /\ lost' = IF call[c].set = "set" THEN lost \cup {Sent(c).of} ELSE lost
  /\ UNCHANGED <<cookie, idpVars, wanted, strayed, slow>>

---------------------------------------------------------------------------
(* What happens to a session meanwhile: access tokens expire, the grace of *)
(* a rotation ends, somebody ends the session or its tokens.               *)

Expire(s) ==
  /\ s \in begun /\ expired[s] <= newest[s]
  /\ expired' = [expired EXCEPT ![s] = @ + 1]
  /\ UNCHANGED <<browserVars, begun, alive, family, newest, graced, bffHistory>>

EndGrace(s) ==
  /\ graced[s] # {} /\ graced' = [graced EXCEPT ![s] = {}]
  /\ slow' = IF \E c \in InFlight : Sent(c).of = s THEN slow \cup {s} ELSE slow
  /\ UNCHANGED <<browserVars, begun, alive, family, newest, expired,
                 wanted, overtaken, strayed, lost>>

\* The rows of the tokens are revoked, or they are gone with the user's.
EndElsewhere(s) ==
  /\ \/ s \in alive /\ alive' = alive \ {s} /\ UNCHANGED <<family, graced>>
     \/ /\ s \in family /\ family' = family \ {s}
        /\ graced' \in {graced, [graced EXCEPT ![s] = {}]} /\ UNCHANGED alive
  /\ UNCHANGED <<browserVars, begun, newest, expired, bffHistory>>

BffNext ==
  \/ \E c \in Call :
       \/ \E s \in Login : ReturnFromLogin(c, s)
       \/ Exchange(c) \/ StartCall(c) \/ Fetch(c) \/ Refresh(c) \/ React(c)
       \/ Logout(c) \/ Revoke(c) \/ Deliver(c) \/ Lose(c)
  \/ \E s \in Login : Expire(s) \/ EndGrace(s) \/ EndElsewhere(s)

BffSpec == BffInit /\ [][BffNext]_bffVars

---------------------------------------------------------------------------
(* Properties.                                                             *)

BffTypeOK ==
  /\ cookie \in Cookie \cup {None}
  /\ call \in [Call -> [pc : {"quiet", "exchange", "fetch", "refresh", "answer", "logout", "response"},
                        sent : Cookie \cup {None}, said : Said, set : {"keep", "set", "delete"},
                        status : {200, 302, 401, 502, 503}]]
  /\ begun \subseteq Login /\ alive \subseteq begun /\ family \subseteq begun
  /\ newest \in [Login -> Generation] /\ expired \in [Login -> 0..(MaxGeneration + 1)]
  /\ graced \in [Login -> SUBSET Generation]
  /\ wanted \in Login \cup {"none"} /\ overtaken \subseteq Call
  /\ strayed \in BOOLEAN /\ lost \subseteq Login /\ slow \subseteq Login

\* However many tabs refresh at once, the id worker sees a token used again, and
\* ends the session, only if a refreshed cookie was lost on its way or a request of
\* the session was still under way when the grace of a rotation ended.
ReuseJustified ==
  \A c \in Call : LET s == Sent(c).of IN
    At(c, "refresh") /\ call'[c] # call[c] /\ s \in family \ family' => s \in lost \cup slow
ReuseForCause == [][ReuseJustified]_bffVars

\* The browser is in the session it logged into last, and in none after a logout
\* that was answered, unless the response of a request from before has put another
\* cookie back.
CookieFollows == cookie # None => cookie.of = wanted \/ strayed

\* "クライアントがリトライできるよう503を返す": who lost the race for a rotation is
\* asked to try again.
LoserRetries ==
  [][\A c \in Call : At(c, "answer") /\ call[c].said = "rotated" /\ call'[c].pc = "response" =>
       call'[c].status = 503]_bffVars
=============================================================================
