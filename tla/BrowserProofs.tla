---------------------------- MODULE BrowserProofs ----------------------------
(***************************************************************************)
(* Theorems about BffClient, LoginHistory and AuditPages, for every number *)
(* of sessions, requests, refreshes, logins and log entries, stated of the *)
(* specification of MCSessions, whose behaviours are those of each of its  *)
(* seven modules.                                                          *)
(***************************************************************************)
EXTENDS MCSessions, BffSessionsProofs, Sequences

sessionsVars == <<world, vars, bffVars, historyVars, auditVars, ownerVars, cacheVars,
                  registrationVars>>

---------------------------------------------------------------------------
(* BffClient: the invariant.                                               *)

Slot == [pc : {"quiet", "exchange", "fetch", "refresh", "answer", "logout", "response"},
         sent : Client!Cookie \cup {Client!None}, said : Client!Said,
         set : {"keep", "set", "delete"}, status : {200, 302, 401, 502, 503}]

\* A request that has tokens for the browser, and their generation
Carrier(c) ==
  \/ call[c].pc = "answer" /\ call[c].said = "ok"
  \/ call[c].pc = "response" /\ call[c].set = "set"
Brings(c) ==
  IF call[c].pc = "response" /\ call[c].status = 302 THEN 0 ELSE call[c].sent.generation + 1

\* What a request knows by the step it is at; a session begins when its code is used.
CallOK(c) ==
  LET q == call[c] IN
  /\ q.pc = "quiet" => q = Client!Quiet
  /\ q.pc \in {"fetch", "refresh", "answer", "logout"} \/ Carrier(c) => q.sent \in Client!Cookie
  /\ q.pc = "exchange" =>
       q.sent \in Client!Cookie /\ q.sent.generation = 0 /\ q.sent.of \notin begun
  /\ q.pc \notin {"quiet", "exchange"} => q.sent.of \in begun \cup {"none"}
  /\ q.pc = "response" /\ q.status = 302 =>
       IF q.sent = Client!None THEN q.set = "keep" ELSE q.set \in {"set", "delete"}
  /\ Carrier(c) => Brings(c) \in Client!Generation
  /\ c \notin overtaken /\ q.pc \in {"fetch", "refresh", "answer"} => q.sent.of = wanted \/ strayed
  /\ c \notin overtaken /\ q.pc = "response" /\ q.status # 302 => q.sent.of = wanted \/ strayed

\* Which tokens of a session are still on their way to the id worker, or from it, as
\* long as it has a family, none was lost and no grace has ended on one: the newest are with one
\* request or else in the cookie, and the others are those of a rotation in grace.
Open(c, s) == call[c].pc \in {"fetch", "refresh"} /\ call[c].sent.of = s
Brought(c, s) == Carrier(c) /\ call[c].sent.of = s
Tokens(s) ==
  /\ \A c \in Request : Open(c, s) => call[c].sent.generation \in {newest[s]} \cup graced[s]
  /\ cookie.of = s => cookie.generation \in {newest[s]} \cup graced[s]
  /\ cookie.of = s /\ cookie.generation # newest[s] => \E c \in Request : Brought(c, s)
  /\ \A c \in Request : Brought(c, s) =>
       /\ Brings(c) = newest[s]
       /\ cookie.of = s => cookie.generation # newest[s]
       /\ \A d \in Request \ {c} :
            ~Brought(d, s) /\ (Open(d, s) => call[d].sent.generation # newest[s])

SessionOK(s) ==
  /\ \A g \in graced[s] : g < newest[s]
  /\ s \notin begun => newest[s] = 0 /\ graced[s] = {}
  /\ s \in family \ (lost \cup slow) => Tokens(s)

CallsOK ==
  /\ \A c \in Request : CallOK(c)
  /\ \A c \in overtaken : call[c].pc # "quiet"
  /\ \A c, d \in Request : /\ c # d /\ call[c].pc = "exchange" /\ call[d].pc = "exchange"
                           => call[c].sent.of # call[d].sent.of
CookieOK ==
  /\ cookie.of \in begun \cup {"none"}
  /\ cookie # Client!None => cookie.of = wanted \/ strayed
ClientInv ==
  Client!BffTypeOK /\ CallsOK /\ CookieOK /\ \A s \in Session : SessionOK(s)

---------------------------------------------------------------------------
(* BffClient: steps of one request that neither refresh nor set a cookie.  *)

LEMMA NoneIsNoSession ==
  /\ "none" \notin Session /\ MaxGeneration \in Nat
  /\ Client!None.of = "none" /\ Client!None.generation = 0
  /\ \A k \in Client!Cookie : k.of \in Session /\ k.generation \in Client!Generation
                              /\ k # Client!None
BY PartsAssumption DEF Client!BffAssumption, Client!None, Client!Cookie

LEMMA ClientFacts ==
  ASSUME ClientInv
  PROVE  /\ call \in [Request -> Slot] /\ \A c \in Request : CallOK(c) /\ call[c] \in Slot
         /\ cookie \in Client!Cookie \cup {Client!None} /\ begun \subseteq Session
         /\ newest \in [Session -> Client!Generation]
         /\ graced \in [Session -> SUBSET Client!Generation]
BY DEF ClientInv, CallsOK, Client!BffTypeOK, Slot

LEMMA OtherCall ==
  ASSUME ClientInv, NEW d \in Request, call'[d] = call[d], begun \subseteq begun',
         call[d].pc = "exchange" => call[d].sent.of \notin begun',
         \/ /\ wanted' = wanted /\ (strayed => strayed')
            /\ d \in overtaken => d \in overtaken'
         \/ d \in overtaken' \/ call[d].pc = "quiet"
  PROVE  CallOK(d)'
<1>1. CallOK(d)
  BY DEF ClientInv, CallsOK
<1>2. (Carrier(d)' <=> Carrier(d)) /\ Brings(d)' = Brings(d)
  BY DEF Carrier, Brings
<1>3. call[d].pc = "quiet" => call[d].pc \notin {"fetch", "refresh", "answer", "response"}
  OBVIOUS
<1> QED BY <1>1, <1>2, <1>3 DEF CallOK

\* The tokens of a session after one request has moved, with nothing it brings.
LEMMA TokensStay ==
  ASSUME ClientInv, NEW c \in Request, NEW q \in Slot, call' = [call EXCEPT ![c] = q],
         UNCHANGED <<cookie, newest, graced>>,
         Carrier(c)' => Carrier(c) /\ q.sent = call[c].sent /\ Brings(c)' = Brings(c),
         Carrier(c) => Carrier(c)',
         q.pc \in {"fetch", "refresh"} =>
           q.sent = cookie \/ (Open(c, q.sent.of) /\ q.sent = call[c].sent),
         NEW s \in Session, Tokens(s)
  PROVE  Tokens(s)'
<1>1. call'[c] = q /\ \A d \in Request \ {c} : call'[d] = call[d]
  BY ClientFacts
<1>2. \A d \in Request : (Brought(d, s)' <=> Brought(d, s)) /\ (Brought(d, s) => Brings(d)' = Brings(d))
  <2> SUFFICES ASSUME NEW d \in Request
               PROVE  (Brought(d, s)' <=> Brought(d, s)) /\ (Brought(d, s) => Brings(d)' = Brings(d))
    OBVIOUS
  <2>1. CASE d = c
    BY <1>1, <2>1 DEF Brought
  <2>2. CASE d # c
    BY <1>1, <2>2 DEF Brought, Carrier, Brings
  <2> QED BY <2>1, <2>2
<1>3. \A d \in Request : Open(d, s)' =>
        \/ Open(d, s) /\ call'[d].sent = call[d].sent
        \/ cookie.of = s /\ call'[d].sent = cookie
  <2> SUFFICES ASSUME NEW d \in Request, Open(d, s)'
               PROVE  \/ Open(d, s) /\ call'[d].sent = call[d].sent
                      \/ cookie.of = s /\ call'[d].sent = cookie
    OBVIOUS
  <2>1. CASE d = c
    BY <1>1, <2>1 DEF Open
  <2>2. CASE d # c
    BY <1>1, <2>2 DEF Open
  <2> QED BY <2>1, <2>2
<1>4. \A d \in Request : Open(d, s)' => call'[d].sent.generation \in {newest[s]} \cup graced[s]
  BY <1>3 DEF Tokens
<1>5. \A d, e \in Request : Brought(d, s) /\ Open(e, s)' /\ e # d
                            => call'[e].sent.generation # newest[s]
  BY <1>3 DEF Tokens
<1>6. \A d \in Request : Brought(d, s)' =>
       /\ Brings(d)' = newest[s]
       /\ cookie.of = s => cookie.generation # newest[s]
       /\ \A e \in Request \ {d} :
            ~Brought(e, s)' /\ (Open(e, s)' => call'[e].sent.generation # newest[s])
  BY <1>2, <1>5 DEF Tokens
<1>7. cookie.of = s /\ cookie.generation # newest[s] => \E d \in Request : Brought(d, s)'
  BY <1>2 DEF Tokens
<1> QED BY <1>4, <1>6, <1>7 DEF Tokens

LEMMA QuietStep ==
  ASSUME ClientInv, NEW c \in Request, NEW q \in Slot, call' = [call EXCEPT ![c] = q],
         UNCHANGED <<cookie, begun, newest, expired, graced, Client!bffHistory>>,
         alive' \subseteq begun, family' \subseteq family,
         CallOK(c)', q.pc # "quiet",
         q.pc = "exchange" => \A d \in Request \ {c} :
           call[d].pc = "exchange" => call[d].sent.of # q.sent.of,
         Carrier(c)' => Carrier(c) /\ q.sent = call[c].sent /\ Brings(c)' = Brings(c),
         Carrier(c) => Carrier(c)',
         q.pc \in {"fetch", "refresh"} =>
           q.sent = cookie \/ (Open(c, q.sent.of) /\ q.sent = call[c].sent)
  PROVE  ClientInv'
<1>1. call'[c] = q /\ (\A d \in Request \ {c} : call'[d] = call[d]) /\ call' \in [Request -> Slot]
  BY ClientFacts
<1>2. UNCHANGED <<wanted, overtaken, strayed, lost, slow>>
  BY DEF Client!bffHistory
<1>3. Client!BffTypeOK'
  BY <1>1, <1>2 DEF ClientInv, Client!BffTypeOK, Slot
<1>4. \A d \in Request : CallOK(d)'
  BY <1>1, <1>2, OtherCall DEF ClientInv, CallsOK, CallOK
<1>5. CallsOK'
  <2>1. \A d \in overtaken' : call'[d].pc # "quiet"
    BY <1>1, <1>2 DEF ClientInv, CallsOK, Client!BffTypeOK
  <2>2. \A d, e \in Request : /\ d # e /\ call'[d].pc = "exchange" /\ call'[e].pc = "exchange"
                              => call'[d].sent.of # call'[e].sent.of
    BY <1>1 DEF ClientInv, CallsOK
  <2> QED BY <1>4, <2>1, <2>2 DEF CallsOK
<1>6. CookieOK'
  BY <1>2 DEF ClientInv, CookieOK
<1>7. ASSUME NEW s \in Session PROVE SessionOK(s)'
  BY <1>2, TokensStay DEF ClientInv, SessionOK
<1> QED BY <1>3, <1>5, <1>6, <1>7 DEF ClientInv

LEMMA RespondStep ==
  ASSUME ClientInv, NEW c \in Request, NEW status \in {200, 302, 401, 502, 503},
         NEW set \in {"keep", "set", "delete"}, Client!Respond(c, status, set)
  PROVE  \E q \in Slot : /\ call' = [call EXCEPT ![c] = q] /\ q.pc = "response"
                         /\ q.status = status /\ q.set = set /\ q.sent = call[c].sent
<1>1. PICK q : q = [call[c] EXCEPT !.pc = "response", !.said = "ok", !.status = status,
                                   !.set = set]
  OBVIOUS
<1>0. call \in [Request -> Slot] /\ call[c] \in Slot
  BY ClientFacts
<1>2. q.pc = "response" /\ q.status = status /\ q.set = set /\ q.sent = call[c].sent
  BY <1>0, <1>1 DEF Slot
<1>4. /\ q = [pc |-> "response", sent |-> call[c].sent, said |-> "ok", set |-> set,
                status |-> status]
      /\ call[c].sent \in Client!Cookie \cup {Client!None} /\ "ok" \in Client!Said
  BY <1>0, <1>1 DEF Slot, Client!Said
<1>5. q \in Slot
  BY <1>4 DEF Slot
<1>3. call' = [call EXCEPT ![c] = q]
  BY <1>0, <1>1 DEF Client!Respond, Slot
<1> QED BY <1>2, <1>3, <1>5

LEMMA StartStep ==
  ASSUME ClientInv, NEW c \in Request, NEW pc \in {"exchange", "fetch", "logout"},
         NEW sent \in Client!Cookie, Client!Start(c, pc, sent)
  PROVE  /\ call[c] = Client!Quiet /\ ~Carrier(c) /\ c \notin overtaken
         /\ \E q \in Slot : /\ call' = [call EXCEPT ![c] = q] /\ q.pc = pc
                            /\ q.sent = sent /\ q.set = "keep"
<1>1. call[c] = Client!Quiet /\ c \notin overtaken
  BY ClientFacts DEF Client!Start, Client!At, CallOK, ClientInv, CallsOK
<1>2. ~Carrier(c)
  BY <1>1 DEF Carrier, Client!Quiet
<1>3. PICK q : q = [call[c] EXCEPT !.pc = pc, !.sent = sent]
  OBVIOUS
<1>0. call \in [Request -> Slot] /\ call[c] \in Slot
  BY ClientFacts
<1>7. call[c].said = "ok" /\ call[c].set = "keep" /\ call[c].status = 200
  BY <1>1 DEF Client!Quiet
<1>4. q = [pc |-> pc, sent |-> sent, said |-> "ok", set |-> "keep", status |-> 200]
  BY <1>0, <1>3, <1>7 DEF Slot
<1>5. q \in Slot /\ q.pc = pc /\ q.sent = sent /\ q.set = "keep"
  BY <1>4 DEF Slot, Client!Said
<1>6. call' = [call EXCEPT ![c] = q]
  BY <1>0, <1>3 DEF Client!Start
<1> QED BY <1>1, <1>2, <1>5, <1>6

LEMMA StartInv ==
  ASSUME ClientInv, NEW c \in Request,
         \/ Client!StartCall(c) \/ Client!Logout(c)
         \/ \E s \in Session : Client!ReturnFromLogin(c, s)
  PROVE  ClientInv'
<1>1. CASE Client!StartCall(c) \/ Client!Logout(c)
  <2>1. PICK pc \in {"fetch", "logout"} :
          cookie # Client!None /\ Client!Start(c, pc, cookie)
    BY <1>1 DEF Client!StartCall, Client!Logout
  <2>2. cookie \in Client!Cookie /\ cookie.of \in begun /\ (cookie.of = wanted \/ strayed)
    BY <2>1, ClientFacts, NoneIsNoSession DEF ClientInv, CookieOK
  <2>3. UNCHANGED <<cookie, begun, alive, family, newest, expired, graced, Client!bffHistory>>
    BY <1>1 DEF Client!StartCall, Client!Logout, Client!idpVars
  <2>4. /\ ~Carrier(c) /\ c \notin overtaken
        /\ \E q \in Slot : /\ call' = [call EXCEPT ![c] = q] /\ q.pc = pc
                           /\ q.sent = cookie /\ q.set = "keep"
    BY <2>1, <2>2, StartStep
  <2>5. PICK q \in Slot : /\ call' = [call EXCEPT ![c] = q] /\ q.pc = pc
                          /\ q.sent = cookie /\ q.set = "keep"
    BY <2>4
  <2>6. call'[c] = q
    BY <2>5, ClientFacts
  <2>7. ~Carrier(c)'
    BY <2>5, <2>6 DEF Carrier
  <2>8. UNCHANGED <<wanted, overtaken, strayed>>
    BY <2>3 DEF Client!bffHistory
  <2>9. CallOK(c)'
    BY <2>2, <2>3, <2>5, <2>6, <2>7, <2>8 DEF CallOK
  <2>10. alive' \subseteq begun /\ family' \subseteq family
    BY <2>3 DEF ClientInv, Client!BffTypeOK
  <2> QED BY <2>3, <2>4, <2>5, <2>7, <2>9, <2>10, QuietStep
<1>2. CASE \E s \in Session : Client!ReturnFromLogin(c, s)
  <2>1. PICK s \in Session : Client!ReturnFromLogin(c, s)
    BY <1>2
  <2> DEFINE k == [of |-> s, generation |-> 0]
  <2>2. k \in Client!Cookie
    BY NoneIsNoSession DEF Client!Cookie, Client!Generation
  <2>3. /\ ~Carrier(c) /\ c \notin overtaken
        /\ \E q \in Slot : /\ call' = [call EXCEPT ![c] = q] /\ q.pc = "exchange"
                           /\ q.sent = k /\ q.set = "keep"
    BY <2>1, <2>2, StartStep DEF Client!ReturnFromLogin
  <2>4. PICK q \in Slot : /\ call' = [call EXCEPT ![c] = q] /\ q.pc = "exchange"
                          /\ q.sent = k /\ q.set = "keep"
    BY <2>3
  <2>5. call'[c] = q
    BY <2>4, ClientFacts
  <2>6. ~Carrier(c)'
    BY <2>4, <2>5 DEF Carrier
  <2>7. /\ UNCHANGED <<cookie, begun, alive, family, newest, expired, graced, Client!bffHistory>>
        /\ s \notin begun
        /\ \A d \in Request : call[d].pc = "exchange" => call[d].sent.of # s
    BY <2>1 DEF Client!ReturnFromLogin, Client!idpVars, Client!At, Client!Sent
  <2>8. CallOK(c)'
    BY <2>2, <2>4, <2>5, <2>6, <2>7 DEF CallOK
  <2>9. alive' \subseteq begun /\ family' \subseteq family
    BY <2>7 DEF ClientInv, Client!BffTypeOK
  <2>10. q.pc # "quiet" /\ q.pc \notin {"fetch", "refresh"} /\ q.sent.of = s
    BY <2>4
  <2>11. \A d \in Request \ {c} : call[d].pc = "exchange" => call[d].sent.of # q.sent.of
    BY <2>7, <2>10
  <2> QED BY <2>3, <2>4, <2>6, <2>7, <2>8, <2>9, <2>10, <2>11, QuietStep
<1> QED BY <1>1, <1>2

\* A response that leaves the cookie, or takes it away
LEMMA PlainResponse ==
  ASSUME ClientInv, NEW c \in Request, NEW status \in {200, 401, 502, 503},
         NEW set \in {"keep", "delete"}, Client!Respond(c, status, set),
         call[c].pc \in {"fetch", "refresh", "answer"}, ~Carrier(c),
         UNCHANGED <<cookie, begun, newest, expired, graced, Client!bffHistory>>,
         alive' \subseteq begun, family' \subseteq family
  PROVE  ClientInv'
<1>1. PICK q \in Slot : /\ call' = [call EXCEPT ![c] = q] /\ q.pc = "response"
                        /\ q.status = status /\ q.set = set /\ q.sent = call[c].sent
  BY RespondStep
<1>2. call'[c] = q /\ CallOK(c)
  BY <1>1, ClientFacts
<1>3. ~Carrier(c)'
  BY <1>1, <1>2 DEF Carrier
<1>4. UNCHANGED <<wanted, overtaken, strayed>>
  BY DEF Client!bffHistory
<1>5. CallOK(c)'
  BY <1>1, <1>2, <1>3, <1>4 DEF CallOK
<1> QED BY <1>1, <1>3, <1>5, QuietStep

LEMMA FetchInv ==
  ASSUME ClientInv, NEW c \in Request, Client!Fetch(c)
  PROVE  ClientInv'
<1>1. /\ call[c].pc = "fetch"
      /\ UNCHANGED <<cookie, begun, alive, family, newest, expired, graced, Client!bffHistory>>
  BY DEF Client!Fetch, Client!At, Client!idpVars
<1>2. ~Carrier(c) /\ alive' \subseteq begun /\ family' \subseteq family
  BY <1>1 DEF Carrier, ClientInv, Client!BffTypeOK
<1>3. CASE \E status \in {200, 502} : Client!Respond(c, status, "keep")
  BY <1>1, <1>2, <1>3, PlainResponse
<1>4. CASE Client!To(c, "refresh")
  <2>1. PICK q : q = [call[c] EXCEPT !.pc = "refresh"]
    OBVIOUS
  <2>2. q \in Slot /\ q.pc = "refresh" /\ q.sent = call[c].sent
    BY <2>1, ClientFacts DEF Slot
  <2>3. call' = [call EXCEPT ![c] = q]
    BY <1>4, <2>1, ClientFacts DEF Client!To, Slot
  <2>4. call'[c] = q /\ CallOK(c)
    BY <2>3, ClientFacts
  <2>5. ~Carrier(c)'
    BY <2>2, <2>4 DEF Carrier
  <2>6. UNCHANGED <<wanted, overtaken, strayed>>
    BY <1>1 DEF Client!bffHistory
  <2>7. CallOK(c)'
    BY <1>1, <2>2, <2>4, <2>5, <2>6 DEF CallOK
  <2>8. Open(c, q.sent.of)
    BY <1>1, <2>2 DEF Open
  <2> QED BY <1>1, <1>2, <2>2, <2>3, <2>5, <2>7, <2>8, QuietStep
<1> QED BY <1>3, <1>4 DEF Client!Fetch

LEMMA RevokeInv ==
  ASSUME ClientInv, NEW c \in Request, Client!Revoke(c)
  PROVE  ClientInv'
<1>1. /\ call[c].pc = "logout" /\ Client!Respond(c, 302, "delete")
      /\ alive' \subseteq alive /\ family' \subseteq family
      /\ UNCHANGED <<cookie, begun, newest, expired, graced, Client!bffHistory>>
  BY DEF Client!Revoke, Client!At, Client!LogoutResponse
<1>2. alive' \subseteq begun /\ family' \subseteq family
  BY <1>1 DEF ClientInv, Client!BffTypeOK
<1>3. PICK q \in Slot : /\ call' = [call EXCEPT ![c] = q] /\ q.pc = "response"
                        /\ q.status = 302 /\ q.set = "delete" /\ q.sent = call[c].sent
  BY <1>1, RespondStep
<1>4. call'[c] = q /\ CallOK(c) /\ ~Carrier(c)
  BY <1>1, <1>3, ClientFacts DEF Carrier
<1>5. ~Carrier(c)'
  BY <1>3, <1>4 DEF Carrier
<1>6. q.sent # Client!None
  BY <1>1, <1>3, <1>4, NoneIsNoSession DEF CallOK
<1>7. CallOK(c)'
  BY <1>1, <1>3, <1>4, <1>5, <1>6 DEF CallOK
<1> QED BY <1>1, <1>2, <1>3, <1>4, <1>5, <1>7, QuietStep

LEMMA ReactInv ==
  ASSUME ClientInv, NEW c \in Request, Client!React(c)
  PROVE  ClientInv'
<1>1. /\ call[c].pc = "answer" /\ call[c].said \in Client!Said
      /\ UNCHANGED <<cookie, begun, alive, family, newest, expired, graced, Client!bffHistory>>
  BY ClientFacts DEF Client!React, Client!At, Client!idpVars, Slot
<1>2. alive' \subseteq begun /\ family' \subseteq family
  BY <1>1 DEF ClientInv, Client!BffTypeOK
<1>3. CASE call[c].said = "ok"
  <2>1. PICK status \in {200, 401, 502} : Client!Respond(c, status, "set")
    BY <1>3 DEF Client!React, Client!StatusOf, Client!UseTokens
  <2>2. PICK q \in Slot : /\ call' = [call EXCEPT ![c] = q] /\ q.pc = "response"
                          /\ q.status = status /\ q.set = "set" /\ q.sent = call[c].sent
    BY <2>1, RespondStep
  <2>3. call'[c] = q /\ CallOK(c) /\ Carrier(c)
    BY <1>1, <1>3, <2>2, ClientFacts DEF Carrier
  <2>4. Carrier(c)' /\ Brings(c)' = Brings(c)
    BY <1>1, <2>2, <2>3 DEF Carrier, Brings
  <2>5. UNCHANGED <<wanted, overtaken, strayed>>
    BY <1>1 DEF Client!bffHistory
  <2>6. CallOK(c)'
    BY <1>1, <2>2, <2>3, <2>4, <2>5 DEF CallOK
  <2> QED BY <1>1, <1>2, <2>2, <2>3, <2>4, <2>6, QuietStep
<1>4. CASE call[c].said # "ok"
  <2>1. ~Carrier(c)
    BY <1>1, <1>4 DEF Carrier
  <2>2. PICK status \in {200, 401, 502, 503}, set \in {"keep", "delete"} :
          Client!Respond(c, status, set)
    BY <1>1, <1>4 DEF Client!React, Client!StatusOf, Client!Said
  <2> QED BY <1>1, <1>2, <2>1, <2>2, PlainResponse
<1> QED BY <1>3, <1>4

\* The answer to a refresh, other than that there are new tokens
LEMMA NoTokens ==
  ASSUME ClientInv, NEW c \in Request, NEW said \in Client!Said \ {"ok"},
         Client!Says(c, said), call[c].pc = "refresh",
         UNCHANGED <<cookie, begun, alive, newest, expired, graced, Client!bffHistory>>,
         family' \subseteq family
  PROVE  ClientInv'
<1>0. call \in [Request -> Slot] /\ call[c] \in Slot
  BY ClientFacts
<1>1. PICK q : q = [call[c] EXCEPT !.pc = "answer", !.said = said]
  OBVIOUS
<1>9. /\ q = [pc |-> "answer", sent |-> call[c].sent, said |-> said, set |-> call[c].set,
                status |-> call[c].status]
      /\ call[c].sent \in Client!Cookie \cup {Client!None}
      /\ call[c].set \in {"keep", "set", "delete"} /\ call[c].status \in {200, 302, 401, 502, 503}
  BY <1>0, <1>1 DEF Slot
<1>2. q \in Slot /\ q.pc = "answer" /\ q.sent = call[c].sent /\ q.said = said
  BY <1>9 DEF Slot
<1>3. call' = [call EXCEPT ![c] = q]
  BY <1>0, <1>1 DEF Client!Says
<1>4. call'[c] = q /\ CallOK(c) /\ ~Carrier(c)
  BY <1>3, ClientFacts DEF Carrier
<1>5. ~Carrier(c)'
  BY <1>2, <1>4 DEF Carrier
<1>6. UNCHANGED <<wanted, overtaken, strayed>>
  BY DEF Client!bffHistory
<1>7. CallOK(c)'
  BY <1>2, <1>4, <1>5, <1>6 DEF CallOK
<1>8. alive' \subseteq begun /\ family' \subseteq family
  BY DEF ClientInv, Client!BffTypeOK
<1> QED BY <1>2, <1>3, <1>4, <1>5, <1>7, <1>8, QuietStep

---------------------------------------------------------------------------
(* BffClient: rotation, login, and what the browser makes of a response.   *)

LEMMA CallsMove ==
  ASSUME ClientInv, NEW c \in Request, NEW q \in Slot, call' = [call EXCEPT ![c] = q],
         begun \subseteq begun',
         \A d \in Request \ {c} : call[d].pc = "exchange" => call[d].sent.of \notin begun',
         wanted' = wanted, strayed => strayed',
         overtaken' \subseteq overtaken, overtaken \ {c} \subseteq overtaken',
         q.pc = "quiet" => c \notin overtaken',
         q.pc # "exchange", CallOK(c)'
  PROVE  CallsOK'
<1>1. call'[c] = q /\ \A d \in Request \ {c} : call'[d] = call[d]
  BY ClientFacts
<1>2. \A d \in Request : CallOK(d)'
  BY <1>1, OtherCall
<1>3. \A d \in overtaken' : call'[d].pc # "quiet"
  BY <1>1 DEF ClientInv, CallsOK, Client!BffTypeOK
<1>4. \A d, e \in Request : /\ d # e /\ call'[d].pc = "exchange" /\ call'[e].pc = "exchange"
                            => call'[d].sent.of # call'[e].sent.of
  BY <1>1 DEF ClientInv, CallsOK
<1> QED BY <1>2, <1>3, <1>4 DEF CallsOK

\* The tokens of a session with which the request that moves has nothing to do
LEMMA TokensElsewhere ==
  ASSUME ClientInv, NEW c \in Request, NEW q \in Slot, call' = [call EXCEPT ![c] = q],
         NEW s \in Session, Tokens(s), newest'[s] = newest[s], graced'[s] = graced[s],
         ~Open(c, s), ~Open(c, s)', ~Brought(c, s), ~Brought(c, s)',
         cookie' = cookie \/ cookie'.of # s
  PROVE  Tokens(s)'
<1>1. \A d \in Request \ {c} : call'[d] = call[d]
  BY ClientFacts
<1>2. \A d \in Request : (Brought(d, s)' <=> Brought(d, s)) /\ (Brought(d, s) => Brings(d)' = Brings(d))
  BY <1>1 DEF Brought, Carrier, Brings
<1>3. \A d \in Request :
        (Open(d, s)' <=> Open(d, s))
          /\ (Open(d, s) => call'[d].sent.generation = call[d].sent.generation)
  BY <1>1 DEF Open
<1>4. \A d \in Request : Open(d, s)' => call'[d].sent.generation \in {newest'[s]} \cup graced'[s]
  BY <1>3 DEF Tokens
<1>5. \A d \in Request : Brought(d, s)' =>
       /\ Brings(d)' = newest'[s]
       /\ cookie'.of = s => cookie'.generation # newest'[s]
       /\ \A e \in Request \ {d} :
            ~Brought(e, s)' /\ (Open(e, s)' => call'[e].sent.generation # newest'[s])
  BY <1>2, <1>3 DEF Tokens
<1>6. cookie'.of = s => cookie'.generation \in {newest'[s]} \cup graced'[s]
  BY DEF Tokens
<1>7. cookie'.of = s /\ cookie'.generation # newest'[s] => \E d \in Request : Brought(d, s)'
  BY <1>2 DEF Tokens
<1> QED BY <1>4, <1>5, <1>6, <1>7 DEF Tokens

\* Of a request that has no tokens
LEMMA SessionsElsewhere ==
  ASSUME ClientInv, NEW c \in Request, NEW q \in Slot, call' = [call EXCEPT ![c] = q],
         UNCHANGED <<begun, family, newest, graced, lost, slow>>,
         q.pc \notin {"fetch", "refresh"}, call[c].pc \notin {"fetch", "refresh"},
         ~Carrier(c), ~Carrier(c)',
         cookie' = cookie \/ cookie' = Client!None
  PROVE  \A s \in Session : SessionOK(s)'
<1> SUFFICES ASSUME NEW s \in Session PROVE SessionOK(s)'
  OBVIOUS
<1>1. SessionOK(s) /\ call'[c] = q
  BY ClientFacts DEF ClientInv
<1>2. ~Open(c, s) /\ ~Open(c, s)' /\ ~Brought(c, s) /\ ~Brought(c, s)'
  BY <1>1 DEF Open, Brought
<1>3. cookie' = cookie \/ cookie'.of # s
  BY NoneIsNoSession
<1> QED BY <1>1, <1>2, <1>3, TokensElsewhere DEF SessionOK

\* Nothing moves but access tokens, sessions and families.
LEMMA ClientFrame ==
  ASSUME ClientInv, Client!BffTypeOK', family' \subseteq family,
         UNCHANGED <<cookie, call, begun, newest, graced, Client!bffHistory>>
  PROVE  ClientInv'
<1>1. UNCHANGED <<wanted, overtaken, strayed, lost, slow>>
  BY DEF Client!bffHistory
<1>2. \A c \in Request : CallOK(c)'
  BY <1>1 DEF ClientInv, CallsOK, CallOK, Carrier, Brings
<1>3. CallsOK' /\ CookieOK'
  BY <1>1, <1>2 DEF ClientInv, CallsOK, CookieOK
<1>4. ASSUME NEW s \in Session, Tokens(s) PROVE Tokens(s)'
  BY <1>4 DEF Tokens, Open, Brought, Carrier, Brings
<1>5. \A s \in Session : SessionOK(s)'
  BY <1>1, <1>4 DEF ClientInv, SessionOK
<1> QED BY <1>3, <1>5 DEF ClientInv

LEMMA ExpireInv ==
  ASSUME ClientInv, NEW s \in Session, Client!Expire(s)
  PROVE  ClientInv'
<1>1. UNCHANGED <<cookie, call, begun, alive, family, newest, graced, Client!bffHistory>>
  BY DEF Client!Expire, Client!browserVars
<1>2. UNCHANGED <<wanted, overtaken, strayed, lost, slow>>
  BY <1>1 DEF Client!bffHistory
<1>3. expired' \in [Session -> 0..(MaxGeneration + 1)]
  BY NoneIsNoSession DEF Client!Expire, ClientInv, Client!BffTypeOK, Client!Generation
<1>4. Client!BffTypeOK'
  BY <1>1, <1>2, <1>3 DEF ClientInv, Client!BffTypeOK
<1> QED BY <1>1, <1>4, ClientFrame

\* With its rows a family also leaves the graces of its rotations, and nothing depends
\* on them any more.
LEMMA EndElsewhereInv ==
  ASSUME ClientInv, NEW s \in Session, Client!EndElsewhere(s)
  PROVE  ClientInv'
<1>1. UNCHANGED <<cookie, call, begun, newest, expired, Client!bffHistory>>
  BY DEF Client!EndElsewhere, Client!browserVars
<1>2. UNCHANGED <<wanted, overtaken, strayed, lost, slow>>
  BY <1>1 DEF Client!bffHistory
<1>3. /\ alive' \subseteq alive /\ family' \subseteq family
      /\ graced' = graced \/ (s \notin family' /\ graced' = [graced EXCEPT ![s] = {}])
  BY DEF Client!EndElsewhere
<1>4. Client!BffTypeOK'
  BY <1>1, <1>2, <1>3 DEF ClientInv, Client!BffTypeOK
<1>5. CASE graced' = graced
  BY <1>1, <1>3, <1>4, <1>5, ClientFrame
<1>6. CASE s \notin family' /\ graced' = [graced EXCEPT ![s] = {}]
  <2>1. \A c \in Request : CallOK(c)'
    BY <1>1, <1>2 DEF ClientInv, CallsOK, CallOK, Carrier, Brings
  <2>2. CallsOK' /\ CookieOK'
    BY <1>1, <1>2, <2>1 DEF ClientInv, CallsOK, CookieOK
  <2>3. ASSUME NEW x \in Session \ {s} PROVE SessionOK(x)'
    <3>1. SessionOK(x) /\ graced'[x] = graced[x]
      BY <1>6, ClientFacts DEF ClientInv
    <3>2. Tokens(x) => Tokens(x)'
      BY <1>1, <3>1 DEF Tokens, Open, Brought, Carrier, Brings
    <3> QED BY <1>1, <1>2, <1>3, <3>1, <3>2 DEF SessionOK
  <2>4. SessionOK(s)'
    <3>1. SessionOK(s) /\ graced'[s] = {}
      BY <1>6, ClientFacts DEF ClientInv
    <3> QED BY <1>1, <1>6, <3>1 DEF SessionOK
  <2> QED BY <1>4, <2>2, <2>3, <2>4 DEF ClientInv
<1> QED BY <1>3, <1>5, <1>6

LEMMA EndGraceInv ==
  ASSUME ClientInv, NEW s \in Session, Client!EndGrace(s)
  PROVE  ClientInv'
<1>1. /\ graced' = [graced EXCEPT ![s] = {}] /\ slow' \subseteq slow \cup {s}
      /\ slow \subseteq slow'
      /\ UNCHANGED <<cookie, call, begun, alive, family, newest, expired,
                     wanted, overtaken, strayed, lost>>
  BY DEF Client!EndGrace, Client!browserVars
<1>2. Client!BffTypeOK'
  BY <1>1 DEF ClientInv, Client!BffTypeOK
<1>3. \A c \in Request : CallOK(c)'
  BY <1>1 DEF ClientInv, CallsOK, CallOK, Carrier, Brings
<1>4. CallsOK' /\ CookieOK'
  BY <1>1, <1>3 DEF ClientInv, CallsOK, CookieOK
<1>5. ASSUME NEW x \in Session \ {s} PROVE SessionOK(x)'
  <2>1. SessionOK(x) /\ graced'[x] = graced[x]
    BY <1>1, ClientFacts DEF ClientInv
  <2>2. Tokens(x) => Tokens(x)'
    BY <1>1, <2>1 DEF Tokens, Open, Brought, Carrier, Brings
  <2> QED BY <1>1, <2>1, <2>2 DEF SessionOK
<1>6. SessionOK(s)'
  <2>1. SessionOK(s) /\ graced'[s] = {}
    BY <1>1, ClientFacts DEF ClientInv
  <2>2. ASSUME s \in family \ (lost \cup slow') PROVE Tokens(s)'
    <3>1. \A c \in Request : call[c].sent.of = s => call[c].pc = "quiet"
      BY <1>1, <2>2 DEF Client!EndGrace, Client!InFlight, Client!At, Client!Sent
    <3>2. \A c \in Request : ~Brought(c, s) /\ ~Open(c, s)
      BY <3>1 DEF Brought, Carrier, Open
    <3>3. \A c \in Request : ~Brought(c, s)' /\ ~Open(c, s)'
      BY <1>1, <3>2 DEF Brought, Carrier, Open
    <3>4. Tokens(s)
      BY <1>1, <2>1, <2>2 DEF SessionOK
    <3>5. cookie.of = s => cookie.generation = newest[s]
      BY <3>2, <3>4 DEF Tokens
    <3> QED BY <1>1, <3>3, <3>5 DEF Tokens
  <2> QED BY <1>1, <2>1, <2>2 DEF SessionOK
<1> QED BY <1>2, <1>4, <1>5, <1>6 DEF ClientInv

\* A rotation takes the newest tokens of its session; unless its answer is lost, the
\* request has the next ones.
LEMMA RotateInv ==
  ASSUME ClientInv, NEW c \in Request, call[c].pc = "refresh", Client!Rotate(c),
         UNCHANGED <<cookie, begun, alive, expired, wanted, overtaken, strayed, slow>>
  PROVE  ClientInv'
<1>0. PICK k \in Client!Cookie, s \in Session : k = call[c].sent /\ s = k.of
  <2>1. call[c].sent \in Client!Cookie /\ call[c].sent.of \in Session
    BY ClientFacts, NoneIsNoSession DEF CallOK
  <2> QED BY <2>1
<1>1. /\ k.of \in family /\ k.generation = newest[s] /\ k.generation < MaxGeneration
      /\ newest' = [newest EXCEPT ![s] = @ + 1]
      /\ graced' = [graced EXCEPT ![s] = @ \cup {k.generation}]
      /\ family' = family
  BY <1>0 DEF Client!Rotate, Client!Sent
<1>2. /\ k \in Client!Cookie /\ s \in Session /\ k.generation \in 0..MaxGeneration
      /\ s \in begun /\ CallOK(c) /\ ~Carrier(c) /\ Open(c, s) /\ MaxGeneration \in Nat
  BY <1>0, ClientFacts, NoneIsNoSession DEF CallOK, Carrier, Open, Client!Generation
<1>3. /\ newest'[s] = newest[s] + 1 /\ newest[s] \in Nat
      /\ graced'[s] = graced[s] \cup {newest[s]}
      /\ \A x \in Session \ {s} : newest'[x] = newest[x] /\ graced'[x] = graced[x]
      /\ newest' \in [Session -> Client!Generation]
      /\ graced' \in [Session -> SUBSET Client!Generation]
  BY <1>1, <1>2, ClientFacts DEF Client!Generation
<1>4. ASSUME NEW q \in Slot, call' = [call EXCEPT ![c] = q],
             q.pc \in {"answer", "response"}, q.sent = k, CallOK(c)',
             \A x \in Session : ~Open(c, x)' /\ (Brought(c, x)' => x = s),
             lost \subseteq lost', lost' \subseteq lost \cup {s},
             s \in lost' \/ (Carrier(c)' /\ Brings(c)' = newest[s] + 1)
      PROVE  ClientInv'
  <2>1. call'[c] = q /\ (\A d \in Request \ {c} : call'[d] = call[d]) /\ call' \in [Request -> Slot]
    BY <1>4, ClientFacts
  <2>2. Client!BffTypeOK'
    BY <1>1, <1>2, <1>3, <1>4, <2>1 DEF ClientInv, Client!BffTypeOK, Slot
  <2>3. CallsOK'
    BY <1>4, CallsMove DEF ClientInv, CallsOK, CallOK
  <2>4. CookieOK'
    BY DEF ClientInv, CookieOK
  <2>5. ASSUME NEW x \in Session \ {s} PROVE SessionOK(x)'
    <3>1. SessionOK(x) /\ newest'[x] = newest[x] /\ graced'[x] = graced[x]
      BY <1>3 DEF ClientInv
    <3>2. ~Open(c, x) /\ ~Brought(c, x) /\ ~Open(c, x)' /\ ~Brought(c, x)'
      BY <1>0, <1>4 DEF Open, Brought
    <3> QED BY <1>1, <1>4, <3>1, <3>2, TokensElsewhere DEF SessionOK
  <2>6. SessionOK(s)'
    <3>1. SessionOK(s)
      BY <1>2 DEF ClientInv
    <3>2. \A g \in graced'[s] : g < newest'[s]
      BY <1>2, <1>3, <3>1, ClientFacts DEF SessionOK, Client!Generation
    <3>3. ASSUME s \notin lost' \cup slow PROVE Tokens(s)'
      <4>1. Tokens(s)
        BY <1>0, <1>1, <1>4, <3>1, <3>3 DEF SessionOK
      <4>2. \A d \in Request : ~Brought(d, s)
        BY <1>0, <1>1, <1>2, <4>1 DEF Tokens, Brought
      <4>3. \A d \in Request \ {c} :
              /\ ~Brought(d, s)'
              /\ Open(d, s)' => Open(d, s) /\ call'[d].sent = call[d].sent
        BY <2>1, <4>2 DEF Brought, Carrier, Open
      <4>4. \A g \in {newest[s]} \cup graced[s] : g \in graced'[s] /\ g # newest'[s]
        BY <1>3, <3>2
      <4>5. \A d \in Request : Open(d, s)' =>
              call'[d].sent.generation \in graced'[s] /\ call'[d].sent.generation # newest'[s]
        BY <1>4, <4>1, <4>3, <4>4 DEF Tokens
      <4>6. cookie.of = s => cookie.generation \in graced'[s] /\ cookie.generation # newest'[s]
        BY <4>1, <4>4 DEF Tokens
      <4>7. Brought(c, s)' /\ Brings(c)' = newest'[s]
        BY <1>0, <1>3, <1>4, <2>1, <3>3 DEF Brought
      <4> QED BY <4>3, <4>5, <4>6, <4>7 DEF Tokens
    <3> QED BY <1>2, <3>2, <3>3 DEF SessionOK
  <2> QED BY <2>2, <2>3, <2>4, <2>5, <2>6 DEF ClientInv
<1>5. CASE Client!Says(c, "ok") /\ lost' = lost
  <2>0. call \in [Request -> Slot] /\ call[c] \in Slot
    BY ClientFacts
  <2>1. PICK q : q = [call[c] EXCEPT !.pc = "answer", !.said = "ok"]
    OBVIOUS
  <2>2. /\ q = [pc |-> "answer", sent |-> k, said |-> "ok", set |-> call[c].set,
                status |-> call[c].status]
        /\ k \in Client!Cookie \cup {Client!None} /\ "ok" \in Client!Said
        /\ call[c].set \in {"keep", "set", "delete"}
        /\ call[c].status \in {200, 302, 401, 502, 503}
    BY <1>0, <2>0, <2>1 DEF Slot, Client!Said
  <2>3. q \in Slot /\ q.pc = "answer" /\ q.said = "ok" /\ q.sent = k
    BY <2>2 DEF Slot
  <2>4. call' = [call EXCEPT ![c] = q]
    BY <1>5, <2>0, <2>1 DEF Client!Says
  <2>5. call'[c] = q
    BY <2>0, <2>4
  <2>6. Carrier(c)' /\ Brings(c)' = newest[s] + 1 /\ Brings(c)' \in Client!Generation
    BY <1>1, <1>2, <2>3, <2>5 DEF Carrier, Brings, Client!Generation
  <2>7. CallOK(c)'
    BY <1>0, <1>2, <2>3, <2>5, <2>6 DEF CallOK
  <2>8. \A x \in Session : ~Open(c, x)' /\ (Brought(c, x)' => x = s)
    BY <1>0, <2>3, <2>5 DEF Open, Brought
  <2> QED BY <1>4, <1>5, <2>3, <2>4, <2>6, <2>7, <2>8
<1>6. CASE Client!Respond(c, 502, "keep") /\ lost' = lost \cup {s}
  <2>1. PICK q \in Slot : /\ call' = [call EXCEPT ![c] = q] /\ q.pc = "response"
                          /\ q.status = 502 /\ q.set = "keep" /\ q.sent = k
    BY <1>0, <1>6, RespondStep
  <2>2. call'[c] = q
    BY <2>1, ClientFacts
  <2>3. ~Carrier(c)'
    BY <2>1, <2>2 DEF Carrier
  <2>4. CallOK(c)'
    BY <1>0, <1>2, <2>1, <2>2, <2>3 DEF CallOK
  <2>5. \A x \in Session : ~Open(c, x)' /\ ~Brought(c, x)'
    BY <2>1, <2>2, <2>3 DEF Open, Brought
  <2> QED BY <1>4, <1>6, <2>1, <2>4, <2>5
<1> QED BY <1>0, <1>5, <1>6 DEF Client!Rotate, Client!Sent

LEMMA RefreshInv ==
  ASSUME ClientInv, NEW c \in Request, Client!Refresh(c)
  PROVE  ClientInv'
<1>1. /\ call[c].pc = "refresh"
      /\ UNCHANGED <<cookie, begun, alive, expired, wanted, overtaken, strayed, slow>>
  BY DEF Client!Refresh, Client!At
<1>2. CASE Client!Rotate(c)
  BY <1>1, <1>2, RotateInv
<1>3. CASE Client!Refuse(c) \/ Client!Trouble(c)
  <2>1. /\ UNCHANGED <<newest, graced, lost>> /\ family' \subseteq family
        /\ \E said \in {"rotated", "refused", "limited", "error"} : Client!Says(c, said)
    BY <1>3 DEF Client!Refuse, Client!Trouble
  <2>2. PICK said \in Client!Said \ {"ok"} : Client!Says(c, said)
    BY <2>1 DEF Client!Said
  <2> QED BY <1>1, <2>1, <2>2, NoTokens DEF Client!bffHistory
<1> QED BY <1>2, <1>3 DEF Client!Refresh

\* The session that begins is nobody else's yet.
LEMMA ExchangeInv ==
  ASSUME ClientInv, NEW c \in Request, Client!Exchange(c)
  PROVE  ClientInv'
<1>0. PICK k \in Client!Cookie, s \in Session : k = call[c].sent /\ s = k.of
  <2>1. call[c].sent \in Client!Cookie /\ call[c].sent.of \in Session
    BY ClientFacts, NoneIsNoSession DEF CallOK, Client!Exchange, Client!At
  <2> QED BY <2>1
<1>1. /\ call[c].pc = "exchange" /\ begun' = begun \cup {s} /\ alive' = alive \cup {s}
      /\ family' = family \cup {s}
      /\ UNCHANGED <<cookie, newest, expired, graced, wanted, overtaken, strayed, lost, slow>>
  BY <1>0 DEF Client!Exchange, Client!At, Client!Sent, Client!bffHistory
<1>2. /\ k \in Client!Cookie /\ s \in Session /\ k.generation = 0 /\ s \notin begun
      /\ k # Client!None
  BY <1>0, <1>1, ClientFacts, NoneIsNoSession DEF CallOK
<1>3. \A d \in Request \ {c} : call[d].pc = "exchange" => call[d].sent.of \notin begun'
  BY <1>0, <1>1, ClientFacts DEF ClientInv, CallsOK, CallOK
<1>4. \A d \in Request : /\ ~Open(d, s) /\ ~Brought(d, s)
  BY <1>0, <1>1, <1>2, ClientFacts, NoneIsNoSession DEF Open, Brought, Carrier, CallOK
<1>5. cookie.of # s
  BY <1>2, NoneIsNoSession DEF ClientInv, CookieOK
<1>6. ASSUME NEW q \in Slot, call' = [call EXCEPT ![c] = q], q.pc = "response", CallOK(c)',
             \A x \in Session : Brought(c, x)' => x = s /\ Brings(c)' = 0
      PROVE  ClientInv'
  <2>1. call'[c] = q /\ (\A d \in Request \ {c} : call'[d] = call[d]) /\ call' \in [Request -> Slot]
    BY <1>6, ClientFacts
  <2>2. Client!BffTypeOK'
    BY <1>1, <1>2, <2>1 DEF ClientInv, Client!BffTypeOK, Slot
  <2>3. CallsOK'
    BY <1>1, <1>3, <1>6, CallsMove
  <2>4. CookieOK'
    BY <1>1 DEF ClientInv, CookieOK
  <2>5. ASSUME NEW x \in Session \ {s} PROVE SessionOK(x)'
    <3>1. SessionOK(x) /\ newest'[x] = newest[x] /\ graced'[x] = graced[x]
      BY <1>1 DEF ClientInv
    <3>2. ~Open(c, x) /\ ~Brought(c, x) /\ ~Open(c, x)' /\ ~Brought(c, x)'
      BY <1>1, <1>6, <2>1 DEF Open, Brought, Carrier
    <3> QED BY <1>1, <1>6, <3>1, <3>2, TokensElsewhere DEF SessionOK
  <2>6. SessionOK(s)'
    <3>1. newest[s] = 0 /\ graced[s] = {}
      BY <1>2 DEF ClientInv, SessionOK
    <3>2. \A d \in Request : ~Open(d, s)' /\ (d # c => ~Brought(d, s)')
      BY <1>4, <1>6, <2>1 DEF Open, Brought, Carrier
    <3>3. Tokens(s)'
      BY <1>1, <1>2, <1>5, <1>6, <3>1, <3>2 DEF Tokens
    <3> QED BY <1>1, <3>1, <3>3 DEF SessionOK
  <2> QED BY <2>2, <2>3, <2>4, <2>5, <2>6 DEF ClientInv
<1>7. CASE Client!Respond(c, 302, "set")
  <2>1. PICK q \in Slot : /\ call' = [call EXCEPT ![c] = q] /\ q.pc = "response"
                          /\ q.status = 302 /\ q.set = "set" /\ q.sent = k
    BY <1>0, <1>7, RespondStep
  <2>2. call'[c] = q
    BY <2>1, ClientFacts
  <2>3. Brings(c)' = 0 /\ 0 \in Client!Generation
    BY <2>1, <2>2, NoneIsNoSession DEF Brings, Client!Generation
  <2>4. CallOK(c)'
    <3>1. /\ call'[c].pc = "response" /\ call'[c].status = 302 /\ call'[c].set = "set"
          /\ call'[c].sent = k /\ k # Client!None /\ k.of \in begun'
      BY <1>0, <1>1, <1>2, <2>1, <2>2
    <3>2. Brings(c)' \in Client!Generation
      BY <2>3
    <3> QED BY <3>1, <3>2 DEF CallOK
  <2>5. \A x \in Session : Brought(c, x)' => x = s
    BY <1>0, <2>1, <2>2 DEF Brought
  <2> QED BY <1>6, <2>1, <2>3, <2>4, <2>5
<1>8. CASE call' = [call EXCEPT ![c] = [Client!Quiet EXCEPT !.pc = "response", !.status = 302]]
  <2>1. PICK q : q = [Client!Quiet EXCEPT !.pc = "response", !.status = 302]
    OBVIOUS
  <2>2. q = [pc |-> "response", sent |-> Client!None, said |-> "ok", set |-> "keep",
             status |-> 302]
    BY <2>1 DEF Client!Quiet
  <2>3. /\ q \in Slot /\ q.pc = "response" /\ q.sent = Client!None /\ q.set = "keep"
        /\ q.status = 302
    BY <2>2 DEF Slot, Client!Said
  <2>4. call' = [call EXCEPT ![c] = q] /\ call'[c] = q
    BY <1>8, <2>1, ClientFacts
  <2>5. ~Carrier(c)'
    BY <2>3, <2>4 DEF Carrier
  <2>6. CallOK(c)'
    BY <2>3, <2>4, <2>5, NoneIsNoSession DEF CallOK
  <2>7. \A x \in Session : ~Brought(c, x)'
    BY <2>5 DEF Brought
  <2> QED BY <1>6, <2>3, <2>4, <2>6, <2>7
<1> QED BY <1>7, <1>8 DEF Client!Exchange

LEMMA QuietSlot ==
  /\ Client!Quiet \in Slot /\ Client!Quiet.pc = "quiet" /\ Client!Quiet.set = "keep"
  /\ \A c \in Request : call'[c] = Client!Quiet => CallOK(c)' /\ ~Carrier(c)'
<1>1. Client!Quiet \in Slot /\ Client!Quiet.pc = "quiet" /\ Client!Quiet.set = "keep"
  BY DEF Client!Quiet, Slot, Client!Said
<1>2. ASSUME NEW c \in Request, call'[c] = Client!Quiet PROVE CallOK(c)' /\ ~Carrier(c)'
  BY <1>1, <1>2 DEF CallOK, Carrier
<1> QED BY <1>1, <1>2

\* The tokens that a response brings become the cookie's.
LEMMA SetCookie ==
  ASSUME ClientInv, NEW c \in Request, Carrier(c), call' = [call EXCEPT ![c] = Client!Quiet],
         UNCHANGED <<begun, family, newest, graced, lost, slow>>,
         cookie'.of = call[c].sent.of, cookie'.generation = Brings(c)
  PROVE  \A s \in Session : SessionOK(s)'
<1> SUFFICES ASSUME NEW s \in Session PROVE SessionOK(s)'
  OBVIOUS
<1>1. /\ SessionOK(s) /\ call'[c] = Client!Quiet /\ ~Carrier(c)'
      /\ \A d \in Request \ {c} : call'[d] = call[d]
  BY ClientFacts, QuietSlot DEF ClientInv
<1>2. call'[c].pc = "quiet"
  BY <1>1, QuietSlot
<1>3. call[c].pc \notin {"fetch", "refresh"}
  BY DEF Carrier
<1>4. CASE cookie'.of = s
  <2>1. ASSUME Tokens(s) PROVE Tokens(s)'
    <3>1. Brought(c, s)
      BY <1>4 DEF Brought
    <3>2. cookie'.generation = newest[s]
      BY <2>1, <3>1 DEF Tokens
    <3>3. \A d \in Request : ~Brought(d, s)'
      BY <1>1, <2>1, <3>1 DEF Tokens, Brought, Carrier
    <3>4. \A d \in Request : Open(d, s)' => Open(d, s) /\ call'[d].sent = call[d].sent
      BY <1>1, <1>2 DEF Open
    <3> QED BY <2>1, <3>2, <3>3, <3>4 DEF Tokens
  <2> QED BY <1>1, <2>1 DEF SessionOK
<1>5. CASE cookie'.of # s
  <2>1. ~Open(c, s) /\ ~Open(c, s)' /\ ~Brought(c, s) /\ ~Brought(c, s)'
    BY <1>1, <1>2, <1>3, <1>5 DEF Open, Brought
  <2> QED BY <1>1, <1>5, <2>1, QuietSlot, TokensElsewhere DEF SessionOK
<1> QED BY <1>4, <1>5

LEMMA DeliverInv ==
  ASSUME ClientInv, NEW c \in Request, Client!Deliver(c)
  PROVE  ClientInv'
<1> DEFINE q == call[c]
<1>1. /\ q.pc = "response" /\ q \in Slot /\ CallOK(c)
      /\ call' = [call EXCEPT ![c] = Client!Quiet]
      /\ UNCHANGED <<begun, alive, family, newest, expired, graced, lost, slow>>
  BY ClientFacts DEF Client!Deliver, Client!At, Client!idpVars
<1>2. /\ call'[c] = Client!Quiet /\ \A d \in Request \ {c} : call'[d] = call[d]
      /\ call' \in [Request -> Slot]
  BY <1>1, ClientFacts, QuietSlot
<1>3. Carrier(c) <=> q.set = "set"
  BY <1>1 DEF Carrier
<1>4. q.set = "set" => /\ q.sent \in Client!Cookie /\ q.sent # Client!None
                       /\ q.sent.of \in begun /\ q.sent.of # "none"
                       /\ Brings(c) \in Client!Generation
  BY <1>1, <1>3, NoneIsNoSession DEF CallOK
<1>5. q.set = "set" => cookie' = [of |-> q.sent.of, generation |-> Brings(c)]
  BY <1>1 DEF Client!Deliver, Client!New, Client!Sent, Brings
<1>6. q.set = "keep" => cookie' = cookie
  BY <1>1 DEF Client!Deliver
<1>7. q.set = "delete" => cookie' = Client!None
  BY <1>1 DEF Client!Deliver
<1>8. q.set \in {"keep", "set", "delete"}
  BY <1>1 DEF Slot
<1>9. \A s \in Session : SessionOK(s)'
  <2>1. CASE q.set = "set"
    <3>1. cookie'.of = q.sent.of /\ cookie'.generation = Brings(c)
      BY <1>5, <2>1
    <3> QED BY <1>1, <1>3, <2>1, <3>1, SetCookie
  <2>2. CASE q.set # "set"
    <3>1. ~Carrier(c) /\ ~Carrier(c)'
      BY <1>2, <1>3, <2>2, QuietSlot
    <3> QED BY <1>1, <1>6, <1>7, <1>8, <2>2, <3>1, QuietSlot, SessionsElsewhere
  <2> QED BY <2>1, <2>2
<1>10. cookie' \in Client!Cookie \cup {Client!None} /\ cookie'.of \in begun \cup {"none"}
  <2>1. q.set = "set" => cookie' \in Client!Cookie /\ cookie'.of \in begun
    BY <1>4, <1>5, NoneIsNoSession DEF Client!Cookie
  <2>2. q.set = "keep" => cookie' \in Client!Cookie \cup {Client!None}
                          /\ cookie'.of \in begun \cup {"none"}
    BY <1>6, ClientFacts DEF ClientInv, CookieOK
  <2>3. q.set = "delete" => cookie' = Client!None /\ cookie'.of = "none"
    BY <1>7, NoneIsNoSession
  <2> QED BY <1>8, <2>1, <2>2, <2>3
<1>11. CASE q.status = 302 /\ q.sent # Client!None
  <2>1. /\ wanted' = IF q.set = "set" THEN q.sent.of ELSE "none"
        /\ overtaken' = Client!InFlight \ {c} /\ strayed' = FALSE
    BY <1>11 DEF Client!Deliver, Client!Choose, Client!Sent
  <2>2. q.set \in {"set", "delete"}
    BY <1>1, <1>11 DEF CallOK
  <2>3. ASSUME NEW d \in Request PROVE CallOK(d)'
    <3>1. CASE d = c
      BY <1>2, <3>1, QuietSlot
    <3>2. CASE d # c
      <4>1. d \in overtaken' \/ call[d].pc = "quiet"
        BY <2>1, <3>2 DEF Client!InFlight, Client!At
      <4>2. call[d].pc = "exchange" => call[d].sent.of \notin begun'
        BY <1>1, ClientFacts DEF CallOK
      <4> QED BY <1>1, <1>2, <3>2, <4>1, <4>2, OtherCall
    <3> QED BY <3>1, <3>2
  <2>4. CallsOK'
    <3>1. \A d \in overtaken' : call'[d].pc # "quiet"
      BY <1>2, <2>1 DEF Client!InFlight, Client!At
    <3>2. \A d, e \in Request : /\ d # e /\ call'[d].pc = "exchange" /\ call'[e].pc = "exchange"
                                => call'[d].sent.of # call'[e].sent.of
      BY <1>2, QuietSlot DEF ClientInv, CallsOK
    <3> QED BY <2>3, <3>1, <3>2 DEF CallsOK
  <2>5. cookie' # Client!None => cookie'.of = wanted'
    BY <1>5, <1>7, <2>1, <2>2
  <2>6. CookieOK'
    BY <1>1, <1>10, <2>5 DEF CookieOK
  <2>7. wanted' \in Session \cup {"none"} /\ overtaken' \subseteq Request
    BY <1>4, <2>1, <2>2, NoneIsNoSession DEF Client!InFlight
  <2>8. Client!BffTypeOK'
    BY <1>1, <1>2, <1>10, <2>1, <2>7 DEF ClientInv, Client!BffTypeOK, Slot
  <2> QED BY <1>9, <2>4, <2>6, <2>8 DEF ClientInv
<1>12. CASE ~(q.status = 302 /\ q.sent # Client!None)
  <2>1. /\ overtaken' = overtaken \ {c} /\ wanted' = wanted
        /\ strayed' = (strayed \/ (c \in overtaken /\ q.set = "set"))
    BY <1>12 DEF Client!Deliver, Client!Sent
  <2>2. q.set = "set" => q.status # 302
    BY <1>1, <1>12 DEF CallOK
  <2>3. CallOK(c)'
    BY <1>2, QuietSlot
  <2>4. \A d \in Request \ {c} : call[d].pc = "exchange" => call[d].sent.of \notin begun'
    BY <1>1, ClientFacts DEF CallOK
  <2>5. CallsOK'
    BY <1>1, <2>1, <2>3, <2>4, QuietSlot, CallsMove
  <2>6. cookie' # Client!None => cookie'.of = wanted' \/ strayed'
    <3>1. CASE q.set = "set"
      <4>1. cookie'.of = q.sent.of /\ q.status # 302
        BY <1>5, <2>2, <3>1
      <4>2. c \notin overtaken => q.sent.of = wanted \/ strayed
        BY <1>1, <4>1 DEF CallOK
      <4> QED BY <2>1, <3>1, <4>1, <4>2
    <3>2. CASE q.set # "set"
      BY <1>6, <1>7, <1>8, <2>1, <3>2 DEF ClientInv, CookieOK
    <3> QED BY <3>1, <3>2
  <2>7. CookieOK'
    BY <1>1, <1>10, <2>6 DEF CookieOK
  <2>8. Client!BffTypeOK'
    BY <1>1, <1>2, <1>10, <2>1 DEF ClientInv, Client!BffTypeOK, Slot
  <2> QED BY <1>9, <2>5, <2>7, <2>8 DEF ClientInv
<1> QED BY <1>11, <1>12

LEMMA LoseInv ==
  ASSUME ClientInv, NEW c \in Request, Client!Lose(c)
  PROVE  ClientInv'
<1> DEFINE q == call[c]
<1>1. /\ q.pc = "response" /\ q \in Slot /\ CallOK(c)
      /\ call' = [call EXCEPT ![c] = Client!Quiet] /\ overtaken' = overtaken \ {c}
      /\ lost' = IF q.set = "set" THEN lost \cup {q.sent.of} ELSE lost
      /\ UNCHANGED <<cookie, begun, alive, family, newest, expired, graced, wanted, strayed,
                     slow>>
  BY ClientFacts DEF Client!Lose, Client!At, Client!Sent, Client!idpVars
<1>2. /\ call'[c] = Client!Quiet /\ \A d \in Request \ {c} : call'[d] = call[d]
      /\ call' \in [Request -> Slot]
  BY <1>1, ClientFacts, QuietSlot
<1>3. q.set = "set" => Carrier(c) /\ q.sent.of \in Session
  BY <1>1, NoneIsNoSession DEF Carrier, CallOK
<1>4. CallOK(c)' /\ ~Carrier(c)'
  BY <1>2, QuietSlot
<1>5. \A d \in Request \ {c} : call[d].pc = "exchange" => call[d].sent.of \notin begun'
  BY <1>1, ClientFacts DEF CallOK
<1>6. CallsOK'
  BY <1>1, <1>4, <1>5, QuietSlot, CallsMove
<1>7. CookieOK'
  BY <1>1 DEF ClientInv, CookieOK
<1>8. ASSUME NEW s \in Session PROVE SessionOK(s)'
  <2>1. SessionOK(s) /\ newest'[s] = newest[s] /\ graced'[s] = graced[s]
    BY <1>1 DEF ClientInv
  <2>2. ASSUME s \notin lost' PROVE ~Open(c, s) /\ ~Open(c, s)' /\ ~Brought(c, s) /\ ~Brought(c, s)'
    BY <1>1, <1>2, <1>4, <2>2, QuietSlot DEF Open, Brought, Carrier
  <2>3. lost \subseteq lost'
    BY <1>1
  <2> QED BY <1>1, <2>1, <2>2, <2>3, QuietSlot, TokensElsewhere DEF SessionOK
<1>9. Client!BffTypeOK'
  BY <1>1, <1>2, <1>3 DEF ClientInv, Client!BffTypeOK, Slot
<1> QED BY <1>6, <1>7, <1>8, <1>9 DEF ClientInv

LEMMA ClientInvInit ==
  ASSUME Client!BffInit
  PROVE  ClientInv
<1>1. /\ \A c \in Request : call[c] = Client!Quiet
      /\ cookie = Client!None /\ begun = {} /\ wanted = "none" /\ overtaken = {}
      /\ \A s \in Session : newest[s] = 0 /\ graced[s] = {}
  BY DEF Client!BffInit
<1>2. \A c \in Request : call[c].pc = "quiet" /\ call[c].set = "keep"
  BY <1>1, QuietSlot
<1>3. Client!BffTypeOK
  <2>1. call \in [Request -> Slot]
    BY QuietSlot DEF Client!BffInit
  <2>2. 0 \in Client!Generation /\ 0 \in 0..(MaxGeneration + 1)
    BY NoneIsNoSession DEF Client!Generation
  <2>3. /\ newest \in [Session -> Client!Generation]
        /\ expired \in [Session -> 0..(MaxGeneration + 1)]
        /\ graced \in [Session -> SUBSET Client!Generation]
    BY <2>2 DEF Client!BffInit
  <2> QED BY <2>1, <2>3 DEF Client!BffInit, Client!BffTypeOK, Slot
<1>4. CallsOK
  BY <1>1, <1>2 DEF CallsOK, CallOK, Carrier
<1>5. CookieOK
  BY <1>1, NoneIsNoSession DEF CookieOK
<1>6. \A s \in Session : SessionOK(s)
  BY <1>1, <1>2, NoneIsNoSession DEF SessionOK, Tokens, Open, Brought, Carrier
<1> QED BY <1>3, <1>4, <1>5, <1>6 DEF ClientInv

LEMMA ClientInvNext ==
  ASSUME ClientInv, Client!BffNext
  PROVE  ClientInv'
BY StartInv, ExchangeInv, FetchInv, RefreshInv, ReactInv, RevokeInv, DeliverInv, LoseInv,
   ExpireInv, EndGraceInv, EndElsewhereInv DEF Client!BffNext

---------------------------------------------------------------------------
(* Behaviours of MCSessions: BffClient.                                    *)

ClientWorld == world = "client" => ClientInv

LEMMA ClientSteps ==
  [SessionsNext]_sessionsVars
    => world' = world /\ (world = "client" => Client!BffNext \/ UNCHANGED bffVars)
BY DEF SessionsNext, sessionsVars

LEMMA ClientHolds == SessionsSpec => []ClientWorld
<1>1. SessionsInit => ClientWorld
  BY ClientInvInit DEF SessionsInit, ClientWorld
<1>2. ClientWorld /\ [SessionsNext]_sessionsVars => ClientWorld'
  <2> SUFFICES ASSUME ClientWorld, [SessionsNext]_sessionsVars, world' = "client"
               PROVE  ClientInv'
    BY DEF ClientWorld
  <2>1. ClientInv /\ (Client!BffNext \/ UNCHANGED bffVars)
    BY ClientSteps DEF ClientWorld
  <2>2. CASE UNCHANGED bffVars
    <3>1. /\ UNCHANGED <<cookie, call, begun, newest, graced, Client!bffHistory>>
          /\ family' \subseteq family
      BY <2>2 DEF bffVars, Client!bffHistory
    <3>2. Client!BffTypeOK'
      BY <2>1, <2>2 DEF bffVars, ClientInv, Client!BffTypeOK
    <3> QED BY <2>1, <3>1, <3>2, ClientFrame
  <2> QED BY <2>1, <2>2, ClientInvNext
<1> QED BY <1>1, <1>2, PTL DEF SessionsSpec, sessionsVars

\* The browser is in the session it logged into last, and in none after a logout that
\* was answered, unless the response of a request from before has put another cookie
\* back (bff.ts, bff-auth-factory.ts).
THEOREM CookieFollowsLogins == SessionsSpec => []CookieFollows
<1>1. ClientWorld => CookieFollows
  BY DEF ClientWorld, CookieFollows, ClientInv, CookieOK, Client!CookieFollows
<1> QED BY <1>1, ClientHolds, PTL

\* Only the refresh of a request that is refused takes a family's tokens away by it.
LEMMA ReuseStep ==
  ASSUME ClientInv, Client!BffNext, NEW c \in Request, call[c].pc = "refresh",
         call'[c] # call[c], call[c].sent.of \in family \ family'
  PROVE  call[c].sent.of \in lost \cup slow
<1> DEFINE k == call[c].sent
<1>1. Client!Refresh(c)
  <2>1. \A d \in Request \ {c} : ~Client!Refresh(d)
    <3> SUFFICES ASSUME NEW d \in Request \ {c}, Client!Refresh(d) PROVE FALSE
      OBVIOUS
    <3>1. \E x : call' = [call EXCEPT ![d] = x] \/ \E y, z : call' = [call EXCEPT ![d].pc = y, ![d].said = z]
      BY DEF Client!Refresh, Client!Rotate, Client!Refuse, Client!Trouble, Client!Says,
             Client!Respond
    <3> QED BY <3>1, ClientFacts
  <2>2. family' # family
    OBVIOUS
  <2>3. \A d \in Request : ~Client!Revoke(d)
    <3> SUFFICES ASSUME NEW d \in Request, Client!Revoke(d) PROVE FALSE
      OBVIOUS
    <3>1. call[d].pc = "logout" /\ d # c
      BY DEF Client!Revoke, Client!At
    <3>2. \E x : call' = [call EXCEPT ![d] = x]
      BY DEF Client!Revoke, Client!LogoutResponse, Client!Respond
    <3> QED BY <3>1, <3>2, ClientFacts
  <2>4. \A d \in Request :
          ~Client!Exchange(d) /\ ~Client!StartCall(d) /\ ~Client!Fetch(d) /\ ~Client!React(d)
          /\ ~Client!Logout(d) /\ ~Client!Deliver(d) /\ ~Client!Lose(d)
          /\ \A s \in Session : ~Client!ReturnFromLogin(d, s)
    BY <2>2 DEF Client!Exchange, Client!StartCall, Client!Fetch, Client!React, Client!Logout,
       Client!Deliver, Client!Lose, Client!ReturnFromLogin, Client!idpVars
  <2>5. \A s \in Session : ~Client!Expire(s) /\ ~Client!EndGrace(s) /\ ~Client!EndElsewhere(s)
    BY DEF Client!Expire, Client!EndGrace, Client!EndElsewhere, Client!browserVars
  <2> QED BY <2>1, <2>3, <2>4, <2>5 DEF Client!BffNext
<1>2. k.of \in family /\ k.generation \notin graced[k.of] /\ k.generation # newest[k.of]
  BY <1>1 DEF Client!Refresh, Client!Rotate, Client!Refuse, Client!Trouble, Client!Sent
<1>3. k.of \in Session
  BY ClientFacts, NoneIsNoSession DEF CallOK
<1>4. ~Tokens(k.of)
  BY <1>2 DEF Tokens, Open
<1> QED BY <1>2, <1>3, <1>4 DEF ClientInv, SessionOK

\* However many tabs refresh at once, the id worker takes a token for used twice, and
\* ends the session, only if a refreshed cookie was lost on its way or a request of the
\* session was still under way when the grace of a rotation ended (bff.ts, refresh.ts).
THEOREM ReuseHasACause == SessionsSpec => ReuseForCause
<1>1. ClientWorld /\ [SessionsNext]_sessionsVars
        => [world = "client" => Client!ReuseJustified]_bffVars
  <2> SUFFICES ASSUME ClientWorld, [SessionsNext]_sessionsVars, world = "client",
                      ~UNCHANGED bffVars
               PROVE  Client!ReuseJustified
    OBVIOUS
  <2>1. ClientInv /\ Client!BffNext
    BY ClientSteps DEF ClientWorld
  <2> QED BY <2>1, ReuseStep DEF Client!ReuseJustified, Client!At, Client!Sent
<1> QED BY <1>1, ClientHolds, PTL DEF SessionsSpec, sessionsVars, ReuseForCause

---------------------------------------------------------------------------
(* AuditPages: the invariant.                                              *)

Reply == [pc : {"spare", "asked"}, of : Audit!Investigation, rows : Int, total : Int,
           torn : BOOLEAN]

AuditShape ==
  /\ entries \in [Key \cup {NONE} -> Nat] /\ \A f \in Key : entries[f] <= MaxEntries
  /\ url \in Audit!Investigation /\ invalid \in BOOLEAN
  /\ fetch \in [Request -> Reply] /\ newestFetch \in Request \cup {Audit!Nothing}
  /\ view \in [is : {"blank", "malformed", "rows", "refused", "failed"}, by : Reply]

\* What is under way is the investigation of the URL, and nothing is shown meanwhile.
NewestIsTheUrl ==
  /\ newestFetch # Audit!Nothing =>
       /\ fetch[newestFetch].pc = "asked" /\ fetch[newestFetch].of = url
       /\ ~invalid /\ view.is = "blank"
  /\ invalid => view.is = "malformed"

\* The rows and the total of an answer agree with each other, and the one that was
\* read first with what is there now, unless an entry was written between the two.
Whole(a) == ~a.torn =>
  /\ Audit!Read(a) => Audit!Consistent(a)
  /\ a.rows # Audit!Unread /\ a.total = Audit!Unread =>
       a.rows = Audit!OnPage(Audit!Count(a.of.filter), a.of.offset)
  /\ a.rows = Audit!Unread /\ a.total # Audit!Unread => a.total = Audit!Count(a.of.filter)

AuditInv ==
  /\ AuditShape /\ NewestIsTheUrl /\ \A x \in Request : Whole(fetch[x]) /\ fetch[x].total >= -1
  /\ Audit!ShowsInvestigation

LEMMA AuditFacts ==
  /\ NONE \notin Key /\ Audit!Nothing \notin Request
  /\ AuditPage \in Nat \ {0} /\ MaxEntries \in Nat
BY PartsAssumption DEF Audit!AuditAssumption, Audit!Nothing

LEMMA UnreadIsNoCount ==
  Audit!Unread \in Int /\ Audit!Unread >= -1 /\ Audit!Unread \notin Nat
BY DEF Audit!Unread

LEMMA SpareReply ==
  /\ Audit!Spare = [pc |-> "spare", of |-> [filter |-> NONE, offset |-> 0],
                    rows |-> Audit!Unread, total |-> Audit!Unread, torn |-> FALSE]
  /\ Audit!Spare \in Reply /\ Whole(Audit!Spare) /\ Audit!Spare.total >= -1
<1>1. 0 \in Audit!Offset
  <2>1. 0 \in 0..MaxEntries /\ 0 = 0 * AuditPage
    BY AuditFacts
  <2> QED BY <2>1 DEF Audit!Offset
<1>2. Audit!Spare = [pc |-> "spare", of |-> [filter |-> NONE, offset |-> 0],
                     rows |-> Audit!Unread, total |-> Audit!Unread, torn |-> FALSE]
  BY DEF Audit!Spare
<1>3. Audit!Spare \in Reply
  BY <1>1, <1>2, UnreadIsNoCount DEF Reply, Audit!Investigation
<1>4. Audit!Spare.total >= -1
  BY <1>2, UnreadIsNoCount
<1> QED BY <1>2, <1>3, <1>4 DEF Whole, Audit!Read

\* A load of an investigation, as of the URL it is for.
LEMMA LoadStep ==
  ASSUME AuditInv, NEW x \in Request, NEW i \in Audit!Investigation,
         Audit!Load(x, i), url' = i, ~invalid', UNCHANGED entries, invalid' \in BOOLEAN
  PROVE  AuditInv'
<1>1. PICK q : /\ q = [pc |-> "asked", of |-> i, rows |-> Audit!Unread,
                        total |-> Audit!Unread, torn |-> FALSE]
               /\ fetch' = [fetch EXCEPT ![x] = q]
  <2> PICK q : q = [Audit!Spare EXCEPT !.pc = "asked", !.of = i]
    OBVIOUS
  <2>1. q = [pc |-> "asked", of |-> i, rows |-> Audit!Unread, total |-> Audit!Unread,
             torn |-> FALSE]
    BY SpareReply
  <2>2. fetch' = [fetch EXCEPT ![x] = q]
    BY DEF Audit!Load
  <2> QED BY <2>1, <2>2
<1>2. /\ q.pc = "asked" /\ q.of = i /\ q.torn = FALSE
      /\ q.rows = Audit!Unread /\ q.total = Audit!Unread
  BY <1>1
<1>3. q \in Reply /\ Whole(q)' /\ q.total >= -1
  <2>1. q \in Reply
    BY <1>1, UnreadIsNoCount DEF Reply
  <2>2. q.total >= -1
    BY <1>2, UnreadIsNoCount
  <2> QED BY <1>2, <2>1, <2>2 DEF Whole, Audit!Read
<1>4. newestFetch' = x /\ view' = Audit!Blank
  BY DEF Audit!Load
<1>5. fetch'[x] = q /\ fetch' \in [Request -> Reply]
      /\ \A y \in Request \ {x} : fetch'[y] = fetch[y]
  BY <1>1, <1>3 DEF AuditInv, AuditShape
<1>6. /\ view'.is = "blank"
      /\ view' \in [is : {"blank", "malformed", "rows", "refused", "failed"}, by : Reply]
  BY <1>4, SpareReply DEF Audit!Blank
<1>7. AuditShape'
  BY <1>4, <1>5, <1>6 DEF AuditInv, AuditShape
<1>8. NewestIsTheUrl'
  BY <1>1, <1>4, <1>5, <1>6 DEF NewestIsTheUrl
<1>9. \A y \in Request : Whole(fetch[y])' /\ fetch'[y].total >= -1
  <2> SUFFICES ASSUME NEW y \in Request PROVE Whole(fetch[y])' /\ fetch'[y].total >= -1
    OBVIOUS
  <2>1. CASE y = x
    BY <1>3, <1>5, <2>1
  <2>2. CASE y # x
    BY <1>5, <2>2 DEF AuditInv, Whole, Audit!Count
  <2> QED BY <2>1, <2>2
<1>10. Audit!ShowsInvestigation'
  BY <1>6 DEF Audit!ShowsInvestigation
<1> QED BY <1>7, <1>8, <1>9, <1>10 DEF AuditInv

LEMMA NavigateStep ==
  ASSUME AuditInv, NEW x \in Request, NEW i \in Audit!Investigation, Audit!Navigate(x, i)
  PROVE  AuditInv'
<1>1. CASE newestFetch # Audit!Nothing /\ i = url
  <2>1. UNCHANGED <<entries, url, invalid, fetch, newestFetch, view>>
    <3>1. invalid = FALSE
      BY <1>1 DEF AuditInv, AuditShape, NewestIsTheUrl
    <3> QED BY <1>1, <3>1 DEF Audit!Navigate
  <2> QED BY <2>1 DEF AuditInv, AuditShape, NewestIsTheUrl, Whole, Audit!Count,
          Audit!ShowsInvestigation
<1>2. CASE ~(newestFetch # Audit!Nothing /\ i = url)
  BY <1>2, LoadStep DEF Audit!Navigate
<1> QED BY <1>1, <1>2

\* One half of an answer is read.
LEMMA ReadStep ==
  ASSUME AuditInv, NEW x \in Request, NEW q \in Reply, fetch' = [fetch EXCEPT ![x] = q],
         fetch[x].pc = "asked" => q.pc = "asked" /\ q.of = fetch[x].of,
         fetch[x].pc = "asked" \/ x # newestFetch,
         Whole(q), q.total >= -1, UNCHANGED <<entries, url, invalid, newestFetch, view>>
  PROVE  AuditInv'
<1>1. fetch'[x] = q /\ fetch' \in [Request -> Reply]
      /\ \A y \in Request \ {x} : fetch'[y] = fetch[y]
  BY DEF AuditInv, AuditShape
<1>2. AuditShape'
  BY <1>1 DEF AuditInv, AuditShape
<1>3. NewestIsTheUrl'
  BY <1>1 DEF AuditInv, AuditShape, NewestIsTheUrl
<1>4. \A y \in Request : Whole(fetch[y])' /\ fetch'[y].total >= -1
  <2> SUFFICES ASSUME NEW y \in Request PROVE Whole(fetch[y])' /\ fetch'[y].total >= -1
    OBVIOUS
  <2>1. CASE y = x
    BY <1>1, <2>1 DEF Whole, Audit!Count
  <2>2. CASE y # x
    BY <1>1, <2>2 DEF AuditInv, Whole, Audit!Count
  <2> QED BY <2>1, <2>2
<1>5. Audit!ShowsInvestigation'
  BY DEF AuditInv, Audit!ShowsInvestigation
<1> QED BY <1>2, <1>3, <1>4, <1>5 DEF AuditInv

LEMMA SelectEntriesStep ==
  ASSUME AuditInv, NEW x \in Request, Audit!SelectEntries(x)
  PROVE  AuditInv'
<1> PICK q, n : /\ n = Audit!OnPage(Audit!Count(fetch[x].of.filter), fetch[x].of.offset)
                /\ q = [fetch[x] EXCEPT !.rows = n]
  OBVIOUS
<1>1. /\ fetch[x].pc = "asked" /\ fetch[x].rows = Audit!Unread
      /\ fetch' = [fetch EXCEPT ![x] = q]
      /\ UNCHANGED <<entries, url, invalid, newestFetch, view>>
  BY DEF Audit!SelectEntries
<1>2. /\ fetch[x] \in Reply /\ Whole(fetch[x]) /\ fetch[x].total >= -1
      /\ entries[fetch[x].of.filter] \in Nat /\ fetch[x].of.offset \in Int
  <2>1. fetch[x] \in Reply /\ fetch[x].of \in Audit!Investigation
    BY DEF AuditInv, AuditShape, Reply
  <2>2. fetch[x].of.filter \in Key \cup {NONE} /\ fetch[x].of.offset \in Audit!Offset
    BY <2>1 DEF Audit!Investigation
  <2>3. fetch[x].of.offset \in Int
    BY <2>2, AuditFacts DEF Audit!Offset
  <2> QED BY <2>1, <2>2, <2>3 DEF AuditInv, AuditShape
<1>3. n \in Int
  BY <1>2, AuditFacts DEF Audit!OnPage, Audit!Count
<1>4. /\ q \in Reply /\ q.pc = "asked" /\ q.of = fetch[x].of /\ q.rows = n
      /\ q.total = fetch[x].total /\ q.torn = fetch[x].torn
  BY <1>1, <1>2, <1>3 DEF Reply
<1>5. Whole(q)
  BY <1>1, <1>2, <1>4 DEF Whole, Audit!Read, Audit!Consistent
<1> QED BY <1>1, <1>2, <1>4, <1>5, ReadStep

LEMMA CountEntriesStep ==
  ASSUME AuditInv, NEW x \in Request, Audit!CountEntries(x)
  PROVE  AuditInv'
<1> PICK q, n : n = Audit!Count(fetch[x].of.filter) /\ q = [fetch[x] EXCEPT !.total = n]
  OBVIOUS
<1>1. /\ fetch[x].pc = "asked" /\ fetch[x].total = Audit!Unread
      /\ fetch' = [fetch EXCEPT ![x] = q]
      /\ UNCHANGED <<entries, url, invalid, newestFetch, view>>
  BY DEF Audit!CountEntries
<1>2. fetch[x] \in Reply /\ Whole(fetch[x]) /\ n \in Nat
  <2>1. fetch[x] \in Reply /\ fetch[x].of \in Audit!Investigation
    BY DEF AuditInv, AuditShape, Reply
  <2>2. fetch[x].of.filter \in Key \cup {NONE}
    BY <2>1 DEF Audit!Investigation
  <2> QED BY <2>1, <2>2 DEF AuditInv, AuditShape, Audit!Count
<1>3. /\ q \in Reply /\ q.pc = "asked" /\ q.of = fetch[x].of /\ q.total = n
      /\ q.rows = fetch[x].rows /\ q.torn = fetch[x].torn
  BY <1>1, <1>2 DEF Reply
<1>4. Whole(q)
  BY <1>1, <1>2, <1>3 DEF Whole, Audit!Read, Audit!Consistent
<1>5. q.total >= -1
  BY <1>2, <1>3
<1> QED BY <1>1, <1>3, <1>4, <1>5, ReadStep

LEMMA DiscardStep ==
  ASSUME AuditInv, NEW x \in Request, Audit!Discard(x)
  PROVE  AuditInv'
<1>1. /\ x # newestFetch /\ fetch' = [fetch EXCEPT ![x] = Audit!Spare]
      /\ UNCHANGED <<entries, url, invalid, newestFetch, view>>
  BY DEF Audit!Discard, Audit!Outdated
<1>2. fetch'[x] = Audit!Spare /\ fetch' \in [Request -> Reply] /\ Audit!Spare.total >= -1
      /\ \A y \in Request \ {x} : fetch'[y] = fetch[y]
  BY <1>1, SpareReply DEF AuditInv, AuditShape
<1>3. AuditShape'
  BY <1>1, <1>2 DEF AuditInv, AuditShape
<1>4. NewestIsTheUrl'
  BY <1>1, <1>2 DEF AuditInv, AuditShape, NewestIsTheUrl
<1>5. \A y \in Request : Whole(fetch[y])' /\ fetch'[y].total >= -1
  <2> SUFFICES ASSUME NEW y \in Request PROVE Whole(fetch[y])' /\ fetch'[y].total >= -1
    OBVIOUS
  <2>1. CASE y = x
    BY <1>1, <1>2, <2>1, SpareReply DEF Whole, Audit!Count
  <2>2. CASE y # x
    BY <1>1, <1>2, <2>2 DEF AuditInv, Whole, Audit!Count
  <2> QED BY <2>1, <2>2
<1>6. Audit!ShowsInvestigation'
  BY <1>1 DEF AuditInv, Audit!ShowsInvestigation
<1> QED BY <1>3, <1>4, <1>5, <1>6 DEF AuditInv

\* The latest answer, or that there is none, is shown.
LEMMA SettleStep ==
  ASSUME AuditInv, NEW x \in Request, NEW is \in {"rows", "refused", "failed"},
         Audit!Settle(x, is), x = newestFetch, is = "refused" => fetch[x].torn
  PROVE  AuditInv'
<1>1. /\ view' = [is |-> is, by |-> fetch[x]] /\ newestFetch' = Audit!Nothing
      /\ fetch' = [fetch EXCEPT ![x] = Audit!Spare] /\ UNCHANGED <<entries, url, invalid>>
  BY DEF Audit!Settle
<1>2. fetch[x] \in Reply /\ fetch[x].of = url /\ ~invalid
  BY AuditFacts DEF AuditInv, AuditShape, NewestIsTheUrl
<1>3. fetch'[x] = Audit!Spare /\ fetch' \in [Request -> Reply] /\ Audit!Spare.total >= -1
      /\ \A y \in Request \ {x} : fetch'[y] = fetch[y]
  BY <1>1, SpareReply DEF AuditInv, AuditShape
<1>4. AuditShape'
  BY <1>1, <1>2, <1>3 DEF AuditInv, AuditShape
<1>5. NewestIsTheUrl'
  BY <1>1, <1>2 DEF NewestIsTheUrl
<1>6. \A y \in Request : Whole(fetch[y])' /\ fetch'[y].total >= -1
  <2> SUFFICES ASSUME NEW y \in Request PROVE Whole(fetch[y])' /\ fetch'[y].total >= -1
    OBVIOUS
  <2>1. CASE y = x
    BY <1>1, <1>3, <2>1, SpareReply DEF Whole, Audit!Count
  <2>2. CASE y # x
    BY <1>1, <1>3, <2>2 DEF AuditInv, Whole, Audit!Count
  <2> QED BY <2>1, <2>2
<1>7. Audit!ShowsInvestigation'
  BY <1>1, <1>2 DEF Audit!ShowsInvestigation
<1> QED BY <1>4, <1>5, <1>6, <1>7 DEF AuditInv

LEMMA LoadsOfTheUrl ==
  ASSUME AuditInv, NEW x \in Request
  PROVE  /\ Audit!OpenAudit(x) => AuditInv'
         /\ Audit!RetryAudit(x) => AuditInv'
         /\ \A i \in Audit!Investigation : Audit!GoBack(x, i) => AuditInv'
<1>1. url \in Audit!Investigation /\ invalid \in BOOLEAN /\ (invalid => view.is = "malformed")
  BY DEF AuditInv, AuditShape, NewestIsTheUrl
<1>2. ASSUME Audit!OpenAudit(x) PROVE AuditInv'
  <2>1. ~invalid
    BY <1>1, <1>2 DEF Audit!OpenAudit, Audit!Blank
  <2> QED BY <1>1, <1>2, <2>1, LoadStep DEF Audit!OpenAudit
<1>3. ASSUME Audit!RetryAudit(x) PROVE AuditInv'
  BY <1>1, <1>3, LoadStep DEF Audit!RetryAudit
<1>4. ASSUME NEW i \in Audit!Investigation, Audit!GoBack(x, i) PROVE AuditInv'
  BY <1>4, LoadStep DEF Audit!GoBack
<1> QED BY <1>2, <1>3, <1>4

LEMMA Navigations ==
  ASSUME AuditInv, NEW x \in Request
  PROVE  /\ \A f \in Key \cup {NONE} : Audit!Submit(x, f) => AuditInv'
         /\ \A o \in Audit!Offset : Audit!TurnPage(x, o) => AuditInv'
<1>1. ASSUME NEW f \in Key \cup {NONE}, Audit!Submit(x, f) PROVE AuditInv'
  <2>1. [filter |-> f, offset |-> 0] \in Audit!Investigation
    <3>1. 0 \in 0..MaxEntries /\ 0 = 0 * AuditPage
      BY AuditFacts
    <3> QED BY <3>1 DEF Audit!Offset, Audit!Investigation
  <2> QED BY <1>1, <2>1, NavigateStep DEF Audit!Submit
<1>2. ASSUME NEW o \in Audit!Offset, Audit!TurnPage(x, o) PROVE AuditInv'
  <2>1. [url EXCEPT !.offset = o] \in Audit!Investigation
    BY DEF AuditInv, AuditShape, Audit!Investigation
  <2> QED BY <1>2, <2>1, NavigateStep DEF Audit!TurnPage
<1> QED BY <1>1, <1>2

LEMMA SubmitMalformedStep ==
  ASSUME AuditInv, Audit!SubmitMalformed
  PROVE  AuditInv'
<1>1. /\ invalid' = TRUE /\ newestFetch' = Audit!Nothing /\ UNCHANGED <<entries, url, fetch>>
      /\ view' = [is |-> "malformed", by |-> Audit!Spare]
  BY DEF Audit!SubmitMalformed, Audit!Blank
<1>2. AuditShape'
  BY <1>1, SpareReply DEF AuditInv, AuditShape
<1>3. NewestIsTheUrl'
  BY <1>1 DEF NewestIsTheUrl
<1>4. \A y \in Request : Whole(fetch[y])' /\ fetch'[y].total >= -1
  BY <1>1 DEF AuditInv, Whole, Audit!Count
<1>5. Audit!ShowsInvestigation'
  BY <1>1 DEF Audit!ShowsInvestigation
<1> QED BY <1>2, <1>3, <1>4, <1>5 DEF AuditInv

LEMMA LastPageIsAPage ==
  ASSUME NEW total \in Nat, NEW o \in Audit!Offset, o >= total
  PROVE  Audit!LastPage(total) \in Audit!Offset
<1>1. PICK n \in 0..MaxEntries : o = n * AuditPage
  BY DEF Audit!Offset
<1>2. CASE total = 0
  <2>1. 0 \in 0..MaxEntries /\ 0 = 0 * AuditPage
    BY AuditFacts
  <2> QED BY <1>2, <2>1 DEF Audit!LastPage, Audit!Offset
<1>3. CASE total # 0
  <2> DEFINE k == (total - 1) \div AuditPage
  <2>1. k \in Nat /\ k * AuditPage <= total - 1
    BY <1>3, AuditFacts
  <2>2. k * AuditPage < n * AuditPage
    BY <1>1, <2>1, AuditFacts
  <2>3. k < n
    BY <2>1, <2>2, AuditFacts
  <2>4. k \in 0..MaxEntries
    BY <2>1, <2>3, AuditFacts
  <2> QED BY <1>3, <2>4 DEF Audit!LastPage, Audit!Offset
<1> QED BY <1>2, <1>3

LEMMA AnswersStep ==
  ASSUME AuditInv, NEW x \in Request
  PROVE  /\ Audit!ShowRows(x) => AuditInv'
         /\ Audit!RefusePage(x) => AuditInv'
         /\ Audit!FailFetch(x) => AuditInv'
         /\ Audit!GoToLastPage(x) => AuditInv'
<1>1. ASSUME Audit!ShowRows(x) PROVE AuditInv'
  BY <1>1, SettleStep DEF Audit!ShowRows, Audit!Outdated
<1>2. ASSUME Audit!FailFetch(x) PROVE AuditInv'
  BY <1>2, SettleStep DEF Audit!FailFetch, Audit!Outdated
<1>3. ASSUME Audit!RefusePage(x) PROVE AuditInv'
  <2>1. /\ x = newestFetch /\ Audit!Settle(x, "refused")
        /\ Audit!Read(fetch[x]) /\ ~Audit!Consistent(fetch[x])
    BY <1>3 DEF Audit!RefusePage, Audit!Outdated
  <2>2. fetch[x].torn
    BY <2>1 DEF AuditInv, Whole
  <2> QED BY <2>1, <2>2, SettleStep
<1>4. ASSUME Audit!GoToLastPage(x) PROVE AuditInv'
  <2> DEFINE o == Audit!LastPage(fetch[x].total)
             i == [fetch[x].of EXCEPT !.offset = o]
  <2>1. /\ Audit!Read(fetch[x]) /\ Audit!PastTheEnd(fetch[x]) /\ url' = i /\ invalid' = FALSE
        /\ Audit!Load(x, i) /\ UNCHANGED entries
    BY <1>4 DEF Audit!GoToLastPage
  <2>2. fetch[x] \in Reply /\ fetch[x].of \in Audit!Investigation /\ fetch[x].total >= -1
    BY DEF AuditInv, AuditShape, Reply
  <2>3. fetch[x].total \in Nat
    BY <2>1, <2>2 DEF Reply, Audit!Read, Audit!Unread
  <2>4. fetch[x].of.offset \in Audit!Offset /\ fetch[x].of.offset >= fetch[x].total
    BY <2>1, <2>2 DEF Audit!PastTheEnd, Audit!Investigation
  <2>5. o \in Audit!Offset
    BY <2>3, <2>4, LastPageIsAPage
  <2>6. i \in Audit!Investigation
    BY <2>2, <2>5 DEF Audit!Investigation
  <2> QED BY <2>1, <2>6, LoadStep
<1> QED BY <1>1, <1>2, <1>3, <1>4

LEMMA WriteEntryStep ==
  ASSUME AuditInv, NEW kind \in Key, Audit!WriteEntry(kind)
  PROVE  AuditInv'
<1> DEFINE Half(x) == (fetch[x].rows = Audit!Unread) # (fetch[x].total = Audit!Unread)
<1>1. /\ entries[kind] < MaxEntries
      /\ entries' = [f \in Key \cup {NONE} |->
                      IF Audit!Selects(f, kind) THEN entries[f] + 1 ELSE entries[f]]
      /\ fetch' = [x \in Request |-> [fetch[x] EXCEPT !.torn = @ \/ Half(x)]]
      /\ UNCHANGED <<url, invalid, newestFetch, view>>
  BY DEF Audit!WriteEntry
<1>2. ASSUME NEW x \in Request
      PROVE  /\ fetch'[x] \in Reply /\ fetch'[x].pc = fetch[x].pc /\ fetch'[x].of = fetch[x].of
             /\ fetch'[x].rows = fetch[x].rows /\ fetch'[x].total = fetch[x].total
             /\ fetch'[x].torn = (fetch[x].torn \/ Half(x))
  <2>1. fetch[x] \in Reply /\ (fetch[x].torn \/ Half(x)) \in BOOLEAN
    BY DEF AuditInv, AuditShape
  <2> HIDE DEF Half
  <2> PICK b : b = (fetch[x].torn \/ Half(x))
    OBVIOUS
  <2>2. fetch'[x] = [fetch[x] EXCEPT !.torn = b]
    BY <1>1
  <2> QED BY <2>1, <2>2 DEF Reply
<1>3. entries' \in [Key \cup {NONE} -> Nat] /\ \A f \in Key : entries'[f] <= MaxEntries
  <2>1. \A f \in Key \cup {NONE} : entries[f] \in Nat
    BY DEF AuditInv, AuditShape
  <2>2. \A f \in Key : entries'[f] <= MaxEntries
    BY <1>1, <2>1, AuditFacts DEF AuditInv, AuditShape, Audit!Selects
  <2> QED BY <1>1, <2>1, <2>2
<1>4. AuditShape'
  <2>1. fetch' \in [Request -> Reply]
    BY <1>1, <1>2
  <2> QED BY <1>1, <1>3, <2>1 DEF AuditInv, AuditShape
<1>5. NewestIsTheUrl'
  BY <1>1, <1>2 DEF AuditInv, AuditShape, NewestIsTheUrl
<1>6. \A x \in Request : Whole(fetch[x])' /\ fetch'[x].total >= -1
  <2> SUFFICES ASSUME NEW x \in Request PROVE Whole(fetch[x])' /\ fetch'[x].total >= -1
    OBVIOUS
  <2>1. Whole(fetch[x]) /\ fetch[x].total >= -1 /\ fetch[x].torn \in BOOLEAN
    BY DEF AuditInv, AuditShape, Reply
  <2>2. CASE Half(x)
    BY <1>2, <2>1, <2>2 DEF Whole
  <2>3. CASE ~Half(x)
    BY <1>2, <2>1, <2>3 DEF Whole, Audit!Read, Audit!Consistent
  <2> QED BY <2>2, <2>3
<1>7. Audit!ShowsInvestigation'
  BY <1>1 DEF AuditInv, Audit!ShowsInvestigation
<1> QED BY <1>4, <1>5, <1>6, <1>7 DEF AuditInv

LEMMA AuditInvInit ==
  ASSUME Audit!AuditInit
  PROVE  AuditInv
<1>1. /\ entries = [f \in Key \cup {NONE} |-> 0] /\ url = Audit!Spare.of /\ invalid = FALSE
      /\ fetch = [x \in Request |-> Audit!Spare] /\ newestFetch = Audit!Nothing
      /\ view = [is |-> "blank", by |-> Audit!Spare]
  BY DEF Audit!AuditInit, Audit!Blank
<1>2. AuditShape
  <2>1. Audit!Spare \in Reply /\ Audit!Spare.of \in Audit!Investigation
    BY SpareReply DEF Reply
  <2>2. entries \in [Key \cup {NONE} -> Nat] /\ \A f \in Key : entries[f] <= MaxEntries
    BY <1>1, AuditFacts
  <2>3. view \in [is : {"blank", "malformed", "rows", "refused", "failed"}, by : Reply]
    BY <1>1, <2>1
  <2> QED BY <1>1, <2>1, <2>2, <2>3 DEF AuditShape
<1>3. NewestIsTheUrl
  BY <1>1 DEF NewestIsTheUrl
<1>4. Audit!ShowsInvestigation
  BY <1>1 DEF Audit!ShowsInvestigation
<1> QED BY <1>1, <1>2, <1>3, <1>4, SpareReply DEF AuditInv

LEMMA AuditInvNext ==
  ASSUME AuditInv, Audit!AuditNext
  PROVE  AuditInv'
BY LoadsOfTheUrl, Navigations, SelectEntriesStep, CountEntriesStep, DiscardStep, AnswersStep,
   SubmitMalformedStep, WriteEntryStep DEF Audit!AuditNext

---------------------------------------------------------------------------
(* Behaviours of MCSessions: AuditPages.                                   *)

AuditWorld == world = "audit" => AuditInv

LEMMA AuditSteps ==
  [SessionsNext]_sessionsVars
    => world' = world /\ (world = "audit" => Audit!AuditNext \/ UNCHANGED auditVars)
BY DEF SessionsNext, sessionsVars

LEMMA AuditHolds == SessionsSpec => []AuditWorld
<1>1. SessionsInit => AuditWorld
  BY AuditInvInit DEF SessionsInit, AuditWorld
<1>2. AuditWorld /\ [SessionsNext]_sessionsVars => AuditWorld'
  <2> SUFFICES ASSUME AuditWorld, [SessionsNext]_sessionsVars, world' = "audit"
               PROVE  AuditInv'
    BY DEF AuditWorld
  <2>1. AuditInv /\ (Audit!AuditNext \/ UNCHANGED auditVars)
    BY AuditSteps DEF AuditWorld
  <2>2. CASE UNCHANGED auditVars
    BY <2>1, <2>2 DEF auditVars, AuditInv, AuditShape, NewestIsTheUrl, Whole, Audit!Count,
       Audit!ShowsInvestigation
  <2> QED BY <2>1, <2>2, AuditInvNext
<1> QED BY <1>1, <1>2, PTL DEF SessionsSpec, sessionsVars

\* Rows on the administrators' page are those of the URL, never of an investigation that
\* was left or that a malformed form was meant to narrow; and the page refuses an answer
\* only if an entry was written between the two statements behind it (audit.astro,
\* audit-log-view.ts, admin-audit-logs.ts).
THEOREM PageIsOfTheInvestigation == SessionsSpec => []ShowsInvestigation
<1>1. AuditWorld => ShowsInvestigation
  BY DEF AuditWorld, ShowsInvestigation, AuditInv
<1> QED BY <1>1, AuditHolds, PTL

---------------------------------------------------------------------------
(* LoginHistory: the invariant.                                            *)

Entry == [id : Nat, provider : Key]
Asked == [pc : {"free", "asked", "answered"}, kind : History!Kind, filter : History!Filter,
          offset : Nat, rows : Seq(Entry)]

HistoryShape ==
  /\ logins \in [History!Filter -> Seq(Entry)] /\ Len(logins[NONE]) <= MaxLogins
  /\ filter \in History!Filter /\ requested \in History!Filter \cup {History!None}
  /\ load \in [Request -> Asked] /\ latest \in Request \cup {History!None}
  /\ shown \in Seq(Entry) /\ failed \in History!Kind \cup {"no"}
  /\ more \in BOOLEAN /\ restored \in BOOLEAN /\ moved \in BOOLEAN /\ hasty \in BOOLEAN

\* A list holds what its filter selects, and so does an answer.
Only(list, f) == \A i \in 1..Len(list) : History!Selects(f, list[i])
OnlySelected ==
  /\ \A f \in History!Filter : Only(logins[f], f)
  /\ \A l \in Request : Only(load[l].rows, load[l].filter)
  /\ ~hasty => Only(shown, requested)

\* The latest request continues what is shown, for the filter it asked for; that
\* filter is the one that is set, or the timer or the answer will notice.
LatestContinues ==
  /\ requested = History!None => latest = History!None /\ shown = <<>>
  /\ latest # History!None =>
       /\ load[latest].pc # "free" /\ load[latest].filter = requested
       /\ load[latest].offset = Len(shown)
       /\ load[latest].pc = "answered" /\ ~moved =>
            load[latest].rows = History!Query(requested, Len(shown))
  /\ requested # History!None /\ requested # filter => latest # History!None \/ restored

IsPrefix(short, long) ==
  Len(short) <= Len(long) /\ \A i \in 1..Len(short) : short[i] = long[i]
ShownInOrder == requested # History!None /\ ~moved /\ ~hasty => IsPrefix(shown, logins[requested])

HistoryInv == HistoryShape /\ OnlySelected /\ LatestContinues /\ ShownInOrder

LEMMA HistoryFacts ==
  /\ NONE \notin Key /\ History!None \notin Key \cup {NONE} \cup Request
  /\ HistoryPage \in Nat \ {0} /\ MaxLogins \in Nat
BY PartsAssumption DEF History!HistoryAssumption, History!None

\* What the query returns.
LEMMA QueryGives ==
  ASSUME HistoryShape, NEW f \in History!Filter, NEW o \in Nat
  PROVE  LET rest == History!Query(f, o) IN
         /\ rest \in Seq(Entry)
         /\ rest # <<>> => o + Len(rest) <= Len(logins[f])
         /\ \A i \in 1..Len(rest) : o + i \in 1..Len(logins[f]) /\ rest[i] = logins[f][o + i]
<1> DEFINE n == Len(logins[f])
           rest == SubSeq(logins[f], o + 1, n)
           page == SubSeq(rest, 1, HistoryPage)
<1>1. logins[f] \in Seq(Entry) /\ n \in Nat
  BY DEF HistoryShape
<1>2. CASE o >= n
  <2>1. rest = <<>>
    BY <1>1, <1>2
  <2>2. History!Query(f, o) = <<>>
    BY <2>1, HistoryFacts DEF History!Query, History!Rest
  <2> QED BY <2>2
<1>3. CASE o < n
  <2>1. /\ rest \in Seq(Entry) /\ Len(rest) = n - o
        /\ \A i \in 1..Len(rest) : rest[i] = logins[f][o + i]
    BY <1>1, <1>3
  <2>2. CASE Len(rest) > HistoryPage
    <3>1. /\ page \in Seq(Entry) /\ Len(page) = HistoryPage
          /\ \A i \in 1..Len(page) : page[i] = rest[i]
      BY <2>1, <2>2, HistoryFacts
    <3>2. History!Query(f, o) = page
      BY <2>2 DEF History!Query, History!Rest
    <3>3. o + Len(page) <= n
      BY <1>1, <1>3, <2>1, <2>2, <3>1, HistoryFacts
    <3>4. \A i \in 1..Len(page) : o + i \in 1..n /\ page[i] = logins[f][o + i]
      <4> SUFFICES ASSUME NEW i \in 1..Len(page)
                   PROVE  o + i \in 1..n /\ page[i] = logins[f][o + i]
        OBVIOUS
      <4>1. i \in 1..Len(rest)
        BY <1>1, <1>3, <2>1, <2>2, <3>1, HistoryFacts
      <4>2. page[i] = logins[f][o + i]
        BY <2>1, <3>1, <4>1
      <4>3. o + i \in 1..n
        BY <1>1, <3>1, <3>3, HistoryFacts
      <4> QED BY <4>2, <4>3
    <3> HIDE DEF page, rest
    <3> QED BY <3>1, <3>2, <3>3, <3>4
  <2>3. CASE ~(Len(rest) > HistoryPage)
    <3>1. History!Query(f, o) = rest
      BY <2>3 DEF History!Query, History!Rest
    <3> QED BY <1>1, <1>3, <2>1, <3>1
  <2> QED BY <2>2, <2>3
<1> QED BY <1>1, <1>2, <1>3

LEMMA EmptyList ==
  /\ <<>> \in Seq(Entry) /\ Len(<<>>) = 0
  /\ \A f : Only(<<>>, f) /\ \A long \in Seq(Entry) : IsPrefix(<<>>, long)
BY DEF Only, IsPrefix

LEMMA LoadPageStep ==
  ASSUME HistoryInv, NEW l \in Request, NEW kind \in History!Kind, NEW f \in History!Filter,
         History!LoadPage(l, kind, f), filter' = f, restored' \in BOOLEAN
  PROVE  HistoryInv'
<1>1. PICK q : /\ q = [pc |-> "asked", kind |-> kind, filter |-> f,
                       offset |-> IF kind = "reset" THEN 0 ELSE Len(shown), rows |-> <<>>]
               /\ load' = [load EXCEPT ![l] = q]
  BY DEF History!LoadPage
<1>2. /\ latest' = l /\ failed' = "no" /\ requested' = f /\ logins' = logins
      /\ kind = "reset" => shown' = <<>> /\ more' = TRUE /\ moved' = FALSE /\ hasty' = FALSE
      /\ kind = "more" => /\ hasty' = (hasty \/ f # requested)
                          /\ UNCHANGED <<shown, more, moved>>
  BY DEF History!LoadPage
<1>3. /\ shown \in Seq(Entry) /\ Len(shown) \in Nat /\ load \in [Request -> Asked]
      /\ kind \in {"reset", "more"} /\ f # History!None /\ l # History!None
  BY HistoryFacts DEF HistoryInv, HistoryShape, History!Kind, History!Filter
<1>4. /\ q \in Asked /\ q.pc = "asked" /\ q.filter = f /\ q.rows = <<>>
      /\ q.offset = IF kind = "reset" THEN 0 ELSE Len(shown)
  <2>1. (IF kind = "reset" THEN 0 ELSE Len(shown)) \in Nat
    BY <1>3
  <2> PICK o \in Nat : o = IF kind = "reset" THEN 0 ELSE Len(shown)
    BY <2>1
  <2>2. q = [pc |-> "asked", kind |-> kind, filter |-> f, offset |-> o, rows |-> <<>>]
    BY <1>1
  <2> QED BY <2>2, EmptyList DEF Asked
<1>5. /\ load'[l] = q /\ load' \in [Request -> Asked]
      /\ \A k \in Request \ {l} : load'[k] = load[k]
  BY <1>1, <1>3, <1>4
<1>6. HistoryShape'
  <2>1. shown' \in Seq(Entry) /\ more' \in BOOLEAN /\ moved' \in BOOLEAN /\ hasty' \in BOOLEAN
    BY <1>2, <1>3, EmptyList DEF HistoryInv, HistoryShape
  <2> QED BY <1>2, <1>5, <2>1 DEF HistoryInv, HistoryShape
<1>7. OnlySelected'
  <2>1. \A k \in Request : Only(load'[k].rows, load'[k].filter)
    <3> SUFFICES ASSUME NEW k \in Request PROVE Only(load'[k].rows, load'[k].filter)
      OBVIOUS
    <3>1. CASE k = l
      BY <1>4, <1>5, <3>1, EmptyList
    <3>2. CASE k # l
      BY <1>5, <3>2 DEF HistoryInv, OnlySelected
    <3> QED BY <3>1, <3>2
  <2>2. ~hasty' => Only(shown', requested')
    BY <1>2, <1>3, EmptyList DEF HistoryInv, OnlySelected
  <2> QED BY <1>2, <2>1, <2>2 DEF HistoryInv, OnlySelected, Only
<1>8. Len(shown') = q.offset
  BY <1>2, <1>3, <1>4, EmptyList
<1>9. LatestContinues'
  BY <1>2, <1>3, <1>4, <1>5, <1>8 DEF LatestContinues
<1>10. ShownInOrder'
  <2>1. logins[f] \in Seq(Entry)
    BY DEF HistoryInv, HistoryShape
  <2>2. CASE kind = "reset"
    BY <1>2, <2>1, <2>2, EmptyList DEF ShownInOrder
  <2>3. CASE kind = "more"
    <3>1. ~hasty' => ~hasty /\ requested = f
      BY <1>2, <2>3
    <3>2. shown' = shown /\ moved' = moved /\ logins' = logins /\ requested' = f
      BY <1>2, <2>3
    <3>3. ~moved' /\ ~hasty' => IsPrefix(shown, logins[f])
      BY <1>3, <3>1, <3>2 DEF HistoryInv, ShownInOrder
    <3> QED BY <3>2, <3>3 DEF ShownInOrder, IsPrefix
  <2> QED BY <1>3, <2>2, <2>3
<1> QED BY <1>6, <1>7, <1>9, <1>10 DEF HistoryInv

LEMMA LoadsOfAPage ==
  ASSUME HistoryInv, NEW l \in Request
  PROVE  /\ History!OpenPage(l) => HistoryInv'
         /\ \A f \in History!Filter : History!ChangeFilter(l, f) => HistoryInv'
         /\ History!LoadMore(l) => HistoryInv'
         /\ History!Retry(l) => HistoryInv'
         /\ History!AskAgain(l) => HistoryInv'
<1>1. /\ filter \in History!Filter /\ restored \in BOOLEAN
      /\ failed # "no" => failed \in History!Kind
      /\ "reset" \in History!Kind /\ "more" \in History!Kind
  BY DEF HistoryInv, HistoryShape, History!Kind
<1>2. ASSUME History!OpenPage(l) PROVE HistoryInv'
  BY <1>1, <1>2, LoadPageStep DEF History!OpenPage
<1>3. ASSUME NEW f \in History!Filter, History!ChangeFilter(l, f) PROVE HistoryInv'
  BY <1>1, <1>3, LoadPageStep DEF History!ChangeFilter
<1>4. ASSUME History!LoadMore(l) PROVE HistoryInv'
  BY <1>1, <1>4, LoadPageStep DEF History!LoadMore
<1>5. ASSUME History!Retry(l) PROVE HistoryInv'
  BY <1>1, <1>5, LoadPageStep DEF History!Retry
<1>6. ASSUME History!AskAgain(l) PROVE HistoryInv'
  BY <1>1, <1>6, LoadPageStep DEF History!AskAgain
<1> QED BY <1>2, <1>3, <1>4, <1>5, <1>6

\* Only the filter and its timer change.
LEMMA FilterStep ==
  ASSUME HistoryInv, UNCHANGED <<logins, load, latest, shown, more, failed, requested, moved, hasty>>,
         filter' \in History!Filter, restored' \in BOOLEAN,
         requested # History!None /\ requested # filter' => latest # History!None \/ restored'
  PROVE  HistoryInv'
<1>1. HistoryShape' /\ OnlySelected' /\ ShownInOrder'
  BY DEF HistoryInv, HistoryShape, OnlySelected, Only, ShownInOrder, IsPrefix
<1>2. LatestContinues'
  BY DEF HistoryInv, LatestContinues, History!Query, History!Rest
<1> QED BY <1>1, <1>2 DEF HistoryInv

LEMMA FilterSteps ==
  ASSUME HistoryInv
  PROVE  /\ \A f \in History!Filter : History!RestoreFilter(f) => HistoryInv'
         /\ \A l \in Request : History!Reconcile(l) => HistoryInv'
<1>1. ASSUME NEW f \in History!Filter, History!RestoreFilter(f) PROVE HistoryInv'
  BY <1>1, FilterStep DEF History!RestoreFilter, History!Status
<1>2. ASSUME NEW l \in Request, History!Reconcile(l) PROVE HistoryInv'
  <2>1. filter \in History!Filter /\ restored' = FALSE /\ filter' = filter
        /\ "reset" \in History!Kind
    BY <1>2 DEF HistoryInv, HistoryShape, History!Reconcile, History!Kind
  <2>2. CASE requested # History!None /\ filter # requested
    BY <1>2, <2>1, <2>2, LoadPageStep DEF History!Reconcile
  <2>3. CASE ~(requested # History!None /\ filter # requested)
    <3>1. UNCHANGED <<logins, load, latest, shown, more, failed, requested, moved, hasty>>
      BY <1>2, <2>3 DEF History!Reconcile, History!Status
    <3> QED BY <2>1, <2>3, <3>1, FilterStep
  <2> QED BY <2>2, <2>3
<1> QED BY <1>1, <1>2

LEMMA AnswerLoadStep ==
  ASSUME HistoryInv, NEW l \in Request, History!AnswerLoad(l)
  PROVE  HistoryInv'
<1> DEFINE page == History!Query(load[l].filter, load[l].offset)
<1>1. load[l] \in Asked /\ load[l].filter \in History!Filter /\ load[l].offset \in Nat
  BY DEF HistoryInv, HistoryShape, Asked
<1>2. /\ load[l].pc = "asked"
      /\ UNCHANGED <<logins, filter, latest, shown, more, failed, requested, moved, hasty, restored>>
  BY DEF History!AnswerLoad, History!Status
<1>3. PICK q : /\ q = [pc |-> "answered", kind |-> load[l].kind, filter |-> load[l].filter,
                       offset |-> load[l].offset, rows |-> page]
               /\ load' = [load EXCEPT ![l] = q]
  <2> PICK rest : rest = page
    OBVIOUS
  <2> PICK q : q = [load[l] EXCEPT !.pc = "answered", !.rows = rest]
    OBVIOUS
  <2>1. q = [pc |-> "answered", kind |-> load[l].kind, filter |-> load[l].filter,
             offset |-> load[l].offset, rows |-> rest]
    BY <1>1 DEF Asked
  <2>2. load' = [load EXCEPT ![l] = q]
    BY DEF History!AnswerLoad
  <2> QED BY <2>1, <2>2
<1>4. /\ page \in Seq(Entry)
      /\ \A i \in 1..Len(page) : /\ load[l].offset + i \in 1..Len(logins[load[l].filter])
                                 /\ page[i] = logins[load[l].filter][load[l].offset + i]
  BY <1>1, QueryGives DEF HistoryInv
<1>5. Only(page, load[l].filter)
  BY <1>1, <1>4 DEF HistoryInv, OnlySelected, Only
<1> HIDE DEF page
<1>6. q \in Asked /\ q.pc = "answered" /\ q.filter = load[l].filter /\ q.rows = page
      /\ q.offset = load[l].offset
  BY <1>1, <1>3, <1>4 DEF Asked
<1>7. /\ load'[l] = q /\ load' \in [Request -> Asked]
      /\ \A k \in Request \ {l} : load'[k] = load[k]
  BY <1>3, <1>6 DEF HistoryInv, HistoryShape
<1>8. HistoryShape'
  BY <1>2, <1>7 DEF HistoryInv, HistoryShape
<1>9. OnlySelected'
  <2>1. \A k \in Request : Only(load'[k].rows, load'[k].filter)
    <3> SUFFICES ASSUME NEW k \in Request PROVE Only(load'[k].rows, load'[k].filter)
      OBVIOUS
    <3>1. CASE k = l
      BY <1>5, <1>6, <1>7, <3>1
    <3>2. CASE k # l
      BY <1>7, <3>2 DEF HistoryInv, OnlySelected
    <3> QED BY <3>1, <3>2
  <2> QED BY <1>2, <2>1 DEF HistoryInv, OnlySelected, Only
<1>10. LatestContinues'
  <2>1. /\ requested' = requested /\ latest' = latest /\ shown' = shown /\ logins' = logins
        /\ filter' = filter /\ restored' = restored /\ moved' = moved
    BY <1>2
  <2>2. latest = l => q.rows = History!Query(requested, Len(shown))
    <3> USE DEF page
    <3> QED BY <1>2, <1>6, HistoryFacts DEF HistoryInv, LatestContinues
  <2>3. History!Query(requested, Len(shown))' = History!Query(requested, Len(shown))
    BY <2>1 DEF History!Query, History!Rest
  <2>4. CASE latest = l
    BY <1>6, <1>7, <2>1, <2>2, <2>3, <2>4 DEF HistoryInv, LatestContinues
  <2>5. CASE latest # l
    <3>1. latest # History!None => load'[latest] = load[latest]
      BY <1>7, <2>5 DEF HistoryInv, HistoryShape
    <3> QED BY <2>1, <2>3, <2>5, <3>1 DEF HistoryInv, LatestContinues
  <2> QED BY <2>4, <2>5
<1>11. ShownInOrder'
  BY <1>2 DEF HistoryInv, ShownInOrder, IsPrefix
<1> QED BY <1>8, <1>9, <1>10, <1>11 DEF HistoryInv

LEMMA UnaskedLoad ==
  /\ History!Unasked \in Asked /\ History!Unasked.rows = <<>>
  /\ History!Unasked.filter \in History!Filter
<1>1. /\ NONE \in History!Filter /\ 0 \in Nat /\ <<>> \in Seq(Entry) /\ "reset" \in History!Kind
  BY EmptyList DEF History!Filter, History!Kind
<1> QED BY <1>1 DEF History!Unasked, Asked

\* A slot is given up, and with it the latest request if it was that.
LEMMA FreeStep ==
  ASSUME HistoryInv, NEW l \in Request, History!Free(l),
         UNCHANGED <<logins, filter, requested, moved, hasty, restored>>,
         (latest' = latest /\ latest # l) \/ latest' = History!None,
         latest # History!None => latest' = latest \/ requested = filter,
         HistoryShape', ~hasty => Only(shown', requested),
         latest' # History!None \/ requested = History!None => shown' = shown,
         requested # History!None /\ ~moved /\ ~hasty => IsPrefix(shown', logins[requested])
  PROVE  HistoryInv'
<1>1. /\ load'[l] = History!Unasked /\ \A k \in Request \ {l} : load'[k] = load[k]
  BY DEF HistoryInv, HistoryShape, History!Free
<1>2. OnlySelected'
  <2>1. \A k \in Request : Only(load'[k].rows, load'[k].filter)
    BY <1>1, UnaskedLoad, EmptyList DEF HistoryInv, OnlySelected
  <2> QED BY <2>1 DEF HistoryInv, OnlySelected, Only
<1>3. LatestContinues'
  <2>1. latest' # History!None => latest' = latest /\ latest # l /\ latest \in Request
                                  /\ load'[latest] = load[latest] /\ shown' = shown
    BY <1>1 DEF HistoryInv, HistoryShape
  <2>2. shown' = shown => History!Query(requested, Len(shown))' = History!Query(requested, Len(shown))
    BY DEF History!Query, History!Rest
  <2>3. latest' # History!None =>
       /\ load'[latest'].pc # "free" /\ load'[latest'].filter = requested'
       /\ load'[latest'].offset = Len(shown')
       /\ load'[latest'].pc = "answered" /\ ~moved' =>
            load'[latest'].rows = History!Query(requested, Len(shown))'
    BY <2>1, <2>2 DEF HistoryInv, LatestContinues
  <2>4. requested' = History!None => latest' = History!None /\ shown' = <<>>
    BY <2>1 DEF HistoryInv, LatestContinues
  <2>5. requested' # History!None /\ requested' # filter' => latest' # History!None \/ restored'
    BY DEF HistoryInv, LatestContinues
  <2> QED BY <2>3, <2>4, <2>5 DEF LatestContinues
<1>4. ShownInOrder'
  BY DEF ShownInOrder, IsPrefix
<1> QED BY <1>2, <1>3, <1>4 DEF HistoryInv

LEMMA FreedShape ==
  ASSUME HistoryInv, NEW l \in Request, History!Free(l),
         UNCHANGED <<logins, filter, requested, moved, hasty, restored>>,
         latest' \in Request \cup {History!None}, shown' \in Seq(Entry),
         failed' \in History!Kind \cup {"no"}, more' \in BOOLEAN
  PROVE  HistoryShape'
<1>1. load' \in [Request -> Asked]
  BY UnaskedLoad DEF HistoryInv, HistoryShape, History!Free
<1> QED BY <1>1 DEF HistoryInv, HistoryShape

LEMMA IgnoreStep ==
  ASSUME HistoryInv, NEW l \in Request, History!Ignore(l)
  PROVE  HistoryInv'
<1>1. /\ l # latest /\ History!Free(l)
      /\ UNCHANGED <<logins, filter, latest, shown, more, failed, requested, moved, hasty, restored>>
  BY DEF History!Ignore, History!Superseded, History!Status
<1>2. HistoryShape'
  BY <1>1, FreedShape DEF HistoryInv, HistoryShape
<1>3. /\ ~hasty => Only(shown', requested)
      /\ requested # History!None /\ ~moved /\ ~hasty => IsPrefix(shown', logins[requested])
  BY <1>1 DEF HistoryInv, OnlySelected, ShownInOrder
<1> QED BY <1>1, <1>2, <1>3, FreeStep

LEMMA FailStep ==
  ASSUME HistoryInv, NEW l \in Request, History!Fail(l)
  PROVE  HistoryInv'
<1>1. /\ l = latest /\ load[l].filter = filter /\ History!Free(l) /\ failed' = load[l].kind
      /\ latest' = History!None
      /\ UNCHANGED <<logins, filter, shown, more, requested, moved, hasty, restored>>
  BY DEF History!Fail, History!Superseded
<1>2. HistoryShape'
  BY <1>1, FreedShape DEF HistoryInv, HistoryShape, Asked
<1>3. requested = filter
  BY <1>1, HistoryFacts DEF HistoryInv, LatestContinues
<1>4. /\ ~hasty => Only(shown', requested)
      /\ requested # History!None /\ ~moved /\ ~hasty => IsPrefix(shown', logins[requested])
  BY <1>1 DEF HistoryInv, OnlySelected, ShownInOrder
<1> QED BY <1>1, <1>2, <1>3, <1>4, FreeStep

LEMMA ShowStep ==
  ASSUME HistoryInv, NEW l \in Request, History!Show(l)
  PROVE  HistoryInv'
<1> DEFINE page == load[l].rows
           n == Len(shown)
           list == logins[requested]
<1>1. /\ l = latest /\ load[l].pc = "answered" /\ load[l].filter = filter /\ History!Free(l)
      /\ shown' = shown \o page /\ more' = (Len(page) = HistoryPage)
      /\ latest' = History!None
      /\ UNCHANGED <<logins, filter, failed, requested, moved, hasty, restored>>
  BY DEF History!Show, History!Superseded
<1>2. /\ requested = filter /\ requested # History!None /\ requested \in History!Filter
      /\ ~moved => page = History!Query(requested, n)
  BY <1>1, HistoryFacts DEF HistoryInv, HistoryShape, LatestContinues
<1>3. shown \in Seq(Entry) /\ page \in Seq(Entry) /\ list \in Seq(Entry) /\ n \in Nat
  BY <1>2 DEF HistoryInv, HistoryShape, Asked
<1>4. /\ shown' \in Seq(Entry) /\ Len(shown') = n + Len(page) /\ Len(page) \in Nat
      /\ \A i \in 1..n : shown'[i] = shown[i]
      /\ \A i \in 1..Len(shown') : i > n => i - n \in 1..Len(page) /\ shown'[i] = page[i - n]
  BY <1>1, <1>3
<1>5. HistoryShape'
  BY <1>1, <1>4, FreedShape DEF HistoryInv, HistoryShape
<1>6. ~hasty => Only(shown', requested)
  <2> SUFFICES ASSUME ~hasty, NEW i \in 1..Len(shown')
               PROVE  History!Selects(requested, shown'[i])
    BY DEF Only
  <2>1. Only(shown, requested) /\ Only(page, requested)
    BY <1>1, <1>2 DEF HistoryInv, OnlySelected
  <2>2. CASE i <= n
    BY <1>3, <1>4, <2>1, <2>2 DEF Only
  <2>3. CASE i > n
    BY <1>3, <1>4, <2>1, <2>3 DEF Only
  <2> QED BY <1>3, <1>4, <2>2, <2>3
<1>7. ~moved /\ ~hasty => IsPrefix(shown', list)
  <2> SUFFICES ASSUME ~moved, ~hasty PROVE IsPrefix(shown', list)
    OBVIOUS
  <2>1. IsPrefix(shown, list)
    BY <1>2 DEF HistoryInv, ShownInOrder
  <2>2. /\ page # <<>> => n + Len(page) <= Len(list)
        /\ \A i \in 1..Len(page) : n + i \in 1..Len(list) /\ page[i] = list[n + i]
    BY <1>2, <1>3, QueryGives DEF HistoryInv
  <2>3. Len(shown') <= Len(list)
    <3>1. CASE page = <<>>
      BY <1>3, <1>4, <2>1, <3>1 DEF IsPrefix
    <3>2. CASE page # <<>>
      BY <1>4, <2>2, <3>2
    <3> QED BY <3>1, <3>2
  <2>4. ASSUME NEW i \in 1..Len(shown') PROVE shown'[i] = list[i]
    <3>1. CASE i <= n
      BY <1>3, <1>4, <2>1, <3>1 DEF IsPrefix
    <3>2. CASE i > n
      <4>1. i - n \in 1..Len(page) /\ n + (i - n) = i
        BY <1>3, <1>4, <3>2
      <4>2. page[i - n] = list[n + (i - n)]
        BY <2>2, <4>1
      <4> QED BY <1>4, <3>2, <4>1, <4>2
    <3> QED BY <1>3, <1>4, <3>1, <3>2
  <2> QED BY <2>3, <2>4 DEF IsPrefix
<1> QED BY <1>1, <1>2, <1>5, <1>6, <1>7, FreeStep

LEMMA RecordLoginStep ==
  ASSUME HistoryInv, NEW p \in Key, History!RecordLogin(p)
  PROVE  HistoryInv'
<1>1. PICK e : /\ e = [id |-> Len(logins[NONE]) + 1, provider |-> p]
               /\ logins' = [f \in History!Filter |->
                              IF History!Selects(f, e) THEN <<e>> \o logins[f] ELSE logins[f]]
  BY DEF History!RecordLogin
<1>2. /\ Len(logins[NONE]) < MaxLogins /\ moved' = TRUE
      /\ UNCHANGED <<filter, load, latest, shown, more, failed, requested, hasty, restored>>
  BY DEF History!RecordLogin
<1>3. NONE \in History!Filter /\ Len(logins[NONE]) \in Nat /\ e \in Entry
  <2>1. NONE \in History!Filter /\ logins[NONE] \in Seq(Entry)
    BY DEF HistoryInv, HistoryShape, History!Filter
  <2> QED BY <1>1, <2>1 DEF Entry
<1>4. ASSUME NEW f \in History!Filter
      PROVE  /\ logins'[f] \in Seq(Entry) /\ Len(logins'[f]) <= Len(logins[f]) + 1
             /\ Only(logins'[f], f)
  <2>1. logins[f] \in Seq(Entry) /\ Only(logins[f], f)
    BY DEF HistoryInv, HistoryShape, OnlySelected
  <2>2. CASE History!Selects(f, e)
    <3>1. logins'[f] = <<e>> \o logins[f]
      BY <1>1, <2>2
    <3>2. /\ logins'[f] \in Seq(Entry) /\ Len(logins'[f]) = Len(logins[f]) + 1
          /\ logins'[f][1] = e
          /\ \A i \in 1..Len(logins'[f]) : i # 1 => i - 1 \in 1..Len(logins[f])
                                                    /\ logins'[f][i] = logins[f][i - 1]
      BY <1>3, <2>1, <3>1
    <3>3. Only(logins'[f], f)
      BY <2>1, <2>2, <3>2 DEF Only
    <3> QED BY <2>1, <3>2, <3>3
  <2>3. CASE ~History!Selects(f, e)
    BY <1>1, <2>1, <2>3
  <2> QED BY <2>2, <2>3
<1>5. HistoryShape'
  <2>1. logins' \in [History!Filter -> Seq(Entry)]
    BY <1>1, <1>4
  <2>2. Len(logins'[NONE]) <= MaxLogins
    <3>1. Len(logins'[NONE]) \in Nat
      BY <1>3, <1>4
    <3> QED BY <1>2, <1>3, <1>4, <3>1, HistoryFacts
  <2> QED BY <1>2, <2>1, <2>2 DEF HistoryInv, HistoryShape
<1>6. OnlySelected'
  BY <1>2, <1>4 DEF HistoryInv, OnlySelected, Only
<1>7. LatestContinues'
  BY <1>2 DEF HistoryInv, LatestContinues
<1>8. ShownInOrder'
  BY <1>2 DEF ShownInOrder
<1> QED BY <1>5, <1>6, <1>7, <1>8 DEF HistoryInv

LEMMA HistoryInvInit ==
  ASSUME History!HistoryInit
  PROVE  HistoryInv
<1>1. /\ logins = [f \in History!Filter |-> <<>>] /\ filter = NONE
      /\ load = [l \in Request |-> History!Unasked] /\ latest = History!None /\ shown = <<>>
      /\ more = TRUE /\ failed = "no" /\ requested = History!None
      /\ restored = FALSE /\ moved = FALSE /\ hasty = FALSE
  BY DEF History!HistoryInit
<1>2. NONE \in History!Filter
  BY DEF History!Filter
<1>3. HistoryShape
  <2>1. logins \in [History!Filter -> Seq(Entry)] /\ Len(logins[NONE]) <= MaxLogins
    BY <1>1, <1>2, EmptyList, HistoryFacts
  <2>2. load \in [Request -> Asked]
    BY <1>1, UnaskedLoad
  <2> QED BY <1>1, <1>2, <2>1, <2>2, EmptyList DEF HistoryShape
<1>4. OnlySelected
  BY <1>1, UnaskedLoad, EmptyList DEF OnlySelected
<1>5. LatestContinues /\ ShownInOrder
  BY <1>1 DEF LatestContinues, ShownInOrder
<1> QED BY <1>3, <1>4, <1>5 DEF HistoryInv

LEMMA HistoryInvNext ==
  ASSUME HistoryInv, History!HistoryNext
  PROVE  HistoryInv'
BY LoadsOfAPage, FilterSteps, AnswerLoadStep, IgnoreStep, ShowStep, FailStep, RecordLoginStep
DEF History!HistoryNext

LEMMA HistoryFrame ==
  ASSUME HistoryInv, UNCHANGED historyVars
  PROVE  HistoryInv'
<1>1. HistoryShape' /\ OnlySelected' /\ ShownInOrder'
  BY DEF historyVars, HistoryInv, HistoryShape, OnlySelected, Only, ShownInOrder, IsPrefix
<1>2. LatestContinues'
  BY DEF historyVars, HistoryInv, LatestContinues, History!Query, History!Rest
<1> QED BY <1>1, <1>2 DEF HistoryInv

---------------------------------------------------------------------------
(* Behaviours of MCSessions: LoginHistory.                                 *)

HistoryWorld == world = "history" => HistoryInv

LEMMA HistorySteps ==
  [SessionsNext]_sessionsVars
    => world' = world /\ (world = "history" => History!HistoryNext \/ UNCHANGED historyVars)
BY DEF SessionsNext, sessionsVars

LEMMA HistoryHolds == SessionsSpec => []HistoryWorld
<1>1. SessionsInit => HistoryWorld
  BY HistoryInvInit DEF SessionsInit, HistoryWorld
<1>2. HistoryWorld /\ [SessionsNext]_sessionsVars => HistoryWorld'
  <2> SUFFICES ASSUME HistoryWorld, [SessionsNext]_sessionsVars, world' = "history"
               PROVE  HistoryInv'
    BY DEF HistoryWorld
  <2>1. HistoryInv /\ (History!HistoryNext \/ UNCHANGED historyVars)
    BY HistorySteps DEF HistoryWorld
  <2> QED BY <2>1, HistoryInvNext, HistoryFrame
<1> QED BY <1>1, <1>2, PTL DEF SessionsSpec, sessionsVars

\* However often the filter of the login history was changed while answers were on
\* their way, the list at rest is for the one that is set: the first logins of that
\* filter, none twice and none left out, unless somebody logged in between two pages
\* (login-history-loader.ts, login-events.ts).
THEOREM ListIsOfTheFilter == SessionsSpec => []ShowsFilter
<1>1. HistoryInv => History!ShowsFilter
  <2> SUFFICES ASSUME HistoryInv PROVE History!ShowsFilter
    OBVIOUS
  <2>1. requested # History!None /\ ~History!pending /\ ~restored => requested = filter
    BY DEF HistoryInv, LatestContinues, History!pending
  <2>2. ~hasty => \A i \in 1..Len(shown) : History!Selects(requested, shown[i])
    BY DEF HistoryInv, OnlySelected, Only
  <2>3. ASSUME requested # History!None, ~moved, ~hasty
        PROVE  shown = SubSeq(logins[requested], 1, Len(shown))
    <3>1. IsPrefix(shown, logins[requested]) /\ shown \in Seq(Entry)
          /\ logins[requested] \in Seq(Entry)
      BY <2>3 DEF HistoryInv, HistoryShape, ShownInOrder
    <3>2. Len(shown) \in Nat
      BY <3>1
    <3>3. /\ SubSeq(logins[requested], 1, Len(shown)) \in Seq(Entry)
          /\ Len(SubSeq(logins[requested], 1, Len(shown))) = Len(shown)
          /\ \A i \in 1..Len(shown) :
               SubSeq(logins[requested], 1, Len(shown))[i] = logins[requested][i]
      BY <3>1, <3>2 DEF IsPrefix
    <3> QED BY <3>1, <3>2, <3>3 DEF IsPrefix
  <2> QED BY <2>1, <2>2, <2>3 DEF History!ShowsFilter
<1>2. HistoryWorld => ShowsFilter
  BY <1>1 DEF HistoryWorld, ShowsFilter
<1> QED BY <1>2, HistoryHolds, PTL
=============================================================================
