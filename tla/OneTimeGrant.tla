---------------------------- MODULE OneTimeGrant ----------------------------
(***************************************************************************)
(* What an authorization grant promises, whichever flow hands it out: a    *)
(* grant is offered once, at most one request takes it, and the request    *)
(* that took it either turns it into one token pair or loses it for good.  *)
(***************************************************************************)
CONSTANT Grant

VARIABLE stage

Stage == {"new", "open", "taken", "used", "void"}

Init == stage = [g \in Grant |-> "new"]

Move(g, from, to) == stage[g] = from /\ stage' = [stage EXCEPT ![g] = to]

Offer(g) == Move(g, "new", "open")
Take(g)  == Move(g, "open", "taken")
Use(g)   == Move(g, "taken", "used")

\* Expiry, refusal, deletion and failure: several grants may end at once.
Withdraw(lost) ==
  /\ \A g \in lost : stage[g] \in {"open", "taken"}
  /\ stage' = [g \in Grant |-> IF g \in lost THEN "void" ELSE stage[g]]

Next ==
  \/ \E g \in Grant : Offer(g) \/ Take(g) \/ Use(g)
  \/ \E lost \in SUBSET Grant : Withdraw(lost)

Spec == Init /\ [][Next]_stage
=============================================================================
