-------------------------- MODULE MCRefreshTokens --------------------------
(***************************************************************************)
(* Values for checking RefreshTokens.  Symmetric: Token, Family, Request,  *)
(* as no formula names an element of them.                                 *)
(***************************************************************************)
EXTENDS RefreshTokens, TLC

Symmetry == Permutations(Token) \cup Permutations(Family) \cup Permutations(Request)
            \cup Permutations(Service)

\* Narrows a search to the runs in which every handler ends within one tick, so
\* that a refutation does not rest on a handler that runs for 30 seconds.
PromptHandlers == now' # now => \A r \in Request : At(r, "idle")
============================================================================
