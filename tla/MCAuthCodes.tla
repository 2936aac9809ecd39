---------------------------- MODULE MCAuthCodes ----------------------------
(***************************************************************************)
(* Values for checking AuthCodes.  The redirect URIs are named in Callback *)
(* and the services in Public, so neither set is symmetric.                *)
(***************************************************************************)
EXTENDS AuthCodes, TLC

\* Bounds: two handlers run at the same time while there is no resource and the public
\* service stays out of it; the rest is explored one handler at a time, at time zero.
Alone == now = 0 /\ \E r \in Request : \A o \in Request \ {r} : req[o] = Idle
Plain ==
  /\ registered = NONE /\ past = {} /\ Public \subseteq services
  /\ \A r \in Request : req[r].client \notin Public
  /\ \A c \in Code : client[c] \notin Public
Scope == Alone \/ Plain

Symmetry == Permutations(Code) \cup Permutations(User) \cup Permutations(Generation)
            \cup Permutations(Request) \cup Permutations(Verifier)
=============================================================================
