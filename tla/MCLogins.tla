------------------------------ MODULE MCLogins ------------------------------
(***************************************************************************)
(* Values for checking two ways in: DeviceGrant, and Identities.  The two  *)
(* share no state here, so a behaviour is one of either of them: world says*)
(* which, the variables of the other do not move, and the number of states *)
(* is the sum.                                                             *)
(*                                                                         *)
(* google has two accounts, the other provider one.  Tabs of Identities are*)
(* named like the handlers of DeviceGrant, and its users like the services *)
(* there: the symmetries are then symmetries of both.                      *)
(***************************************************************************)
EXTENDS DeviceGrant, TLC

CONSTANTS
  Holder, Provider, Updating, Mailless, Account, HostOf, Email, Link,  \* of Identities
  g1, g2, k1, google, line
Hosts == (g1 :> google) @@ (g2 :> google) @@ (k1 :> line)

VARIABLES
  world,
  people, gone, subs, email, barred, issued, cookie, tab, seen, overlapped

identityVars == <<people, gone, subs, email, barred, issued, cookie, tab, seen, overlapped>>

Identity == INSTANCE Identities WITH User <- Holder, Tab <- Request, users <- people,
                                    banned <- barred, disturbed <- overlapped

ASSUME IdentitiesAssumption == Identity!ProvidersAssumption

Off == "off"
NoIdentities ==
  /\ people = Off /\ gone = Off /\ subs = Off /\ email = Off /\ barred = Off /\ issued = Off
  /\ cookie = Off /\ tab = Off /\ seen = Off /\ overlapped = Off

LoginsInit ==
  /\ Init
  /\ \/ world = "device" /\ NoIdentities
     \/ world = "identities" /\ Identity!Init

LoginsNext ==
  \/ /\ world = "device" /\ Next
     /\ UNCHANGED <<world, identityVars>>
  \/ /\ world = "identities" /\ Identity!Next
     /\ UNCHANGED <<world, vars>>

LoginsSpec == LoginsInit /\ [][LoginsNext]_<<world, vars, identityVars>>

Symmetry == Permutations(Code) \cup Permutations(User) \cup Permutations(Service)
            \cup Permutations({g1, g2}) \cup Permutations(Request)

\* The type invariant of Identities, and its properties under their names
IdentitiesTypeOK == world = "identities" => Identity!TypeOK
OpensOwnAccount == world = "identities" => Identity!OpensOwnAccount
KeepsAWayIn == [][world = "identities" => Identity!OrphanedByOverlap]_identityVars
DisplacesNothing == [][world = "identities" => Identity!DisplacedForCause]_identityVars
AttachedForCause == [][world = "identities" => Identity!GainedForCause]_identityVars
=============================================================================
