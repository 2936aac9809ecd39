----------------------------- MODULE MCSessions -----------------------------
(***************************************************************************)
(* Values for checking BffSessions, three modules of what the browser does *)
(* (BffClient, LoginHistory and AuditPages) and three of services          *)
(* (ServiceOwnership, ServiceCache and ClientRegistration).  The seven     *)
(* share no state here, so a behaviour is one of any of them: world says   *)
(* which, the variables of the others are off, and the number of states is *)
(* the sum.                                                                *)
(*                                                                         *)
(* The sets of the others reuse those of BffSessions: its symmetries are   *)
(* then symmetries of all, as no formula names an element.                 *)
(***************************************************************************)
EXTENDS BffSessions, TLC

CONSTANTS
  MaxGeneration,              \* of BffClient
  HistoryPage, MaxLogins,     \* of LoginHistory
  AuditPage, MaxEntries,      \* of AuditPages
  TTL, MaxVersion, CacheTime, \* of ServiceCache
  MaxId                       \* of ClientRegistration

VARIABLES
  world,
  cookie, call, begun, alive, family, newest, expired, graced, wanted, overtaken, strayed,
  lost, slow,
  logins, filter, load, latest, shown, more, failed, requested, restored, moved, hasty,
  entries, url, invalid, fetch, newestFetch, view,
  account, ownedBy, heldBy, session, work, late,
  row, entry, handler, clock, ended, knows,
  registration, idOf, ids, writer, settled

bffVars == <<cookie, call, begun, alive, family, newest, expired, graced, wanted,
             overtaken, strayed, lost, slow>>
historyVars == <<logins, filter, load, latest, shown, more, failed, requested, restored,
                 moved, hasty>>
auditVars == <<entries, url, invalid, fetch, newestFetch, view>>
ownerVars == <<account, ownedBy, heldBy, session, work, late>>
cacheVars == <<row, entry, handler, clock, ended, knows>>
registrationVars == <<registration, idOf, ids, writer, settled>>

Client  == INSTANCE BffClient WITH Login <- Session, Call <- Request
History == INSTANCE LoginHistory WITH Provider <- Key, Every <- NONE, Load <- Request,
                                      PageSize <- HistoryPage
Audit   == INSTANCE AuditPages WITH Filter <- Key, Everything <- NONE, Fetch <- Request,
                                    PageSize <- AuditPage
Ownership == INSTANCE ServiceOwnership WITH User <- Session, Service <- User,
                                            Resource <- Nonce, Operation <- Request
Cache   == INSTANCE ServiceCache WITH Slot <- Request, MaxTime <- CacheTime
Registration == INSTANCE ClientRegistration WITH Uri <- Key, Writer <- Request

ASSUME PartsAssumption ==
  /\ Client!BffAssumption /\ History!HistoryAssumption /\ Audit!AuditAssumption
  /\ Ownership!OwnershipAssumption /\ Cache!CacheAssumption
  /\ Registration!RegistrationAssumption

Off == "off"
NoClient ==
  /\ cookie = Off /\ call = Off /\ begun = Off /\ alive = Off /\ family = Off
  /\ newest = Off /\ expired = Off /\ graced = Off /\ wanted = Off /\ overtaken = Off
  /\ strayed = Off /\ lost = Off /\ slow = Off
NoHistory ==
  /\ logins = Off /\ filter = Off /\ load = Off /\ latest = Off /\ shown = Off
  /\ more = Off /\ failed = Off /\ requested = Off /\ restored = Off /\ moved = Off
  /\ hasty = Off
NoAudit ==
  /\ entries = Off /\ url = Off /\ invalid = Off /\ fetch = Off /\ newestFetch = Off
  /\ view = Off
NoOwnership ==
  /\ account = Off /\ ownedBy = Off /\ heldBy = Off /\ session = Off /\ work = Off
  /\ late = Off
NoCache ==
  /\ row = Off /\ entry = Off /\ handler = Off /\ clock = Off /\ ended = Off /\ knows = Off
NoRegistration ==
  /\ registration = Off /\ idOf = Off /\ ids = Off /\ writer = Off /\ settled = Off

SessionsInit ==
  /\ Init
  /\ \/ /\ world = "sessions"
        /\ NoClient /\ NoHistory /\ NoAudit /\ NoOwnership /\ NoCache /\ NoRegistration
     \/ /\ world = "client" /\ Client!BffInit
        /\ NoHistory /\ NoAudit /\ NoOwnership /\ NoCache /\ NoRegistration
     \/ /\ world = "history" /\ History!HistoryInit
        /\ NoClient /\ NoAudit /\ NoOwnership /\ NoCache /\ NoRegistration
     \/ /\ world = "audit" /\ Audit!AuditInit
        /\ NoClient /\ NoHistory /\ NoOwnership /\ NoCache /\ NoRegistration
     \/ /\ world = "ownership" /\ Ownership!OwnerInit
        /\ NoClient /\ NoHistory /\ NoAudit /\ NoCache /\ NoRegistration
     \/ /\ world = "cache" /\ Cache!CacheInit
        /\ NoClient /\ NoHistory /\ NoAudit /\ NoOwnership /\ NoRegistration
     \/ /\ world = "registration" /\ Registration!RegistrationInit
        /\ NoClient /\ NoHistory /\ NoAudit /\ NoOwnership /\ NoCache

SessionsNext ==
  \/ /\ world = "sessions" /\ Next
     /\ UNCHANGED <<world, bffVars, historyVars, auditVars, ownerVars, cacheVars,
                    registrationVars>>
  \/ /\ world = "client" /\ Client!BffNext
     /\ UNCHANGED <<world, vars, historyVars, auditVars, ownerVars, cacheVars,
                    registrationVars>>
  \/ /\ world = "history" /\ History!HistoryNext
     /\ UNCHANGED <<world, vars, bffVars, auditVars, ownerVars, cacheVars,
                    registrationVars>>
  \/ /\ world = "audit" /\ Audit!AuditNext
     /\ UNCHANGED <<world, vars, bffVars, historyVars, ownerVars, cacheVars,
                    registrationVars>>
  \/ /\ world = "ownership" /\ Ownership!OwnerNext
     /\ UNCHANGED <<world, vars, bffVars, historyVars, auditVars, cacheVars,
                    registrationVars>>
  \/ /\ world = "cache" /\ Cache!CacheNext
     /\ UNCHANGED <<world, vars, bffVars, historyVars, auditVars, ownerVars,
                    registrationVars>>
  \/ /\ world = "registration" /\ Registration!RegistrationNext
     /\ UNCHANGED <<world, vars, bffVars, historyVars, auditVars, ownerVars, cacheVars>>

SessionsSpec ==
  SessionsInit
  /\ [][SessionsNext]_<<world, vars, bffVars, historyVars, auditVars, ownerVars, cacheVars,
                        registrationVars>>

Symmetry == Permutations(Session) \cup Permutations(User) \cup Permutations(Origin)
            \cup Permutations(Key) \cup Permutations(Nonce) \cup Permutations(Request)

\* Bounds: two sessions, two BFFs, or two handlers of BffSessions at the same time; two
\* logins have refreshed once and seen one access token expire, taken together; one
\* user at a time has sessions.
OneSession == \A s, t \in created : s = t
OneBff == \A s, t \in created, r \in Request :
  {origin[t], req[r].from, req[r].aud} \subseteq {NONE, origin[s]}
OneHandler == \E r \in Request : \A o \in Request \ {r} : req[o] = Idle
Scope ==
  /\ (OneBff /\ OneSession) \/ (OneBff /\ OneHandler) \/ (OneSession /\ OneHandler)
  /\ world = "client" => \A s, t \in begun :
       s # t => newest[s] + newest[t] <= 1 /\ expired[s] + expired[t] <= 1
  /\ world = "ownership" => \A x, y \in session : x[1] = y[1]

\* The modules' type invariants, and their properties under the names of the modules
SessionsTypeOK ==
  /\ TypeOK
  /\ world = "client" => Client!BffTypeOK
  /\ world = "history" => History!HistoryTypeOK
  /\ world = "audit" => Audit!AuditTypeOK
  /\ world = "ownership" => Ownership!OwnerTypeOK
  /\ world = "cache" => Cache!CacheTypeOK
  /\ world = "registration" => Registration!RegistrationTypeOK
CookieFollows == world = "client" => Client!CookieFollows
ReuseForCause == [][world = "client" => Client!ReuseJustified]_bffVars
ShowsFilter == world = "history" => History!ShowsFilter
ShowsInvestigation == world = "audit" => Audit!ShowsInvestigation
StaysForCause == [][world = "ownership" => Ownership!StayJustified]_ownerVars
GoneHasNoSession == world = "ownership" => Ownership!GoneHasNoSession
CacheServesNothingOld == world = "cache" => Cache!CacheServesNothingOld
SettledIsWhatIsThere == world = "registration" => Registration!SettledIsWhatIsThere
=============================================================================
