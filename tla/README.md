# Verification of 0g0-id

Formal models of the identity provider in this repository: TLA+ modules, TLC
configurations that check them on small instances, and TLAPS proofs of the
properties that matter most.  This file says what the system consists of, which
module stands for which part, what the runs and the proofs show, and what is
still to be done.

Run everything from this directory: `tlc -config RefreshTokens_family.cfg
MCRefreshTokens.tla` checks a run, `tlapm RefreshTokensProofs.tla` checks proofs.
`PROJECT.json` lists the runs, the lines of the source each definition stands
for, a mutation of the code for each property, the hazards and the theorems.

## 1. The system

Four Cloudflare workers share the packages under `src/packages/shared`:

| Worker | Role | State |
| --- | --- | --- |
| `src/workers/id` | the identity provider: login with external providers, authorization codes, refresh tokens, device flow, DBSC, user and service administration | D1 (SQLite), one KV namespace |
| `src/workers/user`, `src/workers/admin` | backends for the two front ends (BFF): keep the session in an encrypted cookie, call the id worker over a service binding | the cookie in the browser |
| `src/workers/mcp` | MCP server that accepts the identity provider's access tokens | D1 table `mcp_sessions` |

### What makes it hard

* **One statement at a time.**  D1 runs one SQL statement, or one `db.batch`,
  atomically.  A request handler is a sequence of such statements with `await`
  between them, and any other handler may run in each gap.  There is no
  transaction across statements and no lock.
* **Compensation instead of rollback.**  A rotation consumes the presented
  refresh token first and gives it back (`unrevokeRefreshToken`) when a later
  step fails.
* **Failures.**  A statement may throw, may commit and still report an error, and
  the isolate may be evicted between two statements.
* **Stale reads.**  User, service and resource are read several statements before
  the INSERT that depends on them; suspension, deletion and re-registration run
  in the gaps.
* **Parallel clients.**  A BFF session is used by several tabs at once, each with
  the same refresh token; the later response decides what the cookie holds.  Two
  tabs that log in share one state cookie.
* **Copies without a protocol.**  Each isolate caches services for a while and
  tells the others nothing; a page in the browser keeps a list, a filter and a URL
  that answers may find changed.
* **Constraints without a transaction.**  What no foreign key says (a user needs a
  way in, the site an administrator, a deleted user no MCP session) rests on a
  SELECT some statements before the write.

### Components

| Component | State | Operations | Correct when |
| --- | --- | --- | --- |
| Refresh tokens (`db/refresh-tokens.ts`, `utils/refresh-token-rotation.ts`, `token-recovery.ts`, `token-pair.ts`; routes `refresh`, `refresh-token-grant`, `logout`, `revoke`) | `refresh_tokens` | issue, rotate, detect reuse, hand back, revoke one / a family / a user / a service / a resource, clean up | a family has one usable token; a token is exchanged once; what is over stays over; grants do not change on the way |
| Device grant (`db/device-codes.ts`, `routes/device.ts`) | `device_codes` | request, approve, deny, poll, exchange | a code buys one pair; a refusal holds |
| Login and codes (`routes/auth/callback.ts`, `exchange.ts`, `db/auth-codes.ts`, `authorization-code-grant.ts`) | `auth_codes`, `bff_sessions` | create a code, redeem it at either endpoint, create the BFF session | a code buys one pair, for the party of its login |
| BFF sessions and DBSC (`db/bff-sessions.ts`, `db/dbsc-challenges.ts`, `routes/auth/dbsc.ts`, `middleware/require-dbsc-bound.ts`) | `bff_sessions`, `dbsc_challenges` | create, revoke, bind a key, challenge, verify, test | one key per session; a nonce counts once; an ended session gives nothing |
| BFF client (`lib/bff.ts`, `lib/bff-auth-factory.ts`) | the session cookie | call, refresh on 401, retry, log in and out | parallel requests do not lose the session; the cookie follows login and logout |
| Login start and linking (`login.ts`, `callback.ts`, `link-intent.ts`, `utils/provider-resolution.ts`) | state and PKCE cookies, the jti of used link tokens in KV | begin, verify the state, link a provider | an answer belongs to the browser and the login that asked |
| Accounts (`db/users.ts`, `routes/users`, `mcp/src/tools/users.ts`) | `users` | upsert by provider, link, unlink, ban, role, log out everywhere, delete | an account keeps a way in and is opened by its owner; the last administrator goes only in the ways section 3 names; a demotion or suspension takes effect |
| Services, redirect URIs, client registration, resources (`db/services.ts`, `routes/register.ts`, `routes/services`) | `services`, `service_redirect_uris`, `resource_servers`, a cache per isolate | create, update, transfer, delete, look up | what was changed or deleted is soon no longer accepted; a client has the URIs it was told |
| Access tokens | `revoked_access_tokens` | revoke, introspect | a revoked token is reported inactive until it expires |
| MCP sessions (`db/mcp-sessions.ts`, `mcp/transport.ts`) | `mcp_sessions` | create, slide, delete | a session ends with its user |
| Login history and audit log (`login-history-loader.ts`, `audit-log-view.ts`, `security/audit.astro`, `db/login-events.ts`, `db/admin-audit-logs.ts`) | `login_events`, `admin_audit_logs`; list, filter and URL of the page | filter, load more, navigate, retry | what is shown is what is selected |
| Scheduled clean-up (`workers/id/src/index.ts`) | all of the above | delete what is over | removes nothing that is still needed |

They interact through the tables (a handler of one component reads and writes
rows of another: a ban revokes refresh tokens, BFF sessions and MCP sessions in
one batch), through foreign keys with `ON DELETE CASCADE` (a user takes its
codes, tokens, sessions and challenges along, a session its challenges), and by
calls between workers (a BFF calls the id worker over a service binding and
names its session in a header).  No component calls another back, and nothing is
queued.

## 2. Modules

| Module | Models |
| --- | --- |
| `RefreshTokens` | the token table and every handler that changes it |
| `OneTimeGrant` | abstract: what a one-time code promises |
| `DeviceGrant` | the device flow; implements `OneTimeGrant` |
| `AuthCodes` | provider callback, authorization codes, both redemption endpoints; implements `OneTimeGrant` |
| `BffSessions` | BFF sessions, DBSC endpoints, enforcement on a sensitive operation |
| `BffClient` | the browser's session cookie under parallel `fetchWithAuth`, login and logout |
| `Identities` | the provider columns of `users`: login, state cookie, linking, unlinking |
| `Administration` | roles, suspension, forced logout and deletion, by REST and by MCP tools |
| `ServiceOwnership` | deletion of users against what holds on to them; MCP sessions |
| `ServiceCache` | the in-memory cache of services in an isolate |
| `ClientRegistration` | redirect URIs of a client that registers itself (RFC 7591, 7592) |
| `LoginHistory`, `AuditPages` | two pages with the queries behind them |
| `RefreshTokensProofs`, `DeviceGrantProofs`, `AuthCodesProofs`, `BffSessionsProofs`, `AdministrationProofs` | theorems about those modules |
| `IdentitiesProofs` | theorems about `Identities`, of the specification of `MCLogins` |
| `BrowserProofs`, `ServicesProofs` | theorems about the other six modules of `MCSessions`, of its specification |
| `MC...` | symmetry sets, constraints and compositions for TLC |

`OneTimeGrant` is implemented by `DeviceGrant` and `AuthCodes`.  Where a module
touches rows that belong to another it has the part of them it needs: `BffClient`
has a token family with its newest generation and the 30 s of grace, which
`RefreshTokens` models in full; `Administration` has for each user whether a
refresh token and a BFF session are active.

In every module a **handler is a process** in a slot of `Request`; its `pc` names
the statement it runs next, and one action is one SQL statement (or batch)
together with the code up to the next `await`.  The tests a handler makes on the
result of a statement are part of the statement's action; what it read is kept
in the handler's record, so it may be stale when it is used.  `Abort` ends a
handler between two statements: an error that propagates, or an evicted isolate.
`Answer` sends the response.  Tokens, codes, nonces and keys are values that are
never guessed and are generated once; a token, its hash and its row id are the
same value.  Time is a bounded counter that ticks at any moment.

**RefreshTokens.**  `rows`, `col`, `revoked`, `revokedAt` are the table: `col` the
columns no UPDATE touches, `revoked` the class of `revoked_reason` that the code
can tell apart.  `delivered` is what clients have received.  `Present` is the
arrival at `/auth/refresh` or the `refresh_token` grant, then `Consume` /
`ConsumeMiss` (the conditional UPDATE), `Inspect`, `RevokeFamily` (reuse),
`Recheck`, `LoadUser`, `LoadService`, `LoadResource`, and the INSERT in four
outcomes: `IssueSucceeds`, `IssueGuarded` (the registration is gone), `IssueFails`,
`IssueUndelivered` (committed, but the client never hears).  The recovery is
`RecoverCheck`, `AttemptCheck`, `Unrevoke`, `UnrevokeFails` with the two retries.
`BeginRevocation`, `FindToRevoke`, `RevokeFound` are logout and RFC 7009; the
rest are statements of other handlers.  The CONSTANTS `Kind`, `Admin` and `Fault`
switch entry points, other operations and failures on, so that a run can look at
a part with larger bounds.

**DeviceGrant.**  `BeginPoll` to `Issue` follow `handleDeviceCodeGrant`; `Verdict` is
its order of tests (expired, denied, pending, approved), `Takes` the DELETE by
whose row count one of several polls wins.  A decision on `/verify` is a SELECT
(`FindToDecide`) and an UPDATE by id that repeats no test (`Decide`).

**AuthCodes.**  `BeginCallback` to `CreateAuthCode` are the callback from the point
where the provider has said who the user is.  `Consume` is
`findAndConsumeAuthCode` with the tests that need no database; `/auth/exchange`
authenticates the service after it, `/api/token` before.  `Issue` and, for a BFF,
`CreateSession` end a redemption.

**BffSessions.**  `FindToBind`/`StoreKey`, `FindToChallenge`/`InsertNonce`,
`CheckProof`/`ConsumeNonce` are the three DBSC endpoints; `RequireBound`,
`Authenticate`, `RunOperation` a sensitive request through both middlewares.  A
proof JWT is what its checks tell apart: the signing key, the nonce and the
audience.

**BffClient.**  `StartCall`, `Fetch`, `Refresh`, `UseTokens` or `React` follow
`fetchWithAuth` and its call of `/auth/refresh`; the response waits in the slot
until `Deliver` sets the cookie or `Lose` drops it, in any order.  `StatusOf` is the
answer of the id worker; within the 30 s of grace it says `TOKEN_ROTATED` of a spent
token whatever has become of the family (`graced`).  `overtaken` marks requests that were in flight when the
browser logged in or out.

**Identities.**  A flow of a tab is a login, a linking or an unlinking.  `StartAt`
sets the state cookie for the whole browser, `Callback` tests it; then `UpdateProfile`,
`FindByEmail`, `Attach`, `InsertUser` are the statements of `upsertProviderUser`, and
`CheckOwner`, `LinkProvider` those of `linkProvider`.  `CountProviders` and
`UnlinkProvider` are a DELETE of a provider.  A login with a link token asks Workers KV
whether the token's jti has been used and stores it with a second call
(`login.ts:169-173`).  KV is eventually consistent and keeps the answer "not there" for a
while too, so neither order nor distance in time makes the second login see the first
one's entry, and without the binding there is none: `LoginWithToken` lets every login
find the token unused, as often as it likes.

**Administration.**  A handler is the list of statements it has still to execute.
`Admitted` is the administrator's middleware (the MCP server trusts the token's
role instead), `RoleBatch` and `BanBatch` the batches of `db/users.ts`, `RoleFor` the
role that a login or refresh writes into what it issues.  `DeleteUser` is the deletion by
an administrator, over REST or MCP, and `DeleteOwnAccount` that by the user: both run
the statements of `Deletion`, and `DeleteRow` takes along what refers to the row.  A user
without a row has the role "none", and `Register` is the INSERT of a first login; a new
user has a new id, so an element of `User` is used again only when no handler is about
it any more.

**ServiceOwnership.**  `CountServices`, `EndSessions`, `DeleteRow` are
`performUserDeletion`; the other handlers have looked something up before their one
statement.  **ServiceCache** has for each handler a statement and what the isolate
does with the answer (`Resume`).  **ClientRegistration** replaces rows one by one,
with ids, so that a URI deleted and added again is another row.

**LoginHistory** and **AuditPages** are event handlers of a page: an action for
each event, and for each answer an action for what the code does with it
(`Ignore`, `AskAgain`, `Show`, `Fail`; `Discard`, `ShowRows`, `RefusePage`,
`GoToLastPage`, `FailFetch`).  Neither keeps the table itself: `logins` is, for each
filter, the list that the filter selects, and `entries` the number of rows it selects,
so that a query reads one value and an INSERT writes all that select the new row.

## 3. Runs

All bounds are in the `.cfg` files.  Each property has a mutation of the code in
`PROJECT.json` under which the same run finds it violated, so none of them holds
merely because the interesting case is out of bounds.

| Run | Shows |
| --- | --- |
| `rt_family` | `SingleUsable`, `RotateOnce`, `ExhaustedIsFinal`, `RevocationIsFinal`: two parallel requests of a BFF session (refresh, logout, replay), user-wide revocations, deletion of the account, clean-up, and writes that fail or commit and still report an error |
| `rt_grants` | `FamilyUniform`, `ResourceBound`, `BarredGetsNothing`: two services and the BFF endpoint with each other's tokens; suspension, service deletion and re-registration of a resource run in between |
| `rt_live` | `Answered`: every handler ends, whatever its writes do |
| `rt_reuse`, `rt_logout`, `rt_ban` | three claims of the documentation that interleavings refute (section 5) |
| `logins` | of `DeviceGrant` `RefusedStaysRefused`, `BarredGetsNothing`, and `GrantOnce`: the device flow implements `OneTimeGrant`; of `Identities` `OpensOwnAccount`, `KeepsAWayIn`, `DisplacesNothing`, `AttachedForCause` |
| `dg_decide`, `bff_rotated` | two more refuted claims (section 5) |
| `ac_codes` | `GrantOnce`, `BarredGetsNothing`, `PairFitsLogin`, `ResourceBound` for authorization codes: confidential and public services and a BFF with each other's codes, callbacks and verifiers, around expiry, clean-up, suspension, deletion and re-registration |
| `sessions` | of `BffSessions` `NonceOnce`, `ConfirmedKeyHolds`, `OverIsOver`, `EnforcedMeansBound`, `ProofFitsSession`; of the browser `CookieFollows`, `ReuseForCause`, `ShowsFilter`, `ShowsInvestigation`; of services `CacheServesNothingOld`, `SettledIsWhatIsThere`, `StaysForCause`, `GoneHasNoSession` |
| `administration` | `KeepsAnAdmin`, `SessionRoleFromRow`, `SuspendedStaysOut`, `LogoutReachesAll`: two handlers of two users, one of them the first administrator |

**Properties with a cause.**  Many tests of this code are a SELECT some statements
before the write they protect, so "never" would be false and "unless something
overlapped" would be easy to say too broadly.  These properties therefore name the
exact cause: `KeepsAWayIn` says that an account loses its last provider only in an
unlinking during which any other flow has changed a row, so that its count
(`me.ts:304`) may be an old one; `SessionRoleFromRow` and `SuspendedStaysOut` that only a
handler that read the row before it changed may still write the old role or let a
suspended user in; `LogoutReachesAll` that a logout everywhere leaves nothing, unless a
session began meanwhile or the MCP tool did it.

`KeepsAnAdmin` needs a longer list, because the code keeps an administrator less well
than its tests of the caller suggest.  A request is admitted on the role in its access
token, which is up to 15 minutes old, so two administrators can demote or delete each
other (or suspend, over MCP), and one who was demoted can still act; the MCP tools do not refuse to act on
the caller; and `DELETE /api/users/me` (`me.ts:456`) does not ask for the role, so that
the last administrator may delete the own account.  Then nobody can give the role
back but a login under `BOOTSTRAP_ADMIN_EMAIL` (`db/users.ts:327`), if it is configured
and that user is not suspended.  The property lists these ways and says that there is no
other: over REST nobody changes the own role or suspends oneself, and whoever can still
act and acts on another is an administrator who remains.

The histories that record the cause (`disturbed`, `overtaken`, `late`, `moved`,
`crossed`) are written by the actions of the others and read by no guard.

**What the causes leave out.**  A property that allows what an overlap does cannot
say that the overlap is harmless.  It is not, in these places, and the code has no test
that would make it so:

* `KeepsAWayIn`: two parallel removals take the last two providers.
* `DisplacesNothing`: a login by address can overwrite a link that was made after its
  test; `OpensOwnAccount` still holds.
* `StaysForCause`: a resource server, or a service given after the count, makes the DELETE
  fail when the sessions are gone.  `GoneHasNoSession`: an MCP session whose initialize
  overlapped the deletion stays.
* `SettledIsWhatIsThere`: overlapping updates of a client, or a failed one, leave a mixture
  of redirect URIs.  What is claimed is that no answer calls the mixture done unless
  handlers overlapped.
* `LogoutReachesAll`: a session that begins between two of the statements survives, and MCP
  sessions are not in this module (`ServiceOwnership` has them).
* `OverIsOver`: of a request that was let in before its session ended, only that it binds
  no key afterwards; a proof checked or an operation authenticated before still counts.
* `ExhaustedIsFinal` leaves out families with a rotation in flight, which `rt_reuse` is about.  The trace of `rt_logout` has the rotation before the SELECT of the logout; between
  its SELECT and its UPDATE it has the same effect.

**One run, several modules.**  `MCSessions` and `MCLogins` compose modules that
share no variable.  A behaviour is in one `world`, the variables of the others are
off, and the states add up instead of multiplying.  Their bounds are CONSTANTS of the
composition (`MaxLogins`, `AuditPage`, `TTL` ...) with values in the `.cfg`, so that the
theorems about it are of every bound; its ASSUMEs collect those of the parts.
`Administration` and `Identities` are apart as neither reads what the other writes but
for the suspension and the deletion, which both have.

**Deadlock** is checked but where the system may really stop: in `sessions` and
`bff_rotated`, whose clocks, sessions and logins run out, and in `administration`, where
everybody may end up suspended with nobody admitted to lift it.

**Why the bounds are enough.**  Two handlers and one family (or code, or session)
are what a race needs; a third party enters through the unbounded actions of
other handlers, which have no slot.  Three tokens are a login and two rotations,
so a token can be rotated, presented again, and its successor rotated; two suffice
where the property compares a token with its successor.  Clocks run one or two
ticks with life times of zero or one, so that every expiry, the grace of 30 s and
both retention periods fall inside; in `rt_family` a row that is one tick old is
both expired and due for clean-up.  `MaxGen` and `Generation` allow one
re-registration.  The classes of values that no formula tells apart are symmetric;
where a set is named by a constant (`Public`, `Callback`) it is not, and the
liveness run uses no symmetry.  An INSERT beyond the tokens of an instance fails
like one that the database refuses.

Two runs have a state constraint, `Scope`, defined in their MC module.  In `AuthCodes`
two handlers run together while no resource is registered and the public service
stays away; with them, one handler at a time, between whose statements every other
operation still runs.  In `MCSessions` there are two of two of these three:
sessions, BFFs, and handlers at work (two BFFs are needed for a proof made for one and
presented by the other, `ProofFitsSession`); two logins of `BffClient` have together refreshed once and seen one
access token expire, and one user at a time of `ServiceOwnership` has sessions: each
cuts the product of two dimensions, and each dimension alone is explored in full.

`Identities` has two accounts at one provider and one at the other, so that an address
can meet an account of its own and of another provider; one link token and two tabs
are a token used twice, at once or later.  `LoginHistory` has pages of one row and three logins: a first
page, a further one, and one that shifts them.  `AuditPages` has pages of one row and
one entry of each of two kinds, so that all entries are two pages, those of a kind one or
none, and a page can be full, empty or past the end.
`ServiceCache` has a time to live of two ticks and a clock of three, `ClientRegistration`
two URIs and six rows: an update that keeps one and replaces the other, twice.

**Fairness.**  Only `rt_live` assumes any: `WF_vars(Step(r))` for every slot.  An
awaited statement settles, with a result or an exception, and the handler goes
on; the workers runtime gives no guarantee beyond that (a handler may still be
aborted).  No fairness is assumed of clients, the clock or the clean-up.

`rt_reuse` uses an action constraint: the clock only ticks while no handler is
running, so that its counterexample does not rest on a handler that takes 30 s.

## 4. Proofs

Every property of every passing run is a theorem, but for `Answered` (liveness).

| Module | Theorem | States |
| --- | --- | --- |
| `RefreshTokensProofs` | `TypeCorrect` | `Spec => []TypeOK` |
| | `FamilyHasOneUsableToken`, `TokenRotatesOnce` | `"unrevoke_applied" \notin Fault => (Spec => []SingleUsable)`, and the same of `RotateOnce` |
| | `FamilyKeepsItsGrant` | `[]FamilyUniform` |
| | `PairsFitTheRegistration`, `BannedGetsNothing`, `RevokedForGood`, `ExhaustedForGood` | the action properties `ResourceBound`, `BarredGetsNothing`, `RevocationIsFinal`, `ExhaustedIsFinal` |
| `DeviceGrantProofs` | `TypeCorrect`, `DeviceCodeBuysOnePair` | `[]TypeOK`, `[]OnePair` (only proved: `GrantOnce` says more to TLC) |
| | `DeviceFlowIsOneTimeGrant` | every behaviour of the device flow is one of `OneTimeGrant` |
| | `RefusalIsFinal`, `SuspendedGetsNothing` | `RefusedStaysRefused`, `BarredGetsNothing` |
| `AuthCodesProofs` | `TypeCorrect`, `CodeBuysOnePair` | `[]TypeOK`, `[]OnePair` (only proved) |
| | `CodeFlowIsOneTimeGrant` | every behaviour of the code flow is one of `OneTimeGrant` |
| | `TokensFitTheLogin`, `GrantsEndWithTheResource`, `SuspendedGetsNothing` | `PairFitsLogin`, `ResourceBound`, `BarredGetsNothing` |
| `BffSessionsProofs` | `TypeCorrect`, `NonceIsOnce`, `ConfirmedKeyStays` | `[]TypeOK`, `[]NonceOnce`, `[]ConfirmedKeyHolds` |
| | `AcceptedProofFits`, `OverStaysOver`, `EnforcementHolds` | `ProofFitsSession`, `OverIsOver`, `EnforcedMeansBound` |
| `AdministrationProofs` | `TypeCorrect`, `LogoutIsComplete` | `[]TypeOK`, `[]LogoutReachesAll` |
| | `RoleComesFromTheRow`, `SuspensionHolds`, `AdministratorsRemain` | `SessionRoleFromRow`, `SuspendedStaysOut`, `KeepsAnAdmin` |
| `IdentitiesProofs` | `IdentitiesTyped`, `LoginOpensOwnAccount` | `LoginsSpec => []IdentitiesTypeOK`, `[]OpensOwnAccount` |
| | `LastProviderIsKept`, `ConnectedStaysConnected`, `AccountsAreGainedByTheirUser` | `KeepsAWayIn`, `DisplacesNothing`, `AttachedForCause` |
| `BrowserProofs` | `CookieFollowsLogins`, `ReuseHasACause` | `SessionsSpec => []CookieFollows`, `ReuseForCause` |
| | `PageIsOfTheInvestigation`, `ListIsOfTheFilter` | `[]ShowsInvestigation`, `[]ShowsFilter` |
| `ServicesProofs` | `SettledMeansThere`, `GoneUsersHaveNoSession`, `NothingOldIsServed`, `SessionsTyped` | `SessionsSpec => []SettledIsWhatIsThere`, `[]GoneHasNoSession`, `[]CacheServesNothingOld`, `[]SessionsTypeOK` |
| | `AccountsStayForCause` | `StaysForCause` |

They hold for every value of the constants within the named assumptions of the
modules: any number of tokens, families, users, services, codes, sessions, keys,
providers, tabs and parallel handlers, any life time, page size and bound, and any set
of failures (but for the one assumption above).  What the constants must satisfy is
that the null values are none of the values, that sizes and times are natural numbers
(a page has at least one row), and that an account belongs to one provider and the
first administrator is a user.  The state constraints and symmetries of the runs play
no part: the theorems are of the unconstrained specifications.

The inductive invariant of each module has the same shape.  The properties are not
inductive as they stand, because the write that they are about comes some
statements after the tests that justify it; what has to be added is **what a passed
test still says at each later statement**, for every handler, and the reason why the
steps of others do not spoil it.

*Refresh tokens.*  "At most one usable token" is not inductive: a rotation that
has consumed a token may hand it back, so a state with a usable token and such a
rotation in the same family would lead to two.  The invariant is therefore about
the right to continue a family, which is at any time in one place.  `OneOwner`
says that while a rotation `Holds` a token no token of the family is active and no
other rotation holds one; `SpentIsSpent` that a token with a delivered successor is
neither active nor held; `HandlerOK` ties what a handler knows to the table.
Together with `SingleUsable` and `RotateOnce` they form `RotationInv`.  The proof
goes by groups of actions: consuming moves the right from the row to the handler,
issuing moves it to the successor, handing back returns it, and sweeps only take
it away.  The assumption is needed: if the UPDATE of `unrevokeRefreshToken` commits
and still reports an error, the handler keeps trying although the token is already
usable, and a later try may revive a token that was meanwhile rotated.

What was granted is a second invariant, `Granted`, and needs no assumption on the
failures: `Knows` says that a rotation's context is the columns of its token and that the
service on its way is the one that authenticated, and `Stopped` that a request which arrived under a
suspension has not come past `findUserById`.  Rows never change their columns
(`SameRows`), so both survive the other handlers' steps, and `FamilyUniform`,
`ResourceBound` and `BarredGetsNothing` follow.  `RevocationIsFinal` and
`ExhaustedIsFinal` compare the two states of a step; `RevokedStays` and `OverStays` go
through the actions that may make a row active (a hand-back, only of a row that a
rotation consumed; an INSERT, only by a rotation that is in flight).

*One-time grants.*  In `DeviceGrant` and in `AuthCodes` `OneRight` says that the right
to the pair of a code lies in its row, then in the one handler whose statement took the
row, and is then spent.  The refinement maps a code to its stage (`StageOf`: new, open,
taken, used, void); one lemma per effect of a step shows that the stage moves along
`OneTimeGrant` or stays.  The two differ in what is taken: the device flow deletes the
row, the code flow marks it as used, and the clean-up then deletes marked rows too.
For the other properties of `AuthCodes`, `Matches` says which columns of its code a
redemption has already compared at each of its statements, and `Lasting` that no step
changes a column of a code that exists.  In `DeviceGrant`, `Honest` says that a poll
which came too late finds its code refused when it looks it up, and `RefusalsStay`
that nothing lifts a refusal; in both, that the suspensions a request arrived under
are still in force and its owner is none of those suspended, once it is past the test.

*BFF sessions.*  The checks of a handler and the write they are for are separate
statements, so each property rests on what a passed check still says later.
`Holds` states it for each step a handler may be at (the key, origin and audience
of a proof about to be consumed; that a request which arrived too late never gets
past its first test).  `Ageing` states why it stays true whatever others do
between the two: no step changes the origin of a session, replaces a device key or
brings a session back that was over.  `Accounts` ties the accepted proofs to the
consumed nonces and the confirmed keys to the stored one.  Their conjunction with
the types, `IInv`, is inductive, and all six theorems follow from it.

*Administration and Identities.*  Here the properties name a cause, and the invariants
say what is true without it: of a handler that is not `disturbed`, what it read is what
the row says (`Sound`), and of a tab that is not overlapped the address it found is
still there unconnected, and the count of providers is still right (`Steady`).  For
`KeepsAnAdmin` it is enough that a handler which changes its own user was not begun over
REST, except for a deletion.  A step that spoils this is one that disturbs the
handler, by the definition of `Observe`; so whatever goes wrong was done by a disturbed
one.  For `OpensOwnAccount` the invariant carries `found \in seen`: a user whose session
a tab may open has held the account while the flow ran.  `FlowOK` also ties the link in
a flow to the user its token was issued for, on which `AttachedForCause` rests.

*The browser.*  For `CookieFollows`, `CallOK` says for every request that is not
overtaken, at each stage up to its response, that it carries the session that is
wanted.  `ReuseForCause` needs to know where the newest tokens of a session are:
`Tokens` says that they are with one response or else in the cookie, that whatever else
is under way is of a rotation still in grace, as long as no cookie was lost and no grace
ended on a request.  A reuse contradicts it, so it has the one or the other cause.  Of
the audit page, `NewestIsTheUrl` says that what is under way is for the URL and that
nothing is shown meanwhile, and `Whole` how the two numbers of an answer fit, one being
of now as long as the other is not read.  Of the login history, `LatestContinues` says
that the answer under way continues what is shown, and `ShownInOrder` that what is shown
is a prefix of the list; appending the page keeps both.

*Services.*  `Progress` says that what a registration has still to add, what it is to
delete and the rows that are there make up what was asked, for a handler that is alone.
`OwnerOpOK` says that a deletion which has counted goes on for a user without services
unless one was given since, and that the MCP sessions it meets at the row are late ones.
`EntryOK` bounds how long a cached version may outlive its row, and relates it to what
the isolate has answered for; `HandlerOK` says the same of an answer that a handler
still has in its hands, and that a handler which is not crossed is alone with look-ups.

*The form of the proofs.*  Each module has a lemma per action, or per group of actions
with one effect, that the invariant is kept, lemmas on how one slot of `Request`
moves, and one frame lemma for the slots that do not.  In `BrowserProofs` and
`ServicesProofs` the invariant of a part is guarded by its `world`, and one lemma per
part says that a step of the composition is a step of that part or leaves it alone.
`ServicesProofs!SessionsTyped` takes the type correctness of `BffSessions` from
`BffSessionsProofs`, as behaviours of the composition are behaviours of it.  Every
inductive invariant also holds in TLC on the instances of the runs.

*Only model-checked:* `Answered`, which needs fairness and is out of the proof system's
reach, and the violations of section 5.  The refinements
are of safety: that a code is ever used is not claimed.  Without the assumption on
`Fault`, `SingleUsable` and `RotateOnce` are neither proved nor checked: `rt_family` leaves
that fault out too, and `rt_live` has it only for `Answered`.

## 5. Where the code and its documentation disagree

Found while modelling; each is the violation of one property by one run, and the
quotations are in `PROJECT.json`.

* `rt_reuse`: after `TOKEN_REUSE` a family can still have an active token.  The
  sweep revokes active rows; a rotation in flight has none, and inserts its
  successor afterwards.
* `rt_logout`: `/auth/logout` revokes the one row it was given, if it is still
  active; the documentation says it revokes the family.  A refresh just before
  leaves the successor active.
* `rt_ban`: the ban is one batch, but a refresh that read the user before it
  inserts an active token after it.  (The next refresh with that token is
  refused: `BarredGetsNothing`.)
* `dg_decide`: an approval and a denial of a device code can both be answered as
  accepted; the documentation promises `CODE_ALREADY_USED` for the second.
* `bff_rotated`: who loses the race for a rotation is answered 502, although the
  code's own comment (`bff.ts:329`) says 503, to be tried again: the id worker sends
  `TOKEN_ROTATED` with status 503, which an earlier branch takes for a failing server.

Smaller ones, which the properties allow for and name as a cause:

* `db/services.ts:25` says the cache is dropped at once.  A look-up that read the row
  before the change and resumes after it puts the old row back, for the time to live
  (`crossed` in `ServiceCache`).
* `login-history-loader.ts:20`: a page asked for between a filter that the browser
  restored and the timer that notices it is appended to rows of the other filter
  (`hasty` in `LoginHistory`).
* `login.ts:167` calls the test of a link token's jti a guarantee of one use
  (「ワンタイム性保証」).  Two look-ups before the first store both pass, and so may later
  ones, as KV is eventually consistent; what the token links remains its own user's
  (`AttachedForCause`).
* The MCP tool `revoke_user_sessions` says that it ends all active sessions; it leaves
  `bff_sessions`, which the REST route ends (`door = "mcp"` in `Administration`).
* `performUserDeletion` ends all sessions before a DELETE that a resource server of the
  user refuses; the services it counts first, the resource servers not.
* A device code is deleted before its tokens are issued, so a failure between the two
  costs the device its code; `GrantOnce` allows it (stage void).  In the same way a BFF
  whose session cannot be inserted (`exchange.ts:174`) leaves a token pair that nobody
  has; it expires, or goes with a logout everywhere.

## 6. What is not modelled

* Cryptography, JWT encoding and the external providers' protocols: taken as
  perfect and out of the workers' hands.
* Scopes and subjects of a resource: a refusal that may happen at any time.
* Access tokens' contents, ID tokens, response wording, logging, metrics, rate limits.
* Account lockout: nothing calls `recordFailedAttempt`, so no account is ever locked.
* `cleanupStaleBffSessions`: documented as a daily job, and nothing calls it; the table
  grows.
* The name, picture and other profile fields; scopes and names of a service are part
  of its version.
* The sliding expiry of an MCP session, which decides only when the clean-up may act.
* The check of an access token's own claims.  A token of a registered service is issued
  with `aud = resource ?? clientId` (`utils/token-pair.ts`), while userinfo,
  introspection and the MCP server accept `IDP_ORIGIN` only, and the MCP server's
  schema also requires a `kid` in the payload, which `signAccessToken` puts in the
  header (`docs/rp-profile-minimization-migration.md:60-63` records both as existing
  limits).  The MCP doors of `Administration` and `ServiceOwnership` therefore start
  from a caller who holds a token of that form, as the repository's CI smoke test does;
  they say nothing of where it came from.
* The list of revoked access tokens: one INSERT and one test of it.
* Routes that pass a request on (`workers/user`, `workers/admin`) or read once
  (introspection, userinfo, statistics).

Much of the repository has no steps to model: the two OpenAPI literals
(`openapi/internal-spec.ts`, `external-spec.ts`), the smoke tests under `src/scripts`,
`admin/public/app.js` and the other front-end pages, which show one answer and forget
it, and the shape checks, wording and metadata of the routes.  The map therefore names
a minor share of all lines; of the files that keep state it names most handlers.

## 7. Plan

Modelled and checked: everything in section 2.  Proved: every property of the passing
runs but `Answered`.  What is worth doing next, in order:

1. `RefreshTokens` with every fault: the exact cause for which a family may have two
   usable tokens (an UPDATE of `unrevokeRefreshToken` that commits, reports an error and
   is tried again after another rotation), as a property and as a theorem without the
   assumption on `Fault`.
2. The theorems of `BffSessionsProofs` and `DeviceGrantProofs`, which are of the modules'
   own `Spec`, as theorems of the compositions `MCSessions` and `MCLogins` too, as
   `SessionsTyped` and `IdentitiesTyped` are.
3. Lemmas that several proofs repeat (how one slot of `Request` moves) stated once.
