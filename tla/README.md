# Formal verification of the Court Knights API

TLA+ models of the Court Knights backend (`api/`, with the schema in
`db/migrations`), the TLC runs that check them on small instances, and TLAPS
proofs of the central properties for all instances.

- [1. The system](#1-the-system): components, state, operations, what is hard
- [2. The modules](#2-the-modules): which module models what, and how
- [3. The runs](#3-the-runs): what TLC checks, and why the bounds are enough
- [4. What the code does not do](#4-what-the-code-does-not-do): divergences
- [5. The proofs](#5-the-proofs): what is proved, and along which argument
- [6. What is not modelled](#6-what-is-not-modelled)
- [7. The plan](#7-the-plan): what could still be added

To check a run: `tlc -config MCLogin.cfg MCLogin.tla`. To check a proof:
`tlapm AccountsProofs.tla`.

## 1. The system

The API is a Go server over PostgreSQL, in hexagonal layers: `api/internal/api`
(Echo handlers), `application` (use cases: "managers"), `domain` (entities and
ports), `infrastructure` (PostgreSQL, OAuth2, JWT). It signs users in with
Google, GitHub or a personal access token (PAT), issues JWTs, and keeps one
profile per user.

Two facts shape everything below:

- **No use case runs in a transaction.** ADR-013 has every repository call
  commit by itself and asks for idempotent writes instead, so that a retry
  repairs a partial failure. Every point between two statements is a point at
  which another request, another replica or a crash comes in.
- **The server keeps no state between requests.** All shared state is in the
  database, which several replicas may use at once; what a request holds in its
  variables is a copy that may be stale.

| Component | State | Operations | Interacts with | What is hard | What makes it correct |
|---|---|---|---|---|---|
| Accounts and logins: `application/auth/{manager,user_manager,jwt_manager}.go`, `postgres/{user,pat}_repository.go` | tables `users`, `personal_access_tokens` | OAuthCallback / DevicePoll, ExchangePAT, RefreshJWT, CreatePAT, RevokePAT, UpdateUserRole | profile manager (EnsureExists), JWT adapter, providers | concurrent logins, deletion at any point, rows that vanish between two statements, failures halfway | unique accounts, one account per identity, no token from a dead PAT or a deleted user, role of the record in a token, a profile after every login |
| Bootstrap: `cmd/server/server.go`, BootstrapAdmin | `users`, one PAT, one profile | CountAll, Upsert, Save, EnsureExists at every start | serving replicas | replicas that start together; a crash between the steps | one admin; start-up never fails for ever |
| Profile update: `api/profile/{handler,patch}.go`, `application/profile/manager.go`, `domain/profile`, `postgres/profile_repository.go` | table `user_profiles` | GET and PATCH `/users/me/profile` | accounts (rows appear and disappear) | validation against a profile that changes before the UPDATE; three-valued members | valid location; no lost update; the merge RFC 7396 prescribes |
| Profile list: `listUsers`, `ProfileRepository.List` | none | GET `/users` | users, profiles, the client that reads page by page | two statements for total and page, more for the next page; rows that come, go and move; arithmetic of the offset | nobody is skipped or repeated but for a row that moved; a page beyond the total is empty |
| JWT adapter and middleware: `infrastructure/jwt`, `api/common/middleware.go` | none (a token outlives its request) | Sign, Validate | accounts | role and existence of the user change while the token lives, and while it is being issued; clocks of several replicas; whole seconds | claims are out of date by a bounded time, however often refreshed; only admins change roles; no token is refused early |
| OAuth2 providers and device flow: `infrastructure/oauth2`, `application/auth/oauth_manager.go`, `api/auth` | device and authorization codes, held by the provider | RedirectURL, Exchange, DeviceAuth, DevicePoll | external provider, accounts | polling against approval, denial, expiry; a code is redeemed once although a later step can fail | a poll gets the answer of the device code's state; a poll that fails after redemption is not silently a success |
| `tools/oauthfake` | codes, device codes, tokens under one mutex | authorize, token, device, resolve, userinfo | the API, browsers | expiry against resolution | a code is redeemed at most once |
| Schema migrations: `db/migrations` | the schema | 001 to 005 | a running older server | backfill against inserts of the older server, rollback under a running one | every constraint holds of the rows that exist; whoever has a profile is found |
| Handlers, router, CORS, configuration, command line | none | one request or one start each | all of the above | — | unit tests cover them |
| `web`, `e2e`, `infra` | — | — | — | placeholders, scripts | — |

Every hazard, with the line where it bites and the property that covers it, is
in `PROJECT.json` under `hazards`.

## 2. The modules

### Registry and Accounts

`Registry.tla` is the abstract specification of what the auth use cases promise a
client, without statements, replicas or tables of profiles: one registry of
accounts and keys (PATs). A request is asked, takes effect at **one moment** before
it is answered, or not at all, and what its JWT says was so at such a moment. Its
liberties are those the code takes: a refused login is told so later than it was
found out (`Refuse`, `TellRefused`), a PAT is found good and its user looked up at
two moments (`Present`, `Look`), a login can fail after it took effect, and an
answer may be lost (`Changed`). The bootstrap creates an admin on an empty registry
only, unless somebody was deleted.

`Accounts.tla` models accounts, PATs, the existence of profiles, and the
bootstrap. It is one module because all of these share the three tables and
their foreign keys, and what is hard is how their steps interleave.

**Tables.** `users` maps an id to its row or to `Unused` / `Gone`; ids are
UUIDs, so a `Gone` id never returns. `pats` is alike; `profiles` is the set of
ids that have a row in `user_profiles`. The constraints of the migrations are
where the statements meet them: UNIQUE `email` and UNIQUE `(provider,
provider_id)` in `Upsert`, `Insert` and `BootUpsert`, the foreign keys in
`EnsureProfile`, `CreatePAT`, `BootSavePAT` and `BootProfile`, their
`ON DELETE CASCADE` in `DeleteUser`.

**Requests.** Each `r \in Req` is one HTTP request. `Begin` gives it a job and a
serving replica; from then on **one action is one SQL statement** (or one local
step), and `pc[r]` names the next one. `seen[r]` is what the handler holds in its
variables.

| Code | Actions |
|---|---|
| OAuthCallback, DevicePoll (after the provider has named the user) | `Upsert`, `Insert`, `EmailOwner`, `EnsureProfile`, `Sign` |
| ExchangePAT | `FindPAT`, `FindUser`, `Sign` |
| RefreshJWT | `FindUser`, `Sign` |
| CreatePAT | `FindUser`, `CreatePAT` |
| RevokePAT | `RevokePAT` |
| UpdateUserRole | `UpdateRole` |
| an operator's `DELETE FROM users` | `DeleteUser` |
| time passing a PAT's `expires_at` | `Expire` |
| runBootstrap, per replica | `BootCount`, `BootUpsert`, `BootSavePAT`, `BootProfile` |
| a server that ends, and is started again | `Stop`, `Start` |

`INSERT ... ON CONFLICT (provider, provider_id) DO UPDATE` is two actions,
because PostgreSQL does it in two: it looks for the identity (`Upsert`), and
only when there is none inserts the row and checks it against the indexes
(`Insert`), `users_email_key` before the key of the identity because it was
created first. Only the named index is resolved by an update; a violation of the
other one is an error. When the insert meets a row of the same identity that was
committed since the lookup and has another email, the statement starts over and
updates that row.

**Failures.** `Fail` ends a request before any of its statements; a database
error, a cancelled request and the lost answer of the statement before are the
same to the client. `Done` lets the answer of a request's last statement be lost
after it took effect. It is assumed that a statement whose answer is lost has
taken effect, if at all, by the time the request is answered. `Stop` ends a
replica at any step, with all requests on it.

**What stands for what.** A PAT's id stands for its raw key: the code finds the
row by a salted hash of the key, compared against every stored PAT, and two keys
are never equal. A bootstrap admin's identity is `(pat, fresh uuid)`, for which
its own id stands. Names, timestamps and metadata of tokens are left out.
No endpoint deletes a user; `DeleteUser` is the operator's statement that the
foreign keys, the 401 of `RefreshJWT` and its tests provide for. `before[r]` is a
history variable (what was over when `r` began), read by properties only.

`RequestsAreAtomic` says that `Accounts` implements `Registry`. The tables are
mapped as they are; `StageOf` maps the step of a request to what it is for its
client (`"upsert"`, `"insert"` and the like are all `"asked"`), `ClaimsOf` whom it
has been found to speak for. Profiles, replicas and history are hidden.

### MergePatch and ProfilePatch

`MergePatch.tla` is the abstract specification: what PATCH `/users/me/profile`
promises. A request applies its whole patch to the profile in one step and
returns the result, or changes nothing; when its answer is lost, either may have
happened. Its one liberty is that a patch with a country and no region may
clear the region.

`ProfilePatch.tla` is the code: `Parse` (updateMyProfile up to the manager,
parseProfilePatch), `ReadStored` (FindByUserID, the empty patch,
applyLocationRules), `Update` (the single UPDATE statement with its CHECK
constraint), `Fail`, and the two things that happen to the row from elsewhere,
`EnsureExists` (a login) and `DeleteUser`. A member of a patch is `Absent`,
`Null`, `Malformed` (wrong type, too long, not in the enumeration: refused by
the parser), or a value. `todo[r]` is the patch after the location rules: what
was decided on the row that was read, applied to the row as it is by then.
`MergePreferences` is the expression that `updateBuilder.mergePreferences`
builds, clear, set and remove in this order. `Check` is constraint 005; it does
not know ISO 3166, so that the stored country and region are ISO codes rests on
the manager's validation and that they match rests on the constraint.

### Grants and OAuthLogin

`Grants.tla` is the abstract specification of an authorization code or a device
code: it is issued, approved or denied once, lapses, and is granted to one
request at most; every answer is the truth about the code at a moment between
the question and the answer. A code of the redirect flow (`OneTry`) is
approved when it is issued, and any attempt uses it up.

`OAuthLogin.tla` is the code, with three parties:

- **The provider** is `oauthfake`'s store. Each of its operations holds the
  mutex from end to end and is one action: `StartDevice`, `IssueCode`,
  `Resolve`, `PollDevice`, `RedeemCode`. `codes` has one row per code; rows are
  kept after their use (`spent` for `redeemed`, and for an authorization code
  that was deleted) and after a restart (`Restart`: `forgotten` has the codes the
  provider no longer knows), so that properties can refer to them. A user code
  stands for its device code, an access token for the code it was given for.
- **The API** keeps nothing between calls. `Receive` is what pollDeviceToken and
  deviceTokenStatus make of the provider's reply, `FetchUserInfo` the calls with
  the access token (one to Google, `UserInfo`; two to GitHub, `GetUser` and
  `GetEmails`, between which the provider may restart), which may fail after the
  code was redeemed, and `Login` the steps that Accounts models, of which only the
  outcome appears here. `Fail` ends a
  request anywhere, as a failed call or a lost answer.
- **The clients.** A poller sends `Begin`, then `PollAgain` when its interval is
  over, as `02_architecture.md:214-221` has it: it adds five seconds after
  `slow_down`, and stops at any other answer. Its first interval is `Announced`,
  the whole seconds of the one the store enforces (`int(d.interval.Seconds())`),
  which is why a second is several ticks (`Second`). A load of the callback polls
  once. The `expires_in` of the announcement is not used.
  A client names provider and code separately, so it may name the wrong one.

`Tick` is time. `MaxTime` is the last instant and stands for all later ones; every
code is expired by then. Redirect URIs, the state parameter, and providers that
are not configured are left out.

### Tokens

`Tokens.tla` models JWTs after their issue. A token has the claims of
`jwt.Claims` (`sub`, `role`, `exp`), and two values for the properties: when the
record behind it was read, and when it was signed. It is signed by one replica
and presented to any.

| Code | Definitions |
|---|---|
| `Adapter.Sign` (`exp` = now + expiry, whole seconds) | `Claims`, `ExpiryAt`, `WholeSeconds`, `Sign` |
| `Adapter.Validate` | `Valid` |
| `JWTMiddleware` and the `IsAdmin` of a handler | `Authenticate`, `May` |
| OAuthCallback, DevicePoll, ExchangePAT once they have the user | `SignIn`, `Sign` |
| RefreshJWT | `Authenticate`, `FindUser`, `Sign` |
| `updateRole` | `Authenticate`, `SetRole` |
| an operator's `DELETE FROM users`; time | `DeleteUser`, `Tick` |

Each replica reads a clock of its own, `Ahead[s]` ticks fast. Time may pass
between any two steps of a request, in particular between the read of the record
and the signature. `held[u][x]` is history: when `u` last had role `x` in the
database. Only the expiry can make a token invalid: the secret is the same on
all replicas, and a client presents tokens that were issued. The requests that
neither change a role nor issue a token (profiles, PATs, the list) are left out;
Accounts and Listing have them. `Expiry` may be 0: `runServer` uses
`NewWithConfig`, which takes 0 as it is (`New`, which would turn it into an hour,
is not called), and such tokens are expired at once.

### Listing

`Listing.tla` models GET `/users`: `List` (listUsers up to the manager), `Count`
and `Page`, two statements with a snapshot each, and `NextPage`, a client that
asks on until `page * page_size` reaches the `total` of the last answer, as one
that shows pages does. `Offset` is computed in
ints that end at `MaxInt` (`Wrap`, two's complement), so that a small `MaxInt`
shows what 2^63 - 1 does with a huge page. `GetProfile` is getMyProfile
and getUserProfile.

Around it the rows move: `Upsert` and `EnsureProfile` (the two steps of a login),
`Rename`, `DeleteUser`, and migration 003 with its backfill (`Migrate`), its
rollback, and first logins at a server older than the feature (`LegacyLogin`).
Migration 003 is one action: it runs in a transaction, and the foreign key of the
table it creates keeps writers of `users` out until it commits. Without the
table every query fails. `steady` has the users who kept their place since the
client began; `left`, `came` and `late` count the rows that moved. The items of a
page are users; which of their columns are sent (`fields`) is left out.

### Proof modules and model-checking modules

`AccountsProofs` (types and safety), `AccountsHistoryProofs`,
`AccountsRegistryProofs`, `ProfilePatchProofs`, `OAuthLoginProofs`,
`OAuthGrantsProofs`, `TokensProofs` and `ListingProofs` hold the theorems.
The `MC*` modules give the constants their sets of jobs and patches
and the symmetry used. Symmetry is used in safety runs only, over constants that
no definition compares with a particular value. Definitions marked `Fault:` in
`Accounts`, `ProfilePatch`, `OAuthLogin`, `Tokens` and `Listing` are not part of
the specifications: each is a plausible mistake in the definition below it, which makes a property fail (see
`mutants` in `PROJECT.json`).

## 3. The runs

`CHECK_DEADLOCK FALSE` throughout: every request is answered once and nothing
follows. Progress is checked as a liveness property instead.

| Run | Instance | Properties | Shows |
|---|---|---|---|
| `login` (MCLogin) | 3 requests (any login of 2 identities × 2 emails, refresh, role change, deletion), 4 user ids, 1 replica, 1 stop, bootstrap admin with one of the emails | `TypeOK`, `UniqueKeys`, `OneAccountPerIdentity`, `LoginLeavesProfile`, `TokenHasCurrentRole`, `DeletedUserGetsNoToken`, `AccountChangesOnlyByItsOwner`, `RequestsAreAtomic` | concurrent first logins, changed emails, collisions with another account or with the admin, and failures halfway never give two accounts, link a login to another account, or leave a login without profile; a refresh gives the role of the record and not of the old token (#134); deleted users get no token; no login resets a role (#136); a request takes effect at one moment or not at all |
| `pats` (MCPats) | 3 requests (create, exchange, revoke, delete), 4 PATs, the admin | `References`, `DeadPATGivesNoToken`, `RequestsAreAtomic` | a PAT that was revoked or expired before the exchange began gives no JWT; no PAT or profile outlives its user; keys are made, exchanged and revoked at one moment each |
| `progress` (MCProgress) | 2 replicas that start on an empty database, 1 stop, 2 requests (login, deletion of one given user), fairness | `OneBootstrapAdmin`, `LateBootstrapIsHarmless`, `RequestsAreAnswered`, `EveryReplicaServes` | replicas that all counted zero users still create one admin: the unique email stops the others; every request is answered; a replica that lost the bootstrap race or crashed within it serves in the end |
| `merge` (MCMerge) | 2 requests, patches of pairs of members: country with region (valid, unknown, mismatched, null, absent, malformed), mandatory, clearable, two preferences; `preferences: null` | `TypeOK`, `LocationConsistent`, `ConflictOnlyAfterChange`, `MergesAtomically` | the read-validate-write update implements `MergePatch`; the location is valid at all times; 409 only after a change by someone else |
| `device` (MCDevice) | 1 device code, 2 pollers, 2 providers, 1 person (email verified or not), seconds of 2 ticks, an interval of half a second, announced as 0, `slow_down` adds one second, which stands for five, lifetime of 2 ticks, 4 instants, 1 restart, fairness | `TypeOK`, `LoginIsApproved`, `SlowDownOnlyForTheFraction`, `AnswersAreTrue`, `PollingEnds` | every poll is answered truly, also when it is too fast, late, at the wrong provider or after a restart; the login is for who approved; a poller alone with its code is slowed down only for the half second that is not announced, also after it has slowed down; polling ends, even when nobody approves or denies |
| `callback` (MCCallback) | 2 authorization codes, 2 loads of the callback, 2 providers, 2 people, lifetime 2, 5 instants, 1 restart | `OneRequestPerCode`, `LoginIsApproved`, `AnswersAreTrue` | a code signs in once, the person it was issued for, at its own provider |
| `tokens` (MCTokens) | an admin and a user, 2 replicas with clocks 1 tick apart, 3 requests, expiry 3 ticks, seconds of 2, 5 instants | `TypeOK`, `StalenessBounded`, `RolesChangedByAdmins`, `TokensServeTheirTime` | a demoted or deleted admin is an admin to the API no longer than the window, refreshes included; every role change goes back to somebody who was an admin in it; no replica refuses a token early |
| `listing` (MCListing) | 4 users, three of one name, 3 writes, ints from -8 to 7, pages of up to 2, first page 0, 1, 2 or 7 | `TypeOK`, `MissedOnlyWhenRowsMove`, `RepeatedOnlyWhenRowsCome`, `UnmovedListIsReadOnce`, `SettledUsersAreFound` | a client that reads the list through misses and repeats at most as many users as rows moved, and reads a list in which none moved once and whole (PR-15); whoever was given a profile is found |
| `one_identity`, `bootstrap_repair`, `region_kept`, `page_beyond` | see section 4 | one each | counterexamples |

**Why the bounds are enough to be telling.** Every race in this code is between
two requests, or a request and a replica, over one or two rows; a third actor
makes that the row changes twice. Three requests over one account therefore cover
a reader with two writers. Two identities and two emails are the least with which
an email can belong to another account, be free, or be one's own; ids are at least
as many as requests and admins can create, so a run never stops for want of an id
(`progress` would fail if it did). In the OAuth flows two clients of one code are
the least that can race for it or disturb each other's pace; the lifetime is as
long as what a `slow_down` adds, so that a code can be polled in time, too fast,
too fast again after the poller has slowed down, and late, before and after the
decision. An interval with a fraction of a second is the one in which the two sides
differ; with whole seconds they agree, and the theorem covers any interval.
`MaxStops` bounds
the ends of servers explored: with one, a replica ends at any step and starts again
while the other goes on; that they end more often is left to the theorems, which
have no such bound but for progress. In `tokens` the admin can be demoted by a request that was let in before, and the lifetime is
longer than a second, so that what `exp` drops, the clocks and a slow signature
all show. In `listing` a page has fewer rows than the list, so that a walk takes
several pages with writes before, between and inside them, and page 7 has an
offset that does not fit. One client is enough, since reading changes nothing.

The theorems of section 5 remove the bounds for the properties they cover, which
is why runs of several questions share one instance here, with the jobs of all
of them. The theorems also cover what a run leaves out for size: `pats` has no logins and
`login` no PATs, so that the profiles of `References` against a login's upsert, and
an exchange in `DeletedUserGetsNoToken`, are in the theorems only.

**Fairness** (`FairSpec`). Weak fairness of `RequestStep(r)`: a handler's
goroutine runs on, and PostgreSQL answers. Weak fairness of `BootStep(s)`: a
start-up does not hang. Weak fairness of `Start(s)`: a server that ended is
started again. The repository has no restart policy, so this last one is an
assumption about the supervisor or operator, and `EveryReplicaServes` is about
what start-up does then: that it does not end the server each time. `Begin`,
`Fail`, `Stop` and `Expire` are not fair: nobody has to send a request, and
nothing has to fail. In `OAuthLogin`: `RequestStep(r)` as above; `PollAgain(r)`,
because the documentation has a client poll "until it gets a final response"
and a client that stops by itself needs no answer; and `Tick`. Nobody has to
approve or deny: it is the lifetime of the code that ends the polling.

## 4. What the code does not do

Four runs end in a counterexample to a sentence of the documentation.

- **`one_identity`, `RejectedOnlyForAnotherAccount`.** Two first logins of one
  user at the same time (a double click on the login button). Both look the
  identity up and find none; the first inserts; the second violates
  `users_email_key`, since ON CONFLICT names the other index only, and is
  answered `email_already_registered`. The port documents that error as "the
  email belongs to another user" (`domain/user/repository.go:27`). A retry
  succeeds.
- **`bootstrap_repair`, `BootstrapIsRepaired`.** A start that fails after the
  admin's row is inserted leaves it without PAT or profile. The next start counts
  one user, skips the use case and serves. ADR-013 asks that "retrying the whole
  use case repairs a partial failure"; ADR-007 concedes the missing PAT only.
- **`region_kept`, `RegionClearedOnlyByCountryChange`.** A request that sets the
  country reads a profile with another country and decides to clear the region.
  Before its UPDATE another request sets the same country and a region of it.
  The UPDATE then writes the country that is already there and clears the new
  region, with 200. FEATURE_clearable_profile_fields says the region is cleared
  "only when the country actually changes or is cleared". `MergePatch` grants
  this liberty, and `merge` shows that there is no other.
- **`page_beyond`, `PageBeyondTotalIsEmpty`.** `page` may be any positive `int`, and
  `(page - 1) * page_size` is computed in `int`. With page 2^60 + 1 and page size
  16 it is 0, and the answer is the first page, where
  FEATURE_user_profile/04_tests.md:72 has an empty one; with other huge pages it is
  negative, which PostgreSQL refuses, and the answer is 500.

Four things that are as documented, or not documented, and that a reader of the
models should know of:

- `oauthfake` takes any duration for `--device-interval` and enforces it whole
  (`store.go:172`), but announces its whole seconds (`server.go:185`), and the API
  hands the integer on. With 1500ms, a poller that keeps to the announced second,
  the "minimum polling interval announced for the device flow" (`main.go:21`), is
  told to slow down, and again after it has added five seconds; it comes half a
  second early each time, less what the answers take. A decision is told all the
  same. `SlowDownOnlyForTheFraction` says that nothing else slows a lone poller
  down. The default, one second, has no fraction.
- 02_architecture.md:272 of FEATURE_authentication says of the time a token
  outlives a role change that "the JWT expiry (default 1 h) bounds that window".
  `StalenessBounded` has the exact bound: the time between the read of the record
  and the signature, and the difference of two clocks, come on top.
- Nothing keeps the last admin: two admins may demote each other, or one
  themselves. The bootstrap does not run again, since there are users.
- `total` counts the users with a profile (JOIN), where 05_acceptance.md:98 of
  FEATURE_user_profile has "total number of users in the platform". Users who
  logged in at an older server after the backfill are not counted until they log
  in again.

## 5. The proofs

All theorems are about `Spec`, for every value of the constants, from the
assumptions `AccountsAssumption`, `ProfileAssumption`, `OAuthAssumption`,
`TokensAssumption` and `ListingAssumption` alone: that requests are no PATs, that
no clock is more than `MaxAhead` fast, that intervals and lifetimes are natural
numbers and a second is at least one tick, that device codes and authorization codes differ, that the placeholders
(`Unused`, `Gone`, `Null`, `Absent` ...) are no values, that identities of
bootstrap admins are no identities of Google or GitHub, that ISO regions belong to
ISO countries, and for the list that names are compared by number, that there are
finitely many ids of users and that their number is an int, as the `COUNT(*)`
the code scans into one has to be. Elsewhere `UserId`, `Req`, `Replica` and the
rest may be infinite.

| Theorem | States |
|---|---|
| `AccountsProofs!TypeCorrect` | `Spec => []TypeOK` |
| `AccountsProofs!UniqueKeysHold` | `Spec => []UniqueKeys` |
| `AccountsProofs!OneBootstrapAdminHolds` | `Spec => []OneBootstrapAdmin` |
| `AccountsProofs!ReferencesHold` | `Spec => []References` |
| `AccountsProofs!OneAccountPerIdentityHolds` | `Spec => []OneAccountPerIdentity` |
| `AccountsProofs!LoginLeavesProfileHolds` | `Spec => []LoginLeavesProfile` |
| `AccountsHistoryProofs!AccountChangesOnlyByItsOwnerHolds` | `Spec => AccountChangesOnlyByItsOwner` |
| `AccountsHistoryProofs!DeadPATGivesNoTokenHolds` | `Spec => []DeadPATGivesNoToken` |
| `AccountsHistoryProofs!DeletedUserGetsNoTokenHolds` | `Spec => []DeletedUserGetsNoToken` |
| `AccountsHistoryProofs!TokenHasCurrentRoleHolds` | `Spec => []TokenHasCurrentRole` |
| `AccountsHistoryProofs!LateBootstrapIsHarmlessHolds` | `Spec => []LateBootstrapIsHarmless` |
| `AccountsRegistryProofs!RequestsAreAtomicHolds` | `Spec => RequestsAreAtomic` |
| `ProfilePatchProofs!ProfileTypeCorrect` | `Spec => []TypeOK` |
| `ProfilePatchProofs!LocationConsistentHolds` | `Spec => []LocationConsistent` |
| `ProfilePatchProofs!ConflictOnlyAfterChangeHolds` | `Spec => ConflictOnlyAfterChange` |
| `ProfilePatchProofs!MergesAtomicallyHolds` | `Spec => MergesAtomically` |
| `OAuthLoginProofs!OAuthTypeCorrect` | `Spec => []TypeOK` |
| `OAuthLoginProofs!OneRequestPerCodeHolds` | `Spec => []OneRequestPerCode` |
| `OAuthLoginProofs!LoginIsApprovedHolds` | `Spec => []LoginIsApproved` |
| `OAuthGrantsProofs!AnswersAreTrueHolds` | `Spec => AnswersAreTrue` |
| `OAuthLoginProofs!SlowDownOnlyForTheFractionHolds` | `Spec => SlowDownOnlyForTheFraction` |
| `TokensProofs!TokensTypeCorrect` | `Spec => []TypeOK` |
| `TokensProofs!StalenessBoundedHolds` | `Spec => []StalenessBounded` |
| `TokensProofs!RolesChangedByAdminsHolds` | `Spec => RolesChangedByAdmins` |
| `TokensProofs!TokensServeTheirTimeHolds` | `Spec => []TokensServeTheirTime` |
| `ListingProofs!ListingTypeCorrect` | `Spec => []TypeOK` |
| `ListingProofs!MissedOnlyWhenRowsMoveHolds` | `Spec => []MissedOnlyWhenRowsMove` |
| `ListingProofs!RepeatedOnlyWhenRowsComeHolds` | `Spec => []RepeatedOnlyWhenRowsCome` |
| `ListingProofs!UnmovedListIsReadOnceHolds` | `Spec => []UnmovedListIsReadOnce` |
| `ListingProofs!PageBeyondTotalHolds` | `Spec => []((page - 1) * size <= MaxInt => PageBeyondTotalIsEmpty)` |
| `ListingProofs!SettledUsersAreFoundHolds` | `Spec => SettledUsersAreFound` |

**Types.** `TypeOK` is not inductive: a statement reads the arguments of its job
(`job[r].pat`), which exist only if the request runs that use case. `TypeInv`
adds `StepsMatchJobs` (the step a request is at determines its kind of job, and
whether it has read a user) and `BootConfigured` (only a replica with a bootstrap
email inserts an admin).

**Keys.** `UniqueKeys` is not inductive either: a login could take the identity
of a bootstrap admin, or a bootstrap insert a second row of an identity.
`KeysInv` adds `OwnIdentity` (an identity is a provider's or the row's own) and
`AdminKeepsEmail` (no login can change the admin's email). With the latter, two
bootstrap admins would share an email, so `OneBootstrapAdmin` follows from the
uniqueness of emails. `UsersStep` sums up what any action may do to the table
(insert a free key, rename, regrade, delete), so the argument is made once per
kind of change and not once per action.

**Rows and logins.** `RowsLiveOn` says a row that is gone never returns and an
account that stays keeps its identity. From it, `LoginsReadTheirAccount`: a login
past the upsert holds the id of the account of its identity, as long as that
account lives; and has left a profile once past `ensureProfile`. `References`
needs the cascade of the deletion and the foreign keys of the inserts.

**What is over stays over.** The properties with a "before" compare a request with
what had happened when it began. `Lasting` says that such things last: a user who
was deleted is gone, a PAT that was revoked or expired is dead, a role that was
set stays until another request sets one. `ReadsAreCurrent` ties what a request
has read of a user to that: its role is the record's, unless somebody changed it
since the request began. `PATsWereAlive` says that an exchange past its lookup
found its PAT alive, so the PAT cannot have been dead before. `AdminIsFirst`:
with a bootstrap configured, until a deletion, either there is no user yet and no
replica serves, or the bootstrap admin is among the users; its email is then taken,
which makes a late bootstrap harmless.

**One moment.** `RequestsAreAtomic` is shown step by step. The lemmas name the step
of `Registry` that each action is: `UpdateIsSignIn` and `InsertIsSignIn` for the
upsert that goes through, `TakenIsRefuse` for the one that does not,
`FindPATIsPresent`, `FindUserIsLook`, and so on; the lookup of an identity that is
not there yet, the insert of a profile and the look at the user of a new PAT are
stutters. `StepsAreMapped` is the mapping by cases, `TheyFail` covers every failure,
of one request or of all on a replica that stops. That an upsert touches no key of
anybody else needs `KeysInv`; that the bootstrap finds an empty registry needs
`LateBootstrapIsHarmless`; and `RegistryInv` adds that a refresh and a new PAT keep
to the user they were asked about, and that the account a bootstrap goes on with is
still its own.

**Profiles.** `Inv` adds `Prepared`: a request about to write holds a patch that
was accepted, validated against a row whose location was itself valid, and
adjusted by the location rules. `RulesImplyCheck` is the heart: such a patch
passes the CHECK constraint on every row with the location that was read, from
which `ConflictOnlyAfterChange` follows; `CheckedIsValid` is its converse for the
row as it is by then, from which `LocationConsistent` follows. `MergesAtomically`
is shown step by step: `Parse` and a `ReadStored` that goes on are stutters,
the empty patch and `Update` are `Apply` (or `LoseAnswer`), every 4xx is `Refuse`.

**Codes and requests.** `Inv` has a part about each row (`Sound`: only an approved
code is redeemed, and it has an identity) and one about each request
(`Consistent`: where it stands, what it was told, and that a request that was
granted its code finds the row spent, at its provider). `RowsGoOn` says what no
step changes of a row: its provider, its time, and once spent its identity. So
a request's step need be compared only with its own row, and every other request
stays consistent by one lemma. A second grant would find the row spent.

**Answers.** `AnswersAreTrue` maps a row to its standing (pending, approved,
denied, lapsed, spent) and a client's job to what it asked. Each action is the
action of `Grants` a lemma names (`IssueIsIssue`, `TickIsLapse`,
`RedeemIsAnswer` ...), the API's own steps are stutters.

**Pace.** `PaceInv` says that the interval of a code's row is that of its only poller
and the fraction that was not announced, plus what a `slow_down` that is still on
its way will add (`Ahead`), and that the poller's next poll is due no earlier than
its own interval after the last one (`InStep`): the row counts from when the
provider answered, the poller from when it was answered, which is later. So a poll
that is too fast is so by no more than the fraction. A code nobody has named is `Fresh`. At the
last instant, where waiting is cut short, the code has expired.

**Tokens.** `HistoryIsTrue` says that `held` is `now` for the role in the record, and
no later for the other. A request past the read holds a role its user had in the database
at `at[r]` (`ReadIsTrue`); one past the middleware holds a token that was valid,
and an admin's where that is asked (`LetIn`). `Sound(t)` carries the first into the
token it signs, with its `exp` between bounds that the time of its signature gives.
Staleness does not add up over refreshes because each reads the record anew.

**The list.** The place of a row is its rank, the number of rows before it. One row
that comes, goes or is renamed moves the others by one place at most
(`RankShift`), and distinct rows have distinct ranks (`OneUserPerRank`), so one
move carries at most one row across any place of the list. `Inv` counts with that.
Of the users who kept their row, `Passed` are those the client has gone past
without seeing them, `Ahead` those it has seen and will come to again, `Repeats`
one element for each time one was seen again; `WalkInv` bounds `Passed` by the rows that left a
place, and `Repeats` together with `Ahead` by those that came. `OneRowMoves` shows
it for any one row that moves, `PageKeepsRows` for the answer of a page, which takes
exactly the ranks from `Done` on. At the end of the walk nobody is left but `Passed` and those behind
the last total (`TotalIsRecent`, `NothingLostAtEnd`). `OffsetIsExact` says where
the offset is the one that was meant: up to `MaxInt`, which the walk never exceeds
(`OffsetsFit`); the divergence `page_beyond` is what is beyond.

**Only model-checked.** `RequestsAreAnswered`, `EveryReplicaServes` and
`PollingEnds` are liveness properties under fairness and stay with TLC: TLAPS does
not handle ENABLED. Every other property of a passing run is proved.

## 6. What is not modelled

- **Contents of names**, hashing of PATs, JWT encoding: data that no property
  tells apart.
- **HTTP**: body decoding, status codes beyond the kind of answer, routing, CORS.
- **Google and GitHub themselves**: the provider is `oauthfake`, the one in the
  repository; what the API does with an answer does not depend on which it is.
- **OAuthLogin and Accounts as one system**: a login in `Accounts` starts when the
  provider has named the user, and is one step in `OAuthLogin`.
- **Migrations 001, 002, 004 and 005 as steps**: the first two create empty tables.
  004 and 005 rewrite or reject rows once, under a lock, and their results (every
  PAT has a user, a region belongs to its country) are what `Accounts` and
  `ProfilePatch` start from.
- **Signatures, secrets and the parsing of tokens**: a client presents tokens that
  were issued.
- **More than one person per `sub`**, the email claim: GET `/users/me` echoes the
  claims, and nothing else reads the email.
- **Configuration and command line**: sequential, validated once, unit-tested.
- **`web`, `e2e`, `infra`**: no program yet, or scripts around Git.

The code was read with PostgreSQL's documented behaviour at READ COMMITTED: one
statement sees one snapshot, an UPDATE waits for a locked row and is evaluated
again on its new version, and unique indexes are checked as rows are inserted.

## 7. The plan

Done: accounts and bootstrap, profile updates, the OAuth flows, tokens, the list
with migration 003, three refinements of abstract specifications, and a theorem for
every property of a passing run but the three of liveness. What could still be
added, in this order:

1. **A whole login**: `OAuthLogin` composed with `Registry`, which now stands for
   `Accounts`, with the question what becomes of a redeemed code whose login fails
   halfway.
2. **Migration 004** as a step against PATs created and exchanged by a server of
   the older schema.
3. **Tokens over Registry**: `Tokens` has records and changes of roles of its own,
   which could be those of `Registry`.
