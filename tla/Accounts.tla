------------------------------ MODULE Accounts ------------------------------
(***************************************************************************)
(* User accounts, personal access tokens (PATs) and profiles, as the auth  *)
(* managers of the API create, read and change them.                       *)
(*                                                                         *)
(* The three tables live in PostgreSQL.  No use case runs in a             *)
(* transaction: every repository call commits by itself, so one action     *)
(* here is one SQL statement (or one purely local step), and the           *)
(* statements of concurrent requests, of several server replicas and of    *)
(* their bootstrap interleave.  A request can fail before any statement,   *)
(* or after it when the answer is lost; a replica can stop at any point.   *)
(***************************************************************************)
EXTENDS Naturals

CONSTANTS
    UserId,         \* ids of users (uuids: fresh, never used twice)
    PatId,          \* ids of PATs; an id also stands for the PAT's raw key
    OAuthIdentity,  \* (provider, provider_id) pairs of Google and GitHub
    Email,
    AdminEmail,     \* COURTKNIGHTS_BOOTSTRAP_EMAIL, or NoEmail: no bootstrap
    NoEmail,
    Unused,         \* a row whose id has not been given out
    Gone,           \* a row that was deleted
    NoUser,
    Req,            \* the requests clients make
    Jobs,           \* what they may ask for
    Replica,        \* server processes over the same database
    NoReplica,
    MaxStops        \* bound: failures of servers explored

Role == {"admin", "user"}

\* A bootstrap admin has no external identity: provider 'pat' and an opaque
\* provider_id of its own, for which the id of its row stands here.
Identity == OAuthIdentity \cup UserId

UserRow == [identity : Identity, email : Email, role : Role]
PatRow  == [owner : UserId, expires : {"never", "later", "past"}]

\* One use case of AuthManager, with its arguments.  deleteUser is the
\* operator's DELETE FROM users: no endpoint issues it, the code expects it.
LoginJob == [op : {"login"}, identity : OAuthIdentity, email : Email]
PatJob   == [op : {"exchangePAT", "revokePAT"}, pat : PatId]
UserJob  == [op : {"refresh", "deleteUser"}, user : UserId]
RoleJob  == [op : {"updateRole"}, user : UserId, role : Role]
NewPatJob == [op : {"createPAT"}, user : UserId,
              expires : {"never", "later", "past"}]
Job == LoginJob \cup PatJob \cup UserJob \cup RoleJob \cup NewPatJob
NoJob == [op |-> "none"]

ASSUME AccountsAssumption ==
    /\ OAuthIdentity \cap UserId = {}
    /\ AdminEmail \in Email \cup {NoEmail}
    /\ NoEmail \notin Email
    /\ Unused # Gone
    /\ Unused \notin UserRow \cup PatRow
    /\ Gone \notin UserRow \cup PatRow
    /\ NoUser \notin UserId
    /\ Req \cap PatId = {}
    /\ NoReplica \notin Replica
    /\ Jobs \subseteq Job
    /\ MaxStops \in Nat

VARIABLES
    users,      \* table users: id -> row
    pats,       \* table personal_access_tokens: id -> row
    profiles,   \* table user_profiles: the ids of users that have a row
    pc,         \* the next step of a request, or how it was answered
    job,        \* what a request asks for
    host,       \* the replica that runs a request
    seen,       \* the user a request has read: [user, role]
    before,     \* history: what was over when a request began
    boot,       \* the next start-up step of a replica, or its state
    admin,      \* the user a replica's bootstrap has inserted
    stops       \* failures of servers so far

tables   == <<users, pats, profiles>>
requests == <<pc, job, host, seen, before>>
servers  == <<boot, admin, stops>>
vars     == <<tables, requests, servers>>

\* The steps of a request, then the answers: a JWT for seen[r], a success
\* without one, "email already registered", another 4xx, a 5xx or no answer.
Steps   == {"upsert", "insert", "emailOwner", "ensureProfile", "findPAT",
            "findUser", "savePAT", "deletePAT", "setRole", "deleteUser", "sign"}
Answers == {"token", "ok", "emailTaken", "rejected", "failed"}
BootSteps == {"count", "upsert", "savePAT", "ensureProfile"}

TypeOK ==
    /\ users \in [UserId -> UserRow \cup {Unused, Gone}]
    /\ pats \in [PatId -> PatRow \cup {Unused, Gone}]
    /\ profiles \in SUBSET UserId
    /\ pc \in [Req -> {"idle"} \cup Steps \cup Answers]
    /\ job \in [Req -> Job \cup {NoJob}]
    /\ host \in [Req -> Replica \cup {NoReplica}]
    /\ seen \in [Req -> [user : UserId \cup {NoUser}, role : Role]]
    /\ before \in [Req -> SUBSET (Req \cup PatId)]
    /\ boot \in [Replica -> BootSteps \cup {"down", "serving"}]
    /\ admin \in [Replica -> UserId \cup {NoUser}]
    /\ stops \in 0 .. MaxStops

Nobody == [user |-> NoUser, role |-> "user"]

Init ==
    /\ users = [u \in UserId |-> Unused]
    /\ pats = [p \in PatId |-> Unused]
    /\ profiles = {}
    /\ pc = [r \in Req |-> "idle"]
    /\ job = [r \in Req |-> NoJob]
    /\ host = [r \in Req |-> NoReplica]
    /\ seen = [r \in Req |-> Nobody]
    /\ before = [r \in Req |-> {}]
    /\ boot = [s \in Replica |-> "count"]
    /\ admin = [s \in Replica |-> NoUser]
    /\ stops = 0

-----------------------------------------------------------------------------
(* The tables.                                                             *)

Live == {u \in UserId : users[u] \notin {Unused, Gone}}
Stored == {p \in PatId : pats[p] \notin {Unused, Gone}}

\* Fault: users.email has no unique index.
EmailsNotUnique(e) == {}

\* UNIQUE (email) and UNIQUE (provider, provider_id): at most one element.
HasEmail(e) == {u \in Live : users[u].email = e}
HasIdentity(i) == {u \in Live : users[u].identity = i}

\* Fault: the role is left out.
InsertUserWithoutRole(u, i, e, role) ==
    /\ users[u] = Unused
    /\ users' = [users EXCEPT ![u] = [identity |-> i, email |-> e, role |-> ""]]

InsertUser(u, i, e, role) ==
    /\ users[u] = Unused
    /\ users' = [users EXCEPT ![u] = [identity |-> i, email |-> e, role |-> role]]

\* Fault: the upsert also writes the role of the insert.
UpdateEmailAndRole(u, e) ==
    users' = [users EXCEPT ![u].email = e, ![u].role = "user"]

\* ON CONFLICT ... DO UPDATE: the email changes, identity and role do not.
UpdateEmail(u, e) == users' = [users EXCEPT ![u].email = e]

\* The statement of UpdateRole.
SetRole(u, role) == users' = [users EXCEPT ![u].role = role]

SavePAT(p, u, expires) ==
    /\ pats[p] = Unused
    /\ pats' = [pats EXCEPT ![p] = [owner |-> u, expires |-> expires]]

\* INSERT ... ON CONFLICT DO NOTHING.
InsertProfile(u) == profiles' = profiles \cup {u}

-----------------------------------------------------------------------------
(* Requests.                                                               *)

Goto(r, step) == pc' = [pc EXCEPT ![r] = step]
Read(r, u, role) == seen' = [seen EXCEPT ![r] = [user |-> u, role |-> role]]
At(r, step) == pc[r] = step
Answered(r) == pc[r] \in Answers

\* The last statement of a request is done; its answer can still be lost.
Done(r) == \E a \in {"ok", "failed"} : Goto(r, a)

FirstStep(op) ==
    CASE op = "login"      -> "upsert"
      [] op = "exchangePAT" -> "findPAT"
      [] op = "revokePAT"  -> "deletePAT"
      [] op = "updateRole" -> "setRole"
      [] op = "deleteUser" -> "deleteUser"
      [] op \in {"refresh", "createPAT"} -> "findUser"

\* A client can present a PAT once it was created, and refresh a JWT once it
\* was given one.
Possible(j) ==
    /\ j.op = "exchangePAT" => pats[j.pat] # Unused
    /\ j.op = "refresh" => \E q \in Req : At(q, "token") /\ seen[q].user = j.user

Begin(r, s, j) ==
    /\ At(r, "idle")
    /\ boot[s] = "serving"
    /\ Possible(j)
    /\ host' = [host EXCEPT ![r] = s]
    /\ job' = [job EXCEPT ![r] = j]
    /\ Goto(r, FirstStep(j.op))
    /\ before' = [before EXCEPT ![r] =
                    {q \in Req : Answered(q)} \cup
                    {p \in Stored : pats[p].expires = "past"}]
    /\ seen' = [seen EXCEPT ![r].user = IF j.op \in {"refresh", "createPAT"}
                                        THEN j.user ELSE NoUser]
    /\ UNCHANGED <<tables, servers>>

\* A database error, a lost answer of the statement before, or a cancelled
\* request.
Fail(r) ==
    /\ pc[r] \in Steps
    /\ Goto(r, "failed")
    /\ UNCHANGED <<tables, job, host, seen, before, servers>>

(* OAuthCallback and DevicePoll, once the provider has named the user.     *)

\* INSERT ... ON CONFLICT (provider, provider_id) DO UPDATE looks for the
\* identity first.  Found: the row is locked and updated in place.
Upsert(r) ==
    /\ At(r, "upsert")
    /\ LET i == job[r].identity
           e == job[r].email
       IN \/ /\ HasIdentity(i) = {}
             /\ Goto(r, "insert")
             /\ UNCHANGED <<users, seen>>
          \/ \E u \in HasIdentity(i) :
                /\ HasEmail(e) \subseteq {u}
                /\ UpdateEmail(u, e)
                /\ Read(r, u, users[u].role)
                /\ Goto(r, "ensureProfile")
          \/ \E u \in HasIdentity(i) :
                /\ ~ HasEmail(e) \subseteq {u}
                /\ Goto(r, "emailOwner")
                /\ UNCHANGED <<users, seen>>
    /\ UNCHANGED <<pats, profiles, job, host, before, servers>>

\* Not found: the row is inserted, and only now checked against the indexes,
\* email before identity.  A row of the same identity committed since the
\* lookup is a violation of users_email_key when it has the same email, and
\* is updated instead when it has another one.
Insert(r) ==
    /\ At(r, "insert")
    /\ LET i == job[r].identity
           e == job[r].email
       IN \/ /\ HasEmail(e) # {}
             /\ Goto(r, "emailOwner")
             /\ UNCHANGED <<users, seen>>
          \/ /\ HasEmail(e) = {}
             /\ \E u \in HasIdentity(i) : UpdateEmail(u, e) /\ Read(r, u, users[u].role)
             /\ Goto(r, "ensureProfile")
          \/ /\ HasEmail(e) = {} /\ HasIdentity(i) = {}
             /\ \E u \in UserId : InsertUser(u, i, e, "user") /\ Read(r, u, "user")
             /\ Goto(r, "ensureProfile")
    /\ UNCHANGED <<pats, profiles, job, host, before, servers>>

\* Fault: the login is linked to the account that owns the email.
LinkToEmailOwner(r) ==
    /\ At(r, "emailOwner")
    /\ \E u \in HasEmail(job[r].email) : Read(r, u, users[u].role)
    /\ Goto(r, "ensureProfile")
    /\ UNCHANGED <<tables, job, host, before, servers>>

\* Fault: an owner who is not named is taken for gone, and the login tried again.
EmailOwnerRetried(r) ==
    /\ At(r, "emailOwner")
    /\ LET named == {u \in HasEmail(job[r].email) : users[u].identity \in OAuthIdentity}
       IN \/ \E u \in named : Read(r, u, users[u].role) /\ Goto(r, "emailTaken")
          \/ named = {} /\ Goto(r, "upsert") /\ UNCHANGED seen
    /\ UNCHANGED <<tables, job, host, before, servers>>

\* emailOwnerError: the answer names the owner's provider, unless the owner
\* is the bootstrap admin or gone, or the query fails.
EmailOwner(r) ==
    /\ At(r, "emailOwner")
    /\ LET named == {u \in HasEmail(job[r].email) : users[u].identity \in OAuthIdentity}
       IN \/ UNCHANGED seen
          \/ \E u \in named : Read(r, u, users[u].role)
    /\ Goto(r, "emailTaken")
    /\ UNCHANGED <<tables, job, host, before, servers>>

\* Fault: an error of EnsureExists is logged and the login goes on.
EnsureProfileBestEffort(r) ==
    /\ At(r, "ensureProfile")
    /\ UNCHANGED profiles \/ (seen[r].user \in Live /\ InsertProfile(seen[r].user))
    /\ Goto(r, "sign")
    /\ UNCHANGED <<users, pats, job, host, seen, before, servers>>

\* EnsureExists; user_profiles.user_id references users.
EnsureProfile(r) ==
    /\ At(r, "ensureProfile")
    /\ \/ seen[r].user \in Live /\ InsertProfile(seen[r].user) /\ Goto(r, "sign")
       \/ seen[r].user \notin Live /\ Goto(r, "failed") /\ UNCHANGED profiles
    /\ UNCHANGED <<users, pats, job, host, seen, before, servers>>

\* The JWT carries the id and the role of the user as they were read.
Sign(r) ==
    /\ At(r, "sign")
    /\ Goto(r, "token")
    /\ UNCHANGED <<tables, job, host, seen, before, servers>>

(* ExchangePAT, RefreshJWT, CreatePAT, RevokePAT, UpdateUserRole.          *)

\* Fault: the expiry is not checked.
FindPATEvenExpired(r) ==
    /\ At(r, "findPAT")
    /\ LET p == job[r].pat
       IN \/ /\ p \in Stored
             /\ seen' = [seen EXCEPT ![r].user = pats[p].owner]
             /\ Goto(r, "findUser")
          \/ p \notin Stored /\ Goto(r, "rejected") /\ UNCHANGED seen
    /\ UNCHANGED <<tables, job, host, before, servers>>

FindPAT(r) ==
    /\ At(r, "findPAT")
    /\ LET p == job[r].pat
       IN \/ /\ p \in Stored /\ pats[p].expires # "past"
             /\ seen' = [seen EXCEPT ![r].user = pats[p].owner]
             /\ Goto(r, "findUser")
          \/ /\ ~ (p \in Stored /\ pats[p].expires # "past")
             /\ Goto(r, "rejected")
             /\ UNCHANGED seen
    /\ UNCHANGED <<tables, job, host, before, servers>>

\* Fault: the token is built from the claims of an earlier one (#134).
RenewClaims(r) ==
    /\ At(r, "findUser")
    /\ \E q \in Req : /\ At(q, "token") /\ seen[q].user = seen[r].user
                     /\ Read(r, seen[q].user, seen[q].role)
    /\ Goto(r, "sign")
    /\ UNCHANGED <<tables, job, host, before, servers>>

FindUser(r) ==
    /\ At(r, "findUser")
    /\ LET u == seen[r].user
       IN \/ /\ u \in Live
             /\ Read(r, u, users[u].role)
             /\ Goto(r, IF job[r].op = "createPAT" THEN "savePAT" ELSE "sign")
          \/ /\ u \notin Live
             /\ Goto(r, "rejected")
             /\ UNCHANGED seen
    /\ UNCHANGED <<tables, job, host, before, servers>>

CreatePAT(r) ==
    /\ At(r, "savePAT")
    /\ \/ /\ seen[r].user \in Live
          /\ \E p \in PatId : SavePAT(p, seen[r].user, job[r].expires)
          /\ Done(r)
       \/ /\ seen[r].user \notin Live   \* user_id references users
          /\ Goto(r, "failed")
          /\ UNCHANGED pats
    /\ UNCHANGED <<users, profiles, job, host, seen, before, servers>>

RevokePAT(r) ==
    /\ At(r, "deletePAT")
    /\ LET p == job[r].pat
       IN \/ p \in Stored /\ pats' = [pats EXCEPT ![p] = Gone] /\ Done(r)
          \/ p \notin Stored /\ UNCHANGED pats /\ Goto(r, "rejected")
    /\ UNCHANGED <<users, profiles, job, host, seen, before, servers>>

UpdateRole(r) ==
    /\ At(r, "setRole")
    /\ LET u == job[r].user
       IN \/ u \in Live /\ SetRole(u, job[r].role) /\ Done(r)
          \/ u \notin Live /\ UNCHANGED users /\ Goto(r, "failed")
    /\ UNCHANGED <<pats, profiles, job, host, seen, before, servers>>

(* The operator, and time.                                                 *)

\* Fault: a foreign key that does not cascade and is not checked.
DeleteUserRowOnly(r) ==
    /\ At(r, "deleteUser")
    /\ job[r].user \in Live
    /\ users' = [users EXCEPT ![job[r].user] = Gone]
    /\ Done(r)
    /\ UNCHANGED <<pats, profiles, job, host, seen, before, servers>>

\* Both foreign keys are ON DELETE CASCADE.
DeleteUser(r) ==
    /\ At(r, "deleteUser")
    /\ LET u == job[r].user
       IN \/ /\ u \in Live
             /\ users' = [users EXCEPT ![u] = Gone]
             /\ pats' = [p \in PatId |-> IF p \in Stored /\ pats[p].owner = u
                                         THEN Gone ELSE pats[p]]
             /\ profiles' = profiles \ {u}
             /\ Done(r)
          \/ u \notin Live /\ UNCHANGED tables /\ Goto(r, "rejected")
    /\ UNCHANGED <<job, host, seen, before, servers>>

Expire(p) ==
    /\ p \in Stored /\ pats[p].expires = "later"
    /\ pats' = [pats EXCEPT ![p].expires = "past"]
    /\ UNCHANGED <<users, profiles, requests, servers>>

RequestStep(r) ==
    \/ Upsert(r) \/ Insert(r) \/ EmailOwner(r) \/ EnsureProfile(r)
    \/ FindPAT(r) \/ FindUser(r) \/ CreatePAT(r) \/ RevokePAT(r)
    \/ UpdateRole(r) \/ DeleteUser(r) \/ Sign(r)

-----------------------------------------------------------------------------
(* Start-up of a replica: runBootstrap, then the router.                   *)

BootGoto(s, step) == boot' = [boot EXCEPT ![s] = step]
BootAt(s, step) == boot[s] = step

\* Fault: an error of CountAll is taken for "users exist".
BootCountIgnoresErrors(s) ==
    /\ BootAt(s, "count")
    /\ \/ BootGoto(s, "serving")
       \/ AdminEmail # NoEmail /\ Live = {} /\ BootGoto(s, "upsert")
    /\ UNCHANGED <<tables, requests, admin, stops>>

\* Fault: existing users are an error of the bootstrap.
BootCountRefusesUsers(s) ==
    /\ BootAt(s, "count")
    /\ BootGoto(s, IF AdminEmail = NoEmail THEN "serving"
                   ELSE IF Live # {} THEN "down" ELSE "upsert")
    /\ UNCHANGED <<tables, requests, admin, stops>>

BootCount(s) ==
    /\ BootAt(s, "count")
    /\ IF AdminEmail = NoEmail \/ Live # {}
       THEN BootGoto(s, "serving")
       ELSE BootGoto(s, "upsert")
    /\ UNCHANGED <<tables, requests, admin, stops>>

\* The identity is fresh, so only the email can collide; the error ends the
\* server.
BootUpsert(s) ==
    /\ BootAt(s, "upsert")
    /\ \/ /\ HasEmail(AdminEmail) = {}
          /\ \E u \in UserId : /\ InsertUser(u, u, AdminEmail, "admin")
                               /\ admin' = [admin EXCEPT ![s] = u]
          /\ BootGoto(s, "savePAT")
       \/ /\ HasEmail(AdminEmail) # {}
          /\ BootGoto(s, "down")
          /\ UNCHANGED <<users, admin>>
    /\ UNCHANGED <<pats, profiles, requests, stops>>

BootSavePAT(s) ==
    /\ BootAt(s, "savePAT")
    /\ \/ /\ admin[s] \in Live
          /\ \E p \in PatId : SavePAT(p, admin[s], "never")
          /\ BootGoto(s, "ensureProfile")
       \/ admin[s] \notin Live /\ BootGoto(s, "down") /\ UNCHANGED pats
    /\ UNCHANGED <<users, profiles, requests, admin, stops>>

BootProfile(s) ==
    /\ BootAt(s, "ensureProfile")
    /\ \/ admin[s] \in Live /\ InsertProfile(admin[s]) /\ BootGoto(s, "serving")
       \/ admin[s] \notin Live /\ BootGoto(s, "down") /\ UNCHANGED profiles
    /\ UNCHANGED <<users, pats, requests, admin, stops>>

\* A crash, or a database error that runServer returns: the process ends,
\* and the requests it was running with it.
Stop(s) ==
    /\ boot[s] # "down"
    /\ stops < MaxStops
    /\ stops' = stops + 1
    /\ BootGoto(s, "down")
    /\ pc' = [r \in Req |-> IF host[r] = s /\ pc[r] \in Steps THEN "failed" ELSE pc[r]]
    /\ UNCHANGED <<tables, job, host, seen, before, admin>>

Start(s) ==
    /\ BootAt(s, "down")
    /\ BootGoto(s, "count")
    /\ admin' = [admin EXCEPT ![s] = NoUser]
    /\ UNCHANGED <<tables, requests, stops>>

BootStep(s) == BootCount(s) \/ BootUpsert(s) \/ BootSavePAT(s) \/ BootProfile(s)

-----------------------------------------------------------------------------

Next ==
    \/ \E r \in Req : RequestStep(r) \/ Fail(r)
    \/ \E r \in Req, s \in Replica, j \in Jobs : Begin(r, s, j)
    \/ \E p \in PatId : Expire(p)
    \/ \E s \in Replica : BootStep(s) \/ Stop(s) \/ Start(s)

Spec == Init /\ [][Next]_vars

\* The handler of a request runs on, a server's start-up does not hang, and a
\* server that stopped is started again (by its supervisor or the operator).
Fairness ==
    /\ \A r \in Req : WF_vars(RequestStep(r))
    /\ \A s \in Replica : WF_vars(BootStep(s)) /\ WF_vars(Start(s))

FairSpec == Spec /\ Fairness

-----------------------------------------------------------------------------
(* Properties.                                                             *)

LoggedIn(r) == At(r, "token") /\ job[r].op = "login"
Succeeded(q, op) == At(q, "ok") /\ job[q].op = op

\* No two accounts have the same email or the same identity, however the
\* lookups and inserts of concurrent upserts interleave.
UniqueKeys ==
    \A u, v \in Live :
        \/ users[u].email = users[v].email
        \/ users[u].identity = users[v].identity
        => u = v

\* Profiles and PATs belong to users that exist, although the user a request
\* or a start-up has read can be deleted before it inserts the row.
References ==
    /\ profiles \subseteq Live
    /\ \A p \in Stored : pats[p].owner \in Live

\* Whenever two logins with the same identity both succeed, and neither
\* account was deleted since, they signed in to the same account, and it is
\* the one of that identity (ResolveByOAuth).
OneAccountPerIdentity ==
    /\ \A r \in Req : LoggedIn(r) /\ seen[r].user \in Live
                     => users[seen[r].user].identity = job[r].identity
    /\ \A q, r \in Req :
          /\ LoggedIn(q) /\ LoggedIn(r) /\ job[q].identity = job[r].identity
          /\ {seen[q].user, seen[r].user} \subseteq Live
          => seen[q].user = seen[r].user

\* A login that was answered with a JWT left the user with a profile, also
\* when an earlier login of the same user failed between the two inserts
\* (OAuthCallback, DevicePoll; ADR-013 rule 5).
LoginLeavesProfile ==
    \A r \in Req : LoggedIn(r) /\ seen[r].user \in Live => seen[r].user \in profiles

\* A PAT whose revocation was answered before the exchange began, or that
\* had expired by then, gives no JWT (ResolveByPAT, RevokePAT).
DeadPATGivesNoToken ==
    \A r \in Req : At(r, "token") /\ job[r].op = "exchangePAT" =>
        /\ job[r].pat \notin before[r]
        /\ \A q \in before[r] \cap Req :
              ~ (Succeeded(q, "revokePAT") /\ job[q].pat = job[r].pat)

\* A user whose deletion was over before a request began gets no JWT from
\* it: no login, PAT or refresh brings a deleted user back (RefreshJWT).
DeletedUserGetsNoToken ==
    \A r \in Req : At(r, "token") =>
        \A q \in before[r] \cap Req :
            ~ (Succeeded(q, "deleteUser") /\ job[q].user = seen[r].user)

\* A JWT issued to a request that began after a role change was answered
\* carries the new role, if every other change of that user's role was over
\* before that one began (RefreshJWT builds the token from the record).
TokenHasCurrentRole ==
    \A r, q \in Req :
        /\ At(r, "token")
        /\ q \in before[r]
        /\ Succeeded(q, "updateRole") /\ job[q].user = seen[r].user
        /\ \A c \in Req \ {q} : job[c].op = "updateRole" /\ job[c].user = job[q].user
                                => c \in before[q]
        => seen[r].role = job[q].role

\* At any time there is at most one bootstrap admin, however many replicas
\* with the same configuration start at once and however often they stop.
OneBootstrapAdmin ==
    \A u, v \in Live : users[u].identity \in UserId /\ users[v].identity \in UserId
                      => u = v

\* Until a user is deleted: a replica that has counted no users, however long
\* ago, cannot create its admin any more once some user exists.
LateBootstrapIsHarmless ==
    \A s \in Replica :
        BootAt(s, "upsert") /\ Live # {} /\ (\A u \in UserId : users[u] # Gone)
        => HasEmail(AdminEmail) # {}

\* No step changes the identity of an account; its role changes only by an
\* UpdateUserRole for it that succeeds, its email only by a login with its
\* own identity.  In particular no login resets a role and no PAT takes an
\* identity over (#136).
AccountChangesOnlyByItsOwner ==
    [][\A u \in Live : users'[u] \in UserRow =>
        /\ users'[u].identity = users[u].identity
        /\ users'[u].role # users[u].role =>
              \E r \in Req : /\ At(r, "setRole") /\ job[r].user = u
                            /\ pc'[r] \in {"ok", "failed"} /\ users'[u].role = job[r].role
        /\ users'[u].email # users[u].email =>
              \E r \in Req : /\ pc[r] \in {"upsert", "insert"}
                            /\ job[r].identity = users[u].identity
                            /\ pc'[r] = "ensureProfile"]_vars

\* How far a request is for its client: it has asked, its PAT was good, it is
\* known whom it speaks for, its email was somebody's, or it is answered.
StageOf(r) ==
    CASE pc[r] \in {"ensureProfile", "sign"} -> "known"
      [] At(r, "findUser") /\ job[r].op = "exchangePAT" -> "keyed"
      [] At(r, "emailOwner") -> "refused"
      [] pc[r] \in {"upsert", "insert", "findPAT", "savePAT", "deletePAT", "setRole", "deleteUser"}
         \/ (At(r, "findUser") /\ job[r].op # "exchangePAT") -> "asked"
      [] OTHER -> pc[r]

ClaimsOf(r) ==
    CASE StageOf(r) \in {"known", "token"} -> seen[r]
      [] StageOf(r) = "keyed" -> [Nobody EXCEPT !.user = seen[r].user]
      [] OTHER -> Nobody

Registered == INSTANCE Registry WITH
    account <- users, key <- pats, asked <- job,
    stage <- [r \in Req |-> StageOf(r)], claims <- [r \in Req |-> ClaimsOf(r)]

\* Although no use case runs in a transaction, a request takes effect at one
\* moment between its beginning and its answer, or not at all, and its JWT
\* tells what was so at such a moment.
RequestsAreAtomic == Registered!Spec

\* Every request is answered.
RequestsAreAnswered ==
    \A r \in Req : pc[r] \in Steps ~> Answered(r)

\* Once no more servers stop, every replica ends up serving: a start-up that
\* found a half-finished bootstrap, or lost the race with another, does not
\* keep failing.
EveryReplicaServes == \A s \in Replica : <>[](BootAt(s, "serving"))

(* What the documentation says, and the code does not do.                  *)

\* ADR-013 rule 5: retrying the whole use case repairs a partial failure.
\* For the bootstrap, whose retry is the next start of the server: once a
\* replica serves, the admin it or an earlier start created has a profile.
BootstrapIsRepaired ==
    \A s \in Replica : BootAt(s, "serving") =>
        \A u \in Live : users[u].identity \in UserId => u \in profiles

\* A login is rejected as "email already registered" only when some account
\* of another identity exists.
RejectedOnlyForAnotherAccount ==
    \A r \in Req : At(r, "emailTaken") =>
        \E u \in Live : users[u].identity # job[r].identity
=============================================================================
