--------------------------- MODULE AccountsProofs ---------------------------
(***************************************************************************)
(* The types and the safety properties of Accounts, for every number of    *)
(* users, PATs, requests and replicas.                                     *)
(***************************************************************************)
EXTENDS Accounts, TLAPS

\* The step a request is at tells which use case it runs, and so which
\* arguments its job j has, and when it has read a user u.
Matches(step, j, u) ==
    /\ step \in {"upsert", "insert", "emailOwner", "ensureProfile"} => j \in LoginJob
    /\ step = "findPAT" => j \in PatJob /\ j.op = "exchangePAT"
    /\ step = "deletePAT" => j \in PatJob /\ j.op = "revokePAT"
    /\ step = "findUser" => j.op \in {"exchangePAT", "refresh", "createPAT"}
    /\ step = "savePAT" => j \in NewPatJob
    /\ step = "setRole" => j \in RoleJob
    /\ step = "deleteUser" => j \in UserJob /\ j.op = "deleteUser"
    /\ step \in {"findUser", "savePAT", "ensureProfile", "sign", "token"} => u \in UserId

StepsMatchJobs == \A r \in Req : Matches(pc[r], job[r], seen[r].user)

\* A replica inserts an admin only if it is configured with an email.
BootConfigured == \A s \in Replica : BootAt(s, "upsert") => AdminEmail \in Email

TypeInv == TypeOK /\ StepsMatchJobs /\ BootConfigured

LEMMA JobTypes ==
    ASSUME NEW j \in Job
    PROVE  /\ j.op = "login" <=> j \in LoginJob
           /\ j.op \in {"exchangePAT", "revokePAT"} <=> j \in PatJob
           /\ j.op \in {"refresh", "deleteUser"} <=> j \in UserJob
           /\ j.op = "updateRole" <=> j \in RoleJob
           /\ j.op = "createPAT" <=> j \in NewPatJob
           /\ j.op \in {"login", "exchangePAT", "revokePAT", "refresh",
                        "deleteUser", "updateRole", "createPAT"}
<1>1. CASE j \in LoginJob
  BY <1>1 DEF LoginJob, PatJob, UserJob, RoleJob, NewPatJob
<1>2. CASE j \in PatJob
  BY <1>2 DEF LoginJob, PatJob, UserJob, RoleJob, NewPatJob
<1>3. CASE j \in UserJob
  BY <1>3 DEF LoginJob, PatJob, UserJob, RoleJob, NewPatJob
<1>4. CASE j \in RoleJob
  BY <1>4 DEF LoginJob, PatJob, UserJob, RoleJob, NewPatJob
<1>5. CASE j \in NewPatJob
  BY <1>5 DEF LoginJob, PatJob, UserJob, RoleJob, NewPatJob
<1> QED
  BY <1>1, <1>2, <1>3, <1>4, <1>5 DEF Job

LEMMA TypeInit == Init => TypeInv
<1> SUFFICES ASSUME Init PROVE TypeInv
  OBVIOUS
<1>1. TypeOK
  BY AccountsAssumption DEF Init, TypeOK, Nobody, Role, BootSteps, NoJob
<1>2. StepsMatchJobs
  BY DEF Init, StepsMatchJobs, Matches
<1>3. BootConfigured
  BY DEF Init, BootConfigured, BootAt
<1> QED
  BY <1>1, <1>2, <1>3 DEF TypeInv

LEMMA TypeBegin ==
    ASSUME TypeInv, NEW r \in Req, NEW s \in Replica, NEW j \in Jobs, Begin(r, s, j)
    PROVE  TypeInv'
<1>1. j \in Job
  BY AccountsAssumption
<1>2. FirstStep(j.op) \in Steps
  BY <1>1, JobTypes DEF FirstStep, Steps
<1>3. j.op \in {"refresh", "createPAT"} => j.user \in UserId
  BY <1>1, JobTypes DEF UserJob, NewPatJob
<1>4. TypeOK'
  <2>1. pc' \in [Req -> {"idle"} \cup Steps \cup Answers] /\ job' \in [Req -> Job \cup {NoJob}]
        /\ host' \in [Req -> Replica \cup {NoReplica}]
    BY <1>1, <1>2 DEF TypeInv, TypeOK, Begin, Goto
  <2>2. seen' \in [Req -> [user : UserId \cup {NoUser}, role : Role]]
    BY <1>3 DEF TypeInv, TypeOK, Begin
  <2>3. before' \in [Req -> SUBSET (Req \cup PatId)]
    BY DEF TypeInv, TypeOK, Begin, Answered, Stored
  <2> QED
    BY <2>1, <2>2, <2>3 DEF TypeInv, TypeOK, Begin, tables, servers
<1>5. StepsMatchJobs'
  BY <1>1, <1>3, JobTypes DEF TypeInv, TypeOK, StepsMatchJobs, Matches, Begin, Goto, FirstStep, LoginJob
<1>6. BootConfigured'
  BY DEF TypeInv, BootConfigured, BootAt, Begin, servers
<1> QED
  BY <1>4, <1>5, <1>6 DEF TypeInv

\* A step of request r moves r alone.
Moves(r, step) ==
    /\ pc' = [pc EXCEPT ![r] = step]
    /\ job' = job
    /\ seen' \in [Req -> [user : UserId \cup {NoUser}, role : Role]]
    /\ \A q \in Req \ {r} : seen'[q] = seen[q]
    /\ Matches(step, job[r], seen'[r].user)
    /\ UNCHANGED <<host, before, servers>>

LEMMA MovesType ==
    ASSUME TypeInv, NEW r \in Req, NEW step \in Steps \cup Answers, Moves(r, step),
           users' \in [UserId -> UserRow \cup {Unused, Gone}],
           pats' \in [PatId -> PatRow \cup {Unused, Gone}],
           profiles' \in SUBSET UserId
    PROVE  TypeInv'
<1>1. TypeOK'
  BY DEF TypeInv, TypeOK, Moves, servers
<1>2. StepsMatchJobs'
  BY DEF TypeInv, TypeOK, Moves, StepsMatchJobs
<1>3. BootConfigured'
  BY DEF TypeInv, BootConfigured, BootAt, Moves, servers
<1> QED
  BY <1>1, <1>2, <1>3 DEF TypeInv

\* What an upsert writes is a row of its type.
LEMMA UsersType ==
    ASSUME TypeOK, NEW u \in UserId, NEW i \in Identity, NEW e \in Email, NEW role \in Role
    PROVE  /\ InsertUser(u, i, e, role) => users' \in [UserId -> UserRow \cup {Unused, Gone}]
           /\ u \in Live /\ UpdateEmail(u, e) => users' \in [UserId -> UserRow \cup {Unused, Gone}]
           /\ u \in Live /\ SetRole(u, role) => users' \in [UserId -> UserRow \cup {Unused, Gone}]
<1>1. InsertUser(u, i, e, role) => users' \in [UserId -> UserRow \cup {Unused, Gone}]
  BY DEF TypeOK, InsertUser, UserRow
<1>2. ASSUME u \in Live PROVE users[u] \in UserRow
  BY <1>2 DEF TypeOK, Live
<1>3. ASSUME u \in Live PROVE [users[u] EXCEPT !.email = e] \in UserRow
  BY <1>2, <1>3 DEF UserRow
<1>4. ASSUME u \in Live PROVE [users[u] EXCEPT !.role = role] \in UserRow
  BY <1>2, <1>4 DEF UserRow
<1> QED
  BY <1>1, <1>3, <1>4 DEF TypeOK, UpdateEmail, SetRole

LEMMA TypeUpsert ==
    ASSUME TypeInv, NEW r \in Req, Upsert(r)
    PROVE  TypeInv'
<1>1. job[r] \in LoginJob
  BY DEF TypeInv, StepsMatchJobs, Matches, Upsert, At
<1>2. job[r].identity \in Identity /\ job[r].email \in Email
  BY <1>1 DEF LoginJob, Identity
<1>3. CASE HasIdentity(job[r].identity) = {} /\ Goto(r, "insert") /\ UNCHANGED <<users, seen>>
  BY <1>1, <1>3, MovesType DEF Upsert, TypeInv, TypeOK, Moves, Matches, Goto, Steps
<1>4. ASSUME NEW u \in HasIdentity(job[r].identity),
             UpdateEmail(u, job[r].email), Read(r, u, users[u].role), Goto(r, "ensureProfile")
      PROVE  TypeInv'
  <2>1. u \in Live /\ users[u] \in UserRow
    BY <1>4 DEF HasIdentity, Live, TypeInv, TypeOK
  <2>2. users' \in [UserId -> UserRow \cup {Unused, Gone}]
    <3>1. users[u].role \in Role /\ u \in UserId
      BY <2>1 DEF UserRow, Live
    <3> QED
      BY <1>2, <1>4, <2>1, <3>1, UsersType DEF TypeInv
  <2>3. Moves(r, "ensureProfile")
    BY <1>1, <1>4, <2>1 DEF Upsert, TypeInv, TypeOK, Moves, Matches, Goto, Read, UserRow, Live
  <2> QED
    BY <2>2, <2>3, MovesType DEF Upsert, TypeInv, TypeOK, Steps
<1>5. CASE Goto(r, "emailOwner") /\ UNCHANGED <<users, seen>>
  BY <1>1, <1>5, MovesType DEF Upsert, TypeInv, TypeOK, Moves, Matches, Goto, Steps
<1> QED
  BY <1>3, <1>4, <1>5 DEF Upsert

LEMMA TypeInsert ==
    ASSUME TypeInv, NEW r \in Req, Insert(r)
    PROVE  TypeInv'
<1>1. job[r] \in LoginJob
  BY DEF TypeInv, StepsMatchJobs, Matches, Insert, At
<1>2. job[r].identity \in Identity /\ job[r].email \in Email
  BY <1>1 DEF LoginJob, Identity
<1>3. CASE Goto(r, "emailOwner") /\ UNCHANGED <<users, seen>>
  BY <1>1, <1>3, MovesType DEF Insert, TypeInv, TypeOK, Moves, Matches, Goto, Steps
<1>4. ASSUME NEW u \in HasIdentity(job[r].identity),
             UpdateEmail(u, job[r].email), Read(r, u, users[u].role), Goto(r, "ensureProfile")
      PROVE  TypeInv'
  <2>1. u \in Live /\ users[u] \in UserRow
    BY <1>4 DEF HasIdentity, Live, TypeInv, TypeOK
  <2>2. users[u].role \in Role /\ u \in UserId
    BY <2>1 DEF UserRow, Live
  <2>3. users' \in [UserId -> UserRow \cup {Unused, Gone}]
    BY <1>2, <1>4, <2>1, <2>2, UsersType DEF TypeInv
  <2>4. Moves(r, "ensureProfile")
    BY <1>1, <1>4, <2>2 DEF Insert, TypeInv, TypeOK, Moves, Matches, Goto, Read
  <2> QED
    BY <2>3, <2>4, MovesType DEF Insert, TypeInv, TypeOK, Steps
<1>5. ASSUME NEW u \in UserId, InsertUser(u, job[r].identity, job[r].email, "user"),
             Read(r, u, "user"), Goto(r, "ensureProfile")
      PROVE  TypeInv'
  <2>1. users' \in [UserId -> UserRow \cup {Unused, Gone}]
    BY <1>2, <1>5, UsersType DEF TypeInv, Role
  <2>2. Moves(r, "ensureProfile")
    BY <1>1, <1>5 DEF Insert, TypeInv, TypeOK, Moves, Matches, Goto, Read, Role
  <2> QED
    BY <2>1, <2>2, MovesType DEF Insert, TypeInv, TypeOK, Steps
<1> QED
  BY <1>3, <1>4, <1>5 DEF Insert

LEMMA TypeEmailOwner ==
    ASSUME TypeInv, NEW r \in Req, EmailOwner(r)
    PROVE  TypeInv'
<1>1. seen' \in [Req -> [user : UserId \cup {NoUser}, role : Role]]
      /\ \A q \in Req \ {r} : seen'[q] = seen[q]
  <2>1. \A u \in Live : u \in UserId /\ users[u].role \in Role
    BY DEF TypeInv, TypeOK, Live, UserRow
  <2> QED
    BY <2>1 DEF EmailOwner, Read, HasEmail, TypeInv, TypeOK
<1>2. Moves(r, "emailTaken")
  BY <1>1 DEF EmailOwner, TypeInv, TypeOK, Moves, Matches, Goto
<1> QED
  BY <1>2, MovesType DEF EmailOwner, TypeInv, TypeOK, Answers, tables

LEMMA TypeEnsureProfile ==
    ASSUME TypeInv, NEW r \in Req, EnsureProfile(r)
    PROVE  TypeInv'
<1>1. seen[r].user \in UserId
  BY DEF TypeInv, StepsMatchJobs, Matches, EnsureProfile, At
<1>2. profiles' \in SUBSET UserId
  BY <1>1 DEF EnsureProfile, InsertProfile, TypeInv, TypeOK
<1>3. Moves(r, "sign") \/ Moves(r, "failed")
  BY <1>1 DEF EnsureProfile, TypeInv, TypeOK, Moves, Matches, Goto
<1> QED
  BY <1>2, <1>3, MovesType DEF EnsureProfile, TypeInv, TypeOK, Steps, Answers

LEMMA TypeFindPAT ==
    ASSUME TypeInv, NEW r \in Req, FindPAT(r)
    PROVE  TypeInv'
<1>1. job[r] \in PatJob /\ job[r].pat \in PatId /\ job[r].op = "exchangePAT"
  <2>1. job[r] \in PatJob /\ job[r].op = "exchangePAT"
    BY DEF TypeInv, StepsMatchJobs, Matches, FindPAT, At
  <2> QED
    BY <2>1 DEF PatJob
<1>2. CASE Goto(r, "rejected") /\ UNCHANGED seen
  BY <1>2, MovesType DEF FindPAT, TypeInv, TypeOK, Moves, Matches, Goto, Answers, tables
<1>3. ASSUME job[r].pat \in Stored, Goto(r, "findUser"),
             seen' = [seen EXCEPT ![r].user = pats[job[r].pat].owner]
      PROVE  TypeInv'
  <2>1. pats[job[r].pat].owner \in UserId
    BY <1>3 DEF Stored, TypeInv, TypeOK, PatRow
  <2>2. seen'[r].user \in UserId
    BY <1>3, <2>1 DEF TypeInv, TypeOK
  <2>3. Moves(r, "findUser")
    BY <1>1, <1>3, <2>1, <2>2 DEF FindPAT, TypeInv, TypeOK, Moves, Matches, Goto
  <2> QED
    BY <2>3, MovesType DEF FindPAT, TypeInv, TypeOK, Steps, tables
<1> QED
  BY <1>2, <1>3 DEF FindPAT

LEMMA TypeFindUser ==
    ASSUME TypeInv, NEW r \in Req, FindUser(r)
    PROVE  TypeInv'
<1>1. job[r].op \in {"exchangePAT", "refresh", "createPAT"} /\ seen[r].user \in UserId
  BY DEF TypeInv, StepsMatchJobs, Matches, FindUser, At
<1>2. job[r].op = "createPAT" => job[r] \in NewPatJob
  <2>1. job[r] \in Job \cup {NoJob}
    BY DEF TypeInv, TypeOK
  <2> QED
    BY <2>1, JobTypes DEF NoJob
<1>3. CASE Goto(r, "rejected") /\ UNCHANGED seen
  BY <1>3, MovesType DEF FindUser, TypeInv, TypeOK, Moves, Matches, Goto, Answers, tables
<1>4. ASSUME seen[r].user \in Live, Read(r, seen[r].user, users[seen[r].user].role),
             Goto(r, IF job[r].op = "createPAT" THEN "savePAT" ELSE "sign")
      PROVE  TypeInv'
  <2>1. users[seen[r].user].role \in Role
    BY <1>4 DEF Live, TypeInv, TypeOK, UserRow
  <2>2. /\ seen' \in [Req -> [user : UserId \cup {NoUser}, role : Role]]
        /\ seen'[r].user \in UserId
        /\ \A q \in Req \ {r} : seen'[q] = seen[q]
    BY <1>1, <1>4, <2>1 DEF Read, TypeInv, TypeOK
  <2>3. Moves(r, "savePAT") \/ Moves(r, "sign")
    BY <1>2, <1>4, <2>2 DEF FindUser, Moves, Matches, Goto
  <2> QED
    BY <2>3, MovesType DEF FindUser, TypeInv, TypeOK, Steps, tables
<1> QED
  BY <1>3, <1>4 DEF FindUser

LEMMA TypeCreatePAT ==
    ASSUME TypeInv, NEW r \in Req, CreatePAT(r)
    PROVE  TypeInv'
<1>1. job[r] \in NewPatJob /\ job[r].expires \in {"never", "later", "past"}
  <2>1. job[r] \in NewPatJob
    BY DEF TypeInv, StepsMatchJobs, Matches, CreatePAT, At
  <2> QED
    BY <2>1 DEF NewPatJob
<1>2. pats' \in [PatId -> PatRow \cup {Unused, Gone}]
  BY <1>1 DEF CreatePAT, SavePAT, Live, PatRow, TypeInv, TypeOK
<1>3. Moves(r, "ok") \/ Moves(r, "failed")
  BY DEF CreatePAT, Done, TypeInv, TypeOK, Moves, Matches, Goto
<1> QED
  BY <1>2, <1>3, MovesType DEF CreatePAT, TypeInv, TypeOK, Answers

\* RevokePAT, UpdateRole and DeleteUser answer whatever they find.
LEMMA TypeWrites ==
    ASSUME TypeInv, NEW r \in Req, RevokePAT(r) \/ UpdateRole(r) \/ DeleteUser(r)
    PROVE  TypeInv'
<1>1. \E a \in {"ok", "failed", "rejected"} : Moves(r, a)
  BY DEF RevokePAT, UpdateRole, DeleteUser, Done, TypeInv, TypeOK, Moves, Matches, Goto
<1>2. users' \in [UserId -> UserRow \cup {Unused, Gone}]
  <2>1. CASE RevokePAT(r)
    BY <2>1 DEF RevokePAT, TypeInv, TypeOK
  <2>2. ASSUME UpdateRole(r) PROVE users' \in [UserId -> UserRow \cup {Unused, Gone}]
    <3>1. job[r] \in RoleJob
      BY <2>2 DEF TypeInv, StepsMatchJobs, Matches, UpdateRole, At
    <3>2. job[r].user \in UserId /\ job[r].role \in Role
      BY <3>1 DEF RoleJob
    <3>3. \A u \in Live : users[u] \in UserRow
      BY DEF TypeInv, TypeOK, Live
    <3>4. job[r].user \in Live => [users[job[r].user] EXCEPT !.role = job[r].role] \in UserRow
      BY <3>2, <3>3 DEF UserRow
    <3> QED
      BY <2>2, <3>2, <3>4 DEF UpdateRole, SetRole, TypeInv, TypeOK
  <2>3. CASE DeleteUser(r)
    BY <2>3 DEF DeleteUser, tables, TypeInv, TypeOK
  <2> QED
    BY <2>1, <2>2, <2>3
<1>3. pats' \in [PatId -> PatRow \cup {Unused, Gone}]
  BY DEF RevokePAT, UpdateRole, DeleteUser, tables, TypeInv, TypeOK
<1>4. profiles' \in SUBSET UserId
  BY DEF RevokePAT, UpdateRole, DeleteUser, tables, TypeInv, TypeOK
<1> QED
  BY <1>1, <1>2, <1>3, <1>4, MovesType DEF Answers

LEMMA TypeSignFail ==
    ASSUME TypeInv, NEW r \in Req, Sign(r) \/ Fail(r)
    PROVE  TypeInv'
<1>1. Moves(r, "token") \/ Moves(r, "failed")
  BY DEF Sign, Fail, At, TypeInv, TypeOK, StepsMatchJobs, Moves, Matches, Goto
<1> QED
  BY <1>1, MovesType DEF Sign, Fail, tables, TypeInv, TypeOK, Answers

LEMMA TypeServers ==
    ASSUME TypeInv, NEW s \in Replica, BootStep(s) \/ Stop(s) \/ Start(s)
    PROVE  TypeInv'
<1>0. BootConfigured'
  BY AccountsAssumption DEF BootStep, BootCount, BootUpsert, BootSavePAT, BootProfile, Stop,
        Start, BootGoto, BootAt, BootConfigured, TypeInv, TypeOK, BootSteps
<1>1. CASE BootCount(s)
  BY <1>0, <1>1 DEF BootCount, BootGoto, BootSteps, TypeInv, TypeOK, StepsMatchJobs, tables, requests
<1>2. CASE BootUpsert(s)
  <2>1. users' \in [UserId -> UserRow \cup {Unused, Gone}]
    <3>1. AdminEmail \in Email
      BY <1>2 DEF BootUpsert, TypeInv, BootConfigured
    <3> QED
      BY <1>2, <3>1 DEF BootUpsert, InsertUser, UserRow, Identity, Role, TypeInv, TypeOK
  <2> QED
    BY <1>0, <1>2, <2>1 DEF BootUpsert, BootGoto, BootSteps, TypeInv, TypeOK, StepsMatchJobs, requests
<1>3. CASE BootSavePAT(s)
  <2>1. pats' \in [PatId -> PatRow \cup {Unused, Gone}]
    BY <1>3 DEF BootSavePAT, SavePAT, PatRow, Live, TypeInv, TypeOK
  <2> QED
    BY <1>0, <1>3, <2>1 DEF BootSavePAT, BootGoto, BootSteps, TypeInv, TypeOK, StepsMatchJobs, requests
<1>4. CASE BootProfile(s)
  BY <1>0, <1>4 DEF BootProfile, BootGoto, InsertProfile, Live, TypeInv, TypeOK, StepsMatchJobs, requests
<1>5. CASE Stop(s)
  <2>1. pc' \in [Req -> {"idle"} \cup Steps \cup Answers]
    BY <1>5 DEF Stop, Answers, TypeInv, TypeOK
  <2>2. stops' \in 0 .. MaxStops
    <3>1. stops \in 0 .. MaxStops /\ stops < MaxStops /\ stops' = stops + 1
      BY <1>5 DEF Stop, TypeInv, TypeOK
    <3>2. MaxStops \in Nat
      BY AccountsAssumption
    <3> QED
      BY <3>1, <3>2
  <2>3. \A r \in Req : Matches("failed", job[r], seen[r].user)
    BY DEF Matches
  <2>4. StepsMatchJobs'
    BY <1>5, <2>3 DEF Stop, TypeInv, TypeOK, StepsMatchJobs
  <2> QED
    BY <1>0, <1>5, <2>1, <2>2, <2>4 DEF Stop, BootGoto, TypeInv, TypeOK, tables
<1>6. CASE Start(s)
  BY <1>0, <1>6 DEF Start, BootGoto, BootSteps, TypeInv, TypeOK, StepsMatchJobs, tables, requests
<1> QED
  BY <1>1, <1>2, <1>3, <1>4, <1>5, <1>6 DEF BootStep

LEMMA TypeExpire ==
    ASSUME TypeInv, NEW p \in PatId, Expire(p)
    PROVE  TypeInv'
<1>1. pats[p] \in PatRow
  BY DEF Expire, Stored, TypeInv, TypeOK
<1>2. [pats[p] EXCEPT !.expires = "past"] \in PatRow
  BY <1>1 DEF PatRow
<1> QED
  BY <1>2 DEF Expire, TypeInv, TypeOK, StepsMatchJobs, BootConfigured, BootAt, requests, servers

LEMMA TypeStep == TypeInv /\ [Next]_vars => TypeInv'
<1> SUFFICES ASSUME TypeInv, [Next]_vars PROVE TypeInv'
  OBVIOUS
<1>1. ASSUME NEW r \in Req, RequestStep(r) \/ Fail(r) PROVE TypeInv'
  BY <1>1, TypeUpsert, TypeInsert, TypeEmailOwner, TypeEnsureProfile, TypeFindPAT,
     TypeFindUser, TypeCreatePAT, TypeWrites, TypeSignFail DEF RequestStep
<1>2. CASE UNCHANGED vars
  BY <1>2 DEF TypeInv, TypeOK, StepsMatchJobs, BootConfigured, BootAt, vars, tables, requests, servers
<1> QED
  BY <1>1, <1>2, TypeBegin, TypeExpire, TypeServers DEF Next

\* Every variable keeps its type, whatever the requests, replicas and
\* failures: every row that is written is a complete one.
THEOREM TypeCorrect == Spec => []TypeOK
<1>1. TypeInv => TypeOK
  BY DEF TypeInv
<1> QED
  BY <1>1, TypeInit, TypeStep, PTL DEF Spec

-----------------------------------------------------------------------------
(* Keys.  What makes UniqueKeys inductive is where identities come from: a *)
(* bootstrap admin has its own, and no login can have that one.            *)

OwnIdentity == \A u \in Live : users[u].identity \in OAuthIdentity \cup {u}

\* No login is for the identity of a bootstrap admin, so its email stays.
AdminKeepsEmail == \A u \in Live : users[u].identity = u => users[u].email = AdminEmail

KeysInv == UniqueKeys /\ OwnIdentity /\ AdminKeepsEmail

\* All a step can do to the table of users.
Inserts(u, i, e) ==
    /\ users[u] = Unused
    /\ HasEmail(e) = {} /\ HasIdentity(i) = {}
    /\ i \in OAuthIdentity \/ (i = u /\ e = AdminEmail)
    /\ i \in Identity /\ e \in Email
    /\ \E role \in Role : users' = [users EXCEPT ![u] = [identity |-> i, email |-> e, role |-> role]]

Renames(u, e) ==
    /\ u \in Live /\ users[u].identity \in OAuthIdentity
    /\ e \in Email /\ HasEmail(e) \subseteq {u}
    /\ users' = [users EXCEPT ![u] = [users[u] EXCEPT !.email = e]]

Regrades(u) ==
    /\ u \in Live
    /\ \E role \in Role : users' = [users EXCEPT ![u] = [users[u] EXCEPT !.role = role]]

Deletes(u) ==
    /\ u \in Live
    /\ users' = [users EXCEPT ![u] = Gone]

UsersStep ==
    \/ users' = users
    \/ \E u \in UserId, i \in Identity, e \in Email : Inserts(u, i, e)
    \/ \E u \in UserId, e \in Email : Renames(u, e)
    \/ \E u \in UserId : Regrades(u)
    \/ \E u \in UserId : Deletes(u) /\ \E r \in Req : DeleteUser(r)

LEMMA LiveRows ==
    ASSUME TypeOK
    PROVE  \A u \in Live : /\ u \in UserId /\ users[u] \in UserRow
                           /\ users[u].identity \in Identity
                           /\ users[u].email \in Email /\ users[u].role \in Role
  BY DEF TypeOK, Live, UserRow

LEMMA UpsertStep ==
    ASSUME TypeInv, NEW r \in Req, Upsert(r) \/ Insert(r)
    PROVE  UsersStep
<1>1. job[r] \in LoginJob
  BY DEF TypeInv, StepsMatchJobs, Matches, Upsert, Insert, At
<1>2. /\ job[r].identity \in OAuthIdentity /\ job[r].identity \in Identity
      /\ job[r].email \in Email
  BY <1>1 DEF LoginJob, Identity
<1>3. ASSUME NEW u \in HasIdentity(job[r].identity), UpdateEmail(u, job[r].email),
             HasEmail(job[r].email) \subseteq {u}
      PROVE  UsersStep
  <2>1. u \in Live /\ users[u].identity \in OAuthIdentity /\ u \in UserId
    BY <1>2, <1>3 DEF HasIdentity, Live
  <2>2. Renames(u, job[r].email)
    BY <1>2, <1>3, <2>1 DEF Renames, UpdateEmail
  <2> QED
    BY <1>2, <2>1, <2>2 DEF UsersStep
<1>4. ASSUME NEW u \in UserId, InsertUser(u, job[r].identity, job[r].email, "user"),
             HasEmail(job[r].email) = {}, HasIdentity(job[r].identity) = {}
      PROVE  UsersStep
  <2>1. Inserts(u, job[r].identity, job[r].email)
    BY <1>2, <1>4 DEF Inserts, InsertUser, Role
  <2> QED
    BY <1>2, <2>1 DEF UsersStep
<1>5. CASE users' = users
  BY <1>5 DEF UsersStep
<1> QED
  BY <1>3, <1>4, <1>5 DEF Upsert, Insert

LEMMA UsersStepOfNext ==
    ASSUME TypeInv, OwnIdentity, [Next]_vars
    PROVE  UsersStep
<1>1. ASSUME NEW r \in Req, UpdateRole(r) PROVE UsersStep
  <2>1. job[r] \in RoleJob
    BY <1>1 DEF TypeInv, StepsMatchJobs, Matches, UpdateRole, At
  <2>2. job[r].user \in UserId /\ job[r].role \in Role
    BY <2>1 DEF RoleJob
  <2> QED
    BY <1>1, <2>2 DEF UpdateRole, SetRole, UsersStep, Regrades
<1>2. ASSUME NEW r \in Req, DeleteUser(r) PROVE UsersStep
  BY <1>2 DEF DeleteUser, UsersStep, Deletes, Live, tables
<1>3. ASSUME NEW s \in Replica, BootUpsert(s) PROVE UsersStep
  <2>1. AdminEmail \in Email
    BY <1>3 DEF BootUpsert, TypeInv, BootConfigured
  <2>2. ASSUME NEW u \in UserId, InsertUser(u, u, AdminEmail, "admin"), HasEmail(AdminEmail) = {}
        PROVE  UsersStep
    <3>1. HasIdentity(u) = {}
      BY <2>2, AccountsAssumption DEF HasIdentity, OwnIdentity, InsertUser, Live
    <3>2. Inserts(u, u, AdminEmail)
      BY <2>1, <2>2, <3>1 DEF Inserts, InsertUser, Identity, Role
    <3> QED
      BY <2>1, <3>2 DEF UsersStep, Identity
  <2> QED
    BY <1>3, <2>2 DEF BootUpsert, UsersStep
<1>4. ASSUME NEW r \in Req, RequestStep(r) \/ Fail(r) PROVE UsersStep
  <2>1. CASE Upsert(r) \/ Insert(r)
    BY <2>1, UpsertStep
  <2>2. CASE UpdateRole(r) \/ DeleteUser(r)
    BY <2>2, <1>1, <1>2
  <2>3. CASE EmailOwner(r) \/ EnsureProfile(r) \/ FindPAT(r) \/ FindUser(r)
             \/ CreatePAT(r) \/ RevokePAT(r) \/ Sign(r) \/ Fail(r)
    BY <2>3 DEF EmailOwner, EnsureProfile, FindPAT, FindUser, CreatePAT, RevokePAT, Sign,
                Fail, tables, UsersStep
  <2> QED
    BY <1>4, <2>1, <2>2, <2>3 DEF RequestStep
<1>5. ASSUME NEW s \in Replica, BootStep(s) \/ Stop(s) \/ Start(s) PROVE UsersStep
  BY <1>3, <1>5 DEF BootStep, BootCount, BootSavePAT, BootProfile, Stop, Start, tables, UsersStep
<1> QED
  BY <1>4, <1>5 DEF Next, Begin, Expire, vars, tables, UsersStep

LEMMA KeysStep ==
    ASSUME TypeInv, KeysInv, UsersStep
    PROVE  KeysInv'
<1> USE LiveRows DEF KeysInv, TypeInv
<1>1. CASE users' = users
  BY <1>1 DEF UniqueKeys, OwnIdentity, AdminKeepsEmail, Live
<1>2. ASSUME NEW u \in UserId, NEW i \in Identity, NEW e \in Email, Inserts(u, i, e)
      PROVE  KeysInv'
  <2>1. /\ Live' \subseteq Live \cup {u}
        /\ \A v \in Live : v # u /\ users'[v] = users[v]
        /\ users'[u].identity = i /\ users'[u].email = e
    BY <1>2 DEF Inserts, Live, TypeOK
  <2>2. \A v \in Live : users[v].email # e /\ users[v].identity # i
    BY <1>2 DEF Inserts, HasEmail, HasIdentity
  <2>3. UniqueKeys'
    BY <2>1, <2>2 DEF UniqueKeys
  <2>4. OwnIdentity' /\ AdminKeepsEmail'
    BY <1>2, <2>1, AccountsAssumption DEF Inserts, OwnIdentity, AdminKeepsEmail
  <2> QED
    BY <2>3, <2>4
<1>3. ASSUME NEW u \in UserId, NEW e \in Email, Renames(u, e)
      PROVE  KeysInv'
  <2>1. /\ Live' = Live
        /\ \A v \in Live : users'[v].identity = users[v].identity
        /\ \A v \in Live \ {u} : users'[v].email = users[v].email
        /\ users'[u].email = e
    BY <1>3, AccountsAssumption DEF Renames, Live, TypeOK, UserRow
  <2>2. \A v \in Live \ {u} : users[v].email # e
    BY <1>3 DEF Renames, HasEmail
  <2>3. UniqueKeys'
    BY <2>1, <2>2 DEF UniqueKeys
  <2>4. OwnIdentity' /\ AdminKeepsEmail'
    BY <1>3, <2>1, AccountsAssumption DEF Renames, OwnIdentity, AdminKeepsEmail
  <2> QED
    BY <2>3, <2>4
<1>4. ASSUME NEW u \in UserId, Regrades(u)
      PROVE  KeysInv'
  <2>1. /\ Live' = Live
        /\ \A v \in Live : /\ users'[v].identity = users[v].identity
                            /\ users'[v].email = users[v].email
    BY <1>4, AccountsAssumption DEF Regrades, Live, TypeOK, UserRow
  <2> QED
    BY <2>1 DEF UniqueKeys, OwnIdentity, AdminKeepsEmail
<1>5. ASSUME NEW u \in UserId, Deletes(u)
      PROVE  KeysInv'
  <2>1. Live' \subseteq Live /\ \A v \in Live' : users'[v] = users[v]
    BY <1>5 DEF Deletes, Live, TypeOK
  <2> QED
    BY <2>1 DEF UniqueKeys, OwnIdentity, AdminKeepsEmail
<1> QED
  BY <1>1, <1>2, <1>3, <1>4, <1>5 DEF UsersStep

LEMMA KeysInvariant == Spec => [](TypeInv /\ KeysInv)
<1>1. Init => TypeInv /\ KeysInv
  <2>1. Init => Live = {}
    BY DEF Init, Live
  <2> QED
    BY <2>1, TypeInit DEF KeysInv, UniqueKeys, OwnIdentity, AdminKeepsEmail
<1>2. TypeInv /\ KeysInv /\ [Next]_vars => (TypeInv /\ KeysInv)'
  BY TypeStep, UsersStepOfNext, KeysStep DEF KeysInv
<1> QED
  BY <1>1, <1>2, PTL DEF Spec

\* No two accounts ever share an email or an identity, although the index
\* lookup and the insert of an upsert are separate steps
\* (UserRepository.Upsert, UserManager.BootstrapAdmin).
THEOREM UniqueKeysHold == Spec => []UniqueKeys
<1>1. TypeInv /\ KeysInv => UniqueKeys
  BY DEF KeysInv
<1> QED
  BY <1>1, KeysInvariant, PTL

\* However many replicas start at once, and stop and start again, there is
\* never more than one bootstrap admin (runBootstrap).
THEOREM OneBootstrapAdminHolds == Spec => []OneBootstrapAdmin
<1>1. TypeInv /\ KeysInv => OneBootstrapAdmin
  BY LiveRows, AccountsAssumption
     DEF TypeInv, KeysInv, UniqueKeys, OwnIdentity, AdminKeepsEmail, OneBootstrapAdmin
<1> QED
  BY <1>1, KeysInvariant, PTL

-----------------------------------------------------------------------------
(* Rows that reference users, and the users that logins have read.         *)

\* A row that was given out stays with its identity until it is deleted,
\* and is never given out again; a profile goes only with its user.
RowsLiveOn ==
    \A u \in UserId : users[u] # Unused =>
        /\ users'[u] # Unused
        /\ u \in Live' =>
              /\ u \in Live
              /\ users'[u].identity = users[u].identity
              /\ u \in profiles => u \in profiles'

LEMMA RowsLiveOnOfNext ==
    ASSUME TypeInv, OwnIdentity, [Next]_vars
    PROVE  RowsLiveOn
<1>1. \A u \in UserId : users[u] # Unused =>
        users'[u] # Unused /\ (u \in Live' => u \in Live /\ users'[u].identity = users[u].identity)
  <2>1. \A u \in UserId : users[u] # Unused /\ u \notin Live => users[u] = Gone
    BY DEF Live
  <2>2. UsersStep
    BY UsersStepOfNext
  <2>3. CASE users' = users
    BY <2>3 DEF Live
  <2>4. ASSUME NEW v \in UserId, NEW i \in Identity, NEW e \in Email, Inserts(v, i, e)
        PROVE  \A u \in UserId : users[u] # Unused => users'[u] = users[u]
    BY <2>4 DEF Inserts, TypeInv, TypeOK
  <2>5. ASSUME NEW v \in Live, NEW row \in UserRow, row.identity = users[v].identity,
               users' = [users EXCEPT ![v] = row]
        PROVE  \A u \in UserId : /\ u # v => users'[u] = users[u]
                                 /\ u = v => users'[u] # Unused
                                 /\ u = v => users'[u].identity = users[u].identity
    BY <2>5, AccountsAssumption DEF TypeInv, TypeOK
  <2>6. ASSUME NEW v \in UserId, NEW e \in Email, Renames(v, e)
        PROVE  v \in Live /\ \E row \in UserRow : row.identity = users[v].identity
                             /\ users' = [users EXCEPT ![v] = row]
    <3>1. v \in Live /\ users[v] \in UserRow
      BY <2>6, LiveRows DEF Renames, TypeInv
    <3>2. /\ [users[v] EXCEPT !.email = e] \in UserRow
          /\ [users[v] EXCEPT !.email = e].identity = users[v].identity
      BY <3>1 DEF UserRow
    <3> QED
      BY <2>6, <3>1, <3>2 DEF Renames
  <2>7. ASSUME NEW v \in UserId, Regrades(v)
        PROVE  v \in Live /\ \E row \in UserRow : row.identity = users[v].identity
                             /\ users' = [users EXCEPT ![v] = row]
    <3>1. v \in Live /\ users[v] \in UserRow
      BY <2>7, LiveRows DEF Regrades, TypeInv
    <3>2. \A role \in Role : /\ [users[v] EXCEPT !.role = role] \in UserRow
                             /\ [users[v] EXCEPT !.role = role].identity = users[v].identity
      BY <3>1 DEF UserRow
    <3> QED
      BY <2>7, <3>1, <3>2 DEF Regrades
  <2>8. ASSUME NEW v \in UserId, Deletes(v)
        PROVE  \A u \in UserId : /\ u # v => users'[u] = users[u]
                                 /\ u = v => users'[u] = Gone
    BY <2>8 DEF Deletes, TypeInv, TypeOK
  <2>9. ASSUME NEW v \in Live, NEW row \in UserRow, row.identity = users[v].identity,
               users' = [users EXCEPT ![v] = row]
        PROVE  \A u \in UserId : users[u] # Unused =>
                 users'[u] # Unused /\ (u \in Live' => u \in Live /\ users'[u].identity = users[u].identity)
    BY <2>1, <2>5, <2>9 DEF Live
  <2> QED
    BY <2>1, <2>2, <2>3, <2>4, <2>6, <2>7, <2>8, <2>9, AccountsAssumption DEF UsersStep, Live
<1>2. \A u \in profiles : u \in Live' => u \in profiles'
  <2>1. ASSUME NEW r \in Req, DeleteUser(r) PROVE \A u \in profiles : u \in Live' => u \in profiles'
    BY <2>1 DEF DeleteUser, Live, tables, TypeInv, TypeOK
  <2>2. ASSUME NEW r \in Req, RequestStep(r) \/ Fail(r), ~ DeleteUser(r)
        PROVE  profiles \subseteq profiles'
    BY <2>2 DEF RequestStep, Upsert, Insert, EmailOwner, EnsureProfile, FindPAT, FindUser,
                CreatePAT, RevokePAT, UpdateRole, Sign, Fail, InsertProfile, tables
  <2>3. ASSUME NEW s \in Replica, BootStep(s) \/ Stop(s) \/ Start(s)
        PROVE  profiles \subseteq profiles'
    BY <2>3 DEF BootStep, BootCount, BootUpsert, BootSavePAT, BootProfile, Stop, Start,
                InsertProfile, tables
  <2> QED
    BY <2>1, <2>2, <2>3 DEF Next, Begin, Expire, tables, vars
<1> QED
  BY <1>1, <1>2 DEF RowsLiveOn

\* The user a login has read was there, and is the one of its identity; once
\* EnsureExists has succeeded the user has a profile.
LoginsReadTheirAccount ==
    \A r \in Req : job[r].op = "login" /\ pc[r] \in {"ensureProfile", "sign", "token"} =>
        /\ users[seen[r].user] # Unused
        /\ seen[r].user \in Live =>
              /\ users[seen[r].user].identity = job[r].identity
              /\ pc[r] # "ensureProfile" => seen[r].user \in profiles

\* What a step does to a request: nothing, an end, a start, or its own step.
LEMMA RequestFrame ==
    ASSUME TypeInv, [Next]_vars, NEW r \in Req
    PROVE  \/ pc'[r] = pc[r] /\ job'[r] = job[r] /\ seen'[r] = seen[r]
           \/ pc'[r] = "failed"
           \/ pc'[r] \in {"upsert", "findPAT", "findUser", "deletePAT", "setRole", "deleteUser"}
           \/ RequestStep(r) /\ job' = job
<1>1. ASSUME NEW q \in Req, RequestStep(q) \/ Fail(q)
      PROVE  /\ job' = job
             /\ q # r => pc'[r] = pc[r] /\ seen'[r] = seen[r]
  BY <1>1 DEF RequestStep, Upsert, Insert, EmailOwner, EnsureProfile, FindPAT, FindUser,
              CreatePAT, RevokePAT, UpdateRole, DeleteUser, Sign, Fail, Goto, Read, Done,
              TypeInv, TypeOK
<1>2. Fail(r) => pc'[r] = "failed"
  BY DEF Fail, Goto, TypeInv, TypeOK
<1>3. ASSUME NEW q \in Req, NEW s \in Replica, NEW j \in Jobs, Begin(q, s, j)
      PROVE  \/ pc'[r] = pc[r] /\ job'[r] = job[r] /\ seen'[r] = seen[r]
             \/ pc'[r] \in {"upsert", "findPAT", "findUser", "deletePAT", "setRole", "deleteUser"}
  <2>1. j \in Job
    BY AccountsAssumption
  <2>2. FirstStep(j.op) \in {"upsert", "findPAT", "findUser", "deletePAT", "setRole", "deleteUser"}
    BY <2>1, JobTypes DEF FirstStep
  <2> QED
    BY <1>3, <2>2 DEF Begin, Goto, TypeInv, TypeOK
<1>4. ASSUME NEW s \in Replica, BootStep(s) \/ Stop(s) \/ Start(s)
      PROVE  \/ pc'[r] = pc[r] /\ job'[r] = job[r] /\ seen'[r] = seen[r]
             \/ pc'[r] = "failed"
  BY <1>4 DEF BootStep, BootCount, BootUpsert, BootSavePAT, BootProfile, Stop, Start, requests
<1> QED
  BY <1>1, <1>2, <1>3, <1>4 DEF Next, Expire, vars, requests

LEMMA LoginsStep ==
    ASSUME TypeInv, OwnIdentity, LoginsReadTheirAccount, [Next]_vars
    PROVE  LoginsReadTheirAccount'
<1> SUFFICES ASSUME NEW r \in Req, job'[r].op = "login",
                    pc'[r] \in {"ensureProfile", "sign", "token"}
             PROVE  /\ users'[seen'[r].user] # Unused
                    /\ seen'[r].user \in Live' =>
                          /\ users'[seen'[r].user].identity = job'[r].identity
                          /\ pc'[r] # "ensureProfile" => seen'[r].user \in profiles'
  BY DEF LoginsReadTheirAccount
<1>1. RowsLiveOn
  BY RowsLiveOnOfNext
<1>2. pc[r] \in {"ensureProfile", "sign", "token"} => seen[r].user \in UserId
  BY DEF TypeInv, StepsMatchJobs, Matches
<1>3. CASE pc'[r] = pc[r] /\ job'[r] = job[r] /\ seen'[r] = seen[r]
  <2>1. /\ users[seen[r].user] # Unused /\ seen[r].user \in UserId
        /\ seen[r].user \in Live =>
              /\ users[seen[r].user].identity = job[r].identity
              /\ pc[r] # "ensureProfile" => seen[r].user \in profiles
    BY <1>2, <1>3 DEF LoginsReadTheirAccount
  <2>2. /\ users'[seen[r].user] # Unused
        /\ seen[r].user \in Live' =>
              /\ seen[r].user \in Live
              /\ users'[seen[r].user].identity = users[seen[r].user].identity
              /\ seen[r].user \in profiles => seen[r].user \in profiles'
    BY <1>1, <2>1 DEF RowsLiveOn
  <2>3. seen[r].user \in Live' =>
              /\ users'[seen[r].user].identity = job[r].identity
              /\ pc[r] # "ensureProfile" => seen[r].user \in profiles'
    BY <2>1, <2>2
  <2> QED
    BY <1>3, <2>2, <2>3
<1>4. ASSUME RequestStep(r), job' = job
      PROVE  /\ users'[seen'[r].user] # Unused
             /\ seen'[r].user \in Live' =>
                   /\ users'[seen'[r].user].identity = job'[r].identity
                   /\ pc'[r] # "ensureProfile" => seen'[r].user \in profiles'
  <2>1. ASSUME NEW u \in HasIdentity(job[r].identity), UpdateEmail(u, job[r].email),
               Read(r, u, users[u].role), Goto(r, "ensureProfile")
        PROVE  /\ users'[seen'[r].user] # Unused
               /\ users'[seen'[r].user].identity = job'[r].identity
               /\ pc'[r] = "ensureProfile"
    <3>1. u \in UserId /\ users[u] # Unused /\ users[u] \in UserRow
          /\ users[u].identity = job[r].identity
      BY <2>1, LiveRows DEF HasIdentity, Live, TypeInv
    <3>2. users'[u] = [users[u] EXCEPT !.email = job[r].email]
      BY <2>1, <3>1 DEF UpdateEmail, TypeInv, TypeOK
    <3>3. seen'[r].user = u /\ pc'[r] = "ensureProfile"
      BY <2>1 DEF Read, Goto, TypeInv, TypeOK
    <3>4. users'[u] # Unused
      BY <1>1, <3>1 DEF RowsLiveOn
    <3> QED
      BY <1>4, <3>1, <3>2, <3>3, <3>4 DEF UserRow
  <2>2. ASSUME NEW u \in UserId, InsertUser(u, job[r].identity, job[r].email, "user"),
               Read(r, u, "user"), Goto(r, "ensureProfile")
        PROVE  /\ users'[seen'[r].user] # Unused
               /\ users'[seen'[r].user].identity = job'[r].identity
               /\ pc'[r] = "ensureProfile"
    <3>1. users'[u] = [identity |-> job[r].identity, email |-> job[r].email, role |-> "user"]
      BY <2>2 DEF InsertUser, TypeInv, TypeOK
    <3>2. seen'[r].user = u /\ pc'[r] = "ensureProfile"
      BY <2>2 DEF Read, Goto, TypeInv, TypeOK
    <3>3. users' \in [UserId -> UserRow \cup {Unused, Gone}] /\ users'[u] # Unused
      <4>1. job[r] \in LoginJob \/ ~ (Upsert(r) \/ Insert(r))
        BY DEF TypeInv, StepsMatchJobs, Matches, Upsert, Insert, At
      <4>2. TypeInv'
        BY TypeStep
      <4>3. ASSUME job[r] \in LoginJob PROVE users'[u] \in UserRow
        BY <3>1, <4>3 DEF LoginJob, UserRow, Identity, Role
      <4>4. job[r] \in LoginJob
        <5>1. pc'[r] = "ensureProfile" => Matches("ensureProfile", job'[r], seen'[r].user)
          BY <4>2 DEF TypeInv, StepsMatchJobs
        <5> QED
          BY <1>4, <3>2, <5>1 DEF Matches
      <4> QED
        BY <4>2, <4>3, <4>4, AccountsAssumption DEF TypeInv, TypeOK
    <3> QED
      BY <1>4, <3>1, <3>2, <3>3
  <2>3. CASE Upsert(r)
    BY <2>1, <2>3 DEF Upsert, Goto, TypeInv, TypeOK
  <2>4. CASE Insert(r)
    BY <2>1, <2>2, <2>4 DEF Insert, Goto, TypeInv, TypeOK
  <2>5. CASE EnsureProfile(r)
    <3>1. pc[r] = "ensureProfile" /\ seen'[r] = seen[r] /\ users' = users
          /\ pc'[r] = "sign" /\ seen[r].user \in profiles'
      BY <2>5 DEF EnsureProfile, At, Goto, InsertProfile, TypeInv, TypeOK
    <3> QED
      BY <1>4, <3>1 DEF LoginsReadTheirAccount, Live
  <2>6. CASE Sign(r)
    <3>1. pc[r] = "sign" /\ seen'[r] = seen[r] /\ users' = users /\ profiles' = profiles
      BY <2>6 DEF Sign, At, tables
    <3> QED
      BY <1>4, <3>1 DEF LoginsReadTheirAccount, Live
  <2>7. CASE FindUser(r)
    <3>1. job[r].op # "login"
      BY <2>7 DEF FindUser, At, TypeInv, StepsMatchJobs, Matches
    <3> QED
      BY <1>4, <3>1
  <2>8. CASE EmailOwner(r) \/ FindPAT(r) \/ CreatePAT(r) \/ RevokePAT(r) \/ UpdateRole(r)
             \/ DeleteUser(r)
    BY <2>8 DEF EmailOwner, FindPAT, CreatePAT, RevokePAT, UpdateRole, DeleteUser, Done,
                Goto, TypeInv, TypeOK
  <2> QED
    BY <1>4, <2>3, <2>4, <2>5, <2>6, <2>7, <2>8 DEF RequestStep
<1> QED
  BY <1>3, <1>4, RequestFrame

LEMMA ReferencesStep ==
    ASSUME TypeInv, OwnIdentity, References, [Next]_vars
    PROVE  References'
<1>1. /\ Live = {u \in UserId : users[u] \notin {Unused, Gone}}
      /\ Stored = {p \in PatId : pats[p] \notin {Unused, Gone}}
  BY DEF Live, Stored
<1>2. ASSUME NEW r \in Req, DeleteUser(r) PROVE References'
  BY <1>2 DEF DeleteUser, References, Live, Stored, tables, TypeInv, TypeOK
<1>3. ASSUME Live \subseteq Live', NEW u \in Live, InsertProfile(u), pats' = pats
      PROVE  References'
  BY <1>3 DEF References, InsertProfile, Stored
<1>4. ASSUME Live \subseteq Live', NEW u \in Live, NEW p \in PatId,
             NEW expires \in {"never", "later", "past"}, SavePAT(p, u, expires), profiles' = profiles
      PROVE  References'
  <2>1. \A q \in Stored' : (q \in Stored /\ pats'[q] = pats[q]) \/ pats'[q].owner = u
    BY <1>4 DEF SavePAT, Stored, TypeInv, TypeOK
  <2> QED
    BY <1>4, <2>1 DEF References
<1>5. ASSUME Live \subseteq Live', profiles' = profiles,
             \A q \in Stored' : q \in Stored /\ pats'[q].owner = pats[q].owner
      PROVE  References'
  BY <1>5 DEF References
<1>6. ASSUME \A r \in Req : ~ DeleteUser(r)
      PROVE  Live \subseteq Live'
  <2>1. ASSUME NEW u \in UserId, NEW row \in UserRow, users' = [users EXCEPT ![u] = row]
        PROVE  Live \subseteq Live'
    BY <2>1, AccountsAssumption DEF Live, TypeInv, TypeOK
  <2>2. \A u \in UserId, i \in Identity, e \in Email : Inserts(u, i, e) =>
           \E row \in UserRow : users' = [users EXCEPT ![u] = row]
    BY DEF Inserts, UserRow
  <2>3. ASSUME NEW u \in UserId, NEW e \in Email, Renames(u, e)
        PROVE  \E row \in UserRow : users' = [users EXCEPT ![u] = row]
    BY <2>3, LiveRows DEF Renames, UserRow, TypeInv
  <2>4. ASSUME NEW u \in UserId, Regrades(u)
        PROVE  \E row \in UserRow : users' = [users EXCEPT ![u] = row]
    BY <2>4, LiveRows DEF Regrades, UserRow, TypeInv
  <2> QED
    BY <1>6, <2>1, <2>2, <2>3, <2>4, UsersStepOfNext DEF UsersStep, Live
<1>7. ASSUME \A r \in Req : ~ DeleteUser(r)
      PROVE  References'
  <2>1. Live \subseteq Live'
    BY <1>6, <1>7
  <2>2. ASSUME pats' = pats, profiles' = profiles PROVE References'
    BY <1>5, <2>1, <2>2 DEF Stored
  <2>3. ASSUME NEW r \in Req, EnsureProfile(r) PROVE References'
    BY <1>3, <2>1, <2>2, <2>3 DEF EnsureProfile
  <2>4. ASSUME NEW r \in Req, CreatePAT(r) PROVE References'
    <3>1. job[r] \in NewPatJob
      BY <2>4 DEF TypeInv, StepsMatchJobs, Matches, CreatePAT, At
    <3>2. job[r].expires \in {"never", "later", "past"}
      BY <3>1 DEF NewPatJob
    <3> QED
      BY <1>4, <2>1, <2>2, <2>4, <3>2 DEF CreatePAT
  <2>5. ASSUME NEW r \in Req, RevokePAT(r) PROVE References'
    <3>1. \A q \in Stored' : q \in Stored /\ pats'[q].owner = pats[q].owner
      BY <2>5 DEF RevokePAT, Stored, TypeInv, TypeOK
    <3> QED
      BY <1>5, <2>1, <2>5, <3>1 DEF RevokePAT
  <2>6. ASSUME NEW p \in PatId, Expire(p) PROVE References'
    <3>1. pats[p] \in PatRow /\ pats' = [pats EXCEPT ![p] = [pats[p] EXCEPT !.expires = "past"]]
      BY <2>6 DEF Expire, Stored, TypeInv, TypeOK
    <3>2. [pats[p] EXCEPT !.expires = "past"].owner = pats[p].owner
      BY <3>1 DEF PatRow
    <3>3. \A q \in Stored' : q \in Stored /\ pats'[q].owner = pats[q].owner
      BY <2>6, <3>1, <3>2 DEF Expire, Stored, TypeInv, TypeOK
    <3> QED
      BY <1>5, <2>1, <2>6, <3>3 DEF Expire
  <2>7. ASSUME NEW s \in Replica, BootStep(s) \/ Stop(s) \/ Start(s) PROVE References'
    BY <1>3, <1>4, <2>1, <2>2, <2>7 DEF BootStep, BootCount, BootUpsert, BootSavePAT, BootProfile,
                                       Stop, Start, tables
  <2>8. ASSUME NEW r \in Req, RequestStep(r) \/ Fail(r) PROVE References'
    BY <1>7, <2>2, <2>3, <2>4, <2>5, <2>8
       DEF RequestStep, Upsert, Insert, EmailOwner, FindPAT, FindUser, UpdateRole, Sign, Fail, tables
  <2> QED
    BY <2>2, <2>6, <2>7, <2>8 DEF Next, Begin, vars, tables
<1> QED
  BY <1>2, <1>7

LEMMA AccountsInvariant ==
    Spec => [](TypeInv /\ KeysInv /\ LoginsReadTheirAccount /\ References)
<1>1. Init => LoginsReadTheirAccount /\ References
  BY DEF Init, LoginsReadTheirAccount, References, Stored
<1>2. /\ TypeInv /\ KeysInv /\ LoginsReadTheirAccount /\ References /\ [Next]_vars
      => (LoginsReadTheirAccount /\ References)'
  BY LoginsStep, ReferencesStep DEF KeysInv
<1> QED
  BY <1>1, <1>2, KeysInvariant, PTL DEF Spec

\* No profile and no PAT outlives its user or is inserted for a deleted one
\* (migrations 003 and 004).
THEOREM ReferencesHold == Spec => []References
BY AccountsInvariant, PTL

\* Logins with one identity sign in to one account (ResolveByOAuth).
THEOREM OneAccountPerIdentityHolds == Spec => []OneAccountPerIdentity
<1>1. TypeInv /\ KeysInv /\ LoginsReadTheirAccount /\ References => OneAccountPerIdentity
  BY DEF KeysInv, UniqueKeys, LoginsReadTheirAccount, OneAccountPerIdentity, LoggedIn, At
<1> QED
  BY <1>1, AccountsInvariant, PTL

\* A login that returned a JWT left its user with a profile (OAuthCallback,
\* DevicePoll).
THEOREM LoginLeavesProfileHolds == Spec => []LoginLeavesProfile
<1>1. TypeInv /\ KeysInv /\ LoginsReadTheirAccount /\ References => LoginLeavesProfile
  BY DEF LoginsReadTheirAccount, LoginLeavesProfile, LoggedIn, At
<1> QED
  BY <1>1, AccountsInvariant, PTL
=============================================================================
