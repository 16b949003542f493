----------------------- MODULE AccountsHistoryProofs ------------------------
(***************************************************************************)
(* The properties of Accounts that relate a state to earlier ones: who may *)
(* change an account, and what a token may say once a deletion, a          *)
(* revocation or a change of role was over.                                *)
(***************************************************************************)
EXTENDS AccountsProofs

-----------------------------------------------------------------------------
(* Changes of an account.                                                  *)

\* What AccountChangesOnlyByItsOwner says of a step.
OwnerStep(u) ==
    users'[u] \in UserRow =>
        /\ users'[u].identity = users[u].identity
        /\ users'[u].role # users[u].role =>
              \E r \in Req : /\ At(r, "setRole") /\ job[r].user = u
                            /\ pc'[r] \in {"ok", "failed"} /\ users'[u].role = job[r].role
        /\ users'[u].email # users[u].email =>
              \E r \in Req : /\ pc[r] \in {"upsert", "insert"}
                            /\ job[r].identity = users[u].identity
                            /\ pc'[r] = "ensureProfile"

LEMMA OwnerUpsert ==
    ASSUME TypeInv, NEW r \in Req, Upsert(r) \/ Insert(r), NEW u \in Live
    PROVE  OwnerStep(u)
<1>1. u \in UserId /\ users[u] \in UserRow
  BY LiveRows DEF TypeInv
<1>2. pc[r] \in {"upsert", "insert"}
  BY DEF Upsert, Insert, At
<1>3. CASE users'[u] = users[u]
  BY <1>3 DEF OwnerStep
<1>4. ASSUME NEW v \in HasIdentity(job[r].identity), UpdateEmail(v, job[r].email),
             Goto(r, "ensureProfile")
      PROVE  OwnerStep(u)
  <2>1. u # v => users'[u] = users[u]
    BY <1>1, <1>4 DEF UpdateEmail, TypeInv, TypeOK
  <2>2. CASE u = v
    <3>1. users'[u] = [users[u] EXCEPT !.email = job[r].email]
      BY <1>1, <1>4, <2>2 DEF UpdateEmail, TypeInv, TypeOK
    <3>2. users'[u].identity = users[u].identity /\ users'[u].role = users[u].role
      BY <1>1, <3>1 DEF UserRow
    <3>3. job[r].identity = users[u].identity /\ pc'[r] = "ensureProfile"
      BY <1>4, <2>2 DEF HasIdentity, Goto, TypeInv, TypeOK
    <3> QED
      BY <1>2, <3>2, <3>3 DEF OwnerStep
  <2> QED
    BY <1>3, <2>1, <2>2
<1>5. ASSUME NEW v \in UserId, InsertUser(v, job[r].identity, job[r].email, "user")
      PROVE  users'[u] = users[u]
  BY <1>1, <1>5 DEF InsertUser, Live, TypeInv, TypeOK
<1> QED
  BY <1>3, <1>4, <1>5 DEF Upsert, Insert

LEMMA OwnerUpdateRole ==
    ASSUME TypeInv, NEW r \in Req, UpdateRole(r), NEW u \in Live
    PROVE  OwnerStep(u)
<1>1. u \in UserId /\ users[u] \in UserRow
  BY LiveRows DEF TypeInv
<1>2. CASE users'[u] = users[u]
  BY <1>2 DEF OwnerStep
<1>3. CASE SetRole(job[r].user, job[r].role) /\ Done(r) /\ job[r].user = u
  <2>1. users'[u] = [users[u] EXCEPT !.role = job[r].role]
    BY <1>1, <1>3 DEF SetRole, TypeInv, TypeOK
  <2>2. /\ users'[u].identity = users[u].identity /\ users'[u].email = users[u].email
        /\ users'[u].role = job[r].role
    BY <1>1, <2>1 DEF UserRow
  <2>3. At(r, "setRole") /\ pc'[r] \in {"ok", "failed"}
    BY <1>3 DEF UpdateRole, Done, Goto, TypeInv, TypeOK
  <2> QED
    BY <1>3, <2>2, <2>3 DEF OwnerStep
<1>4. SetRole(job[r].user, job[r].role) /\ job[r].user # u => users'[u] = users[u]
  BY <1>1 DEF SetRole, TypeInv, TypeOK
<1> QED
  BY <1>2, <1>3, <1>4 DEF UpdateRole

LEMMA OwnerStepOfNext ==
    ASSUME TypeInv, [Next]_vars, NEW u \in Live
    PROVE  OwnerStep(u)
<1>1. u \in UserId /\ users[u] \in UserRow
  BY LiveRows DEF TypeInv
<1>2. CASE users'[u] = users[u]
  BY <1>2 DEF OwnerStep
<1>3. ASSUME NEW r \in Req, DeleteUser(r) PROVE OwnerStep(u)
  <2>1. users'[u] = users[u] \/ users'[u] = Gone
    BY <1>1, <1>3 DEF DeleteUser, tables, TypeInv, TypeOK
  <2> QED
    BY <1>2, <2>1, AccountsAssumption DEF OwnerStep
<1>4. ASSUME NEW r \in Req, RequestStep(r) \/ Fail(r) PROVE OwnerStep(u)
  <2>1. CASE EmailOwner(r) \/ EnsureProfile(r) \/ FindPAT(r) \/ FindUser(r)
             \/ CreatePAT(r) \/ RevokePAT(r) \/ Sign(r) \/ Fail(r)
    BY <1>2, <2>1 DEF EmailOwner, EnsureProfile, FindPAT, FindUser, CreatePAT, RevokePAT, Sign,
                      Fail, tables
  <2> QED
    BY <1>3, <1>4, <2>1, OwnerUpsert, OwnerUpdateRole DEF RequestStep
<1>5. ASSUME NEW s \in Replica, BootStep(s) \/ Stop(s) \/ Start(s) PROVE OwnerStep(u)
  <2>1. ASSUME NEW v \in UserId, InsertUser(v, v, AdminEmail, "admin")
        PROVE  users'[u] = users[u]
    BY <1>1, <2>1 DEF InsertUser, Live, TypeInv, TypeOK
  <2> QED
    BY <1>2, <1>5, <2>1
       DEF BootStep, BootCount, BootUpsert, BootSavePAT, BootProfile, Stop, Start, tables
<1> QED
  BY <1>2, <1>4, <1>5 DEF Next, Begin, Expire, vars, tables

\* An account keeps its identity; its role is changed by UpdateUserRole and
\* its email by a login with its identity, and by nothing else (Upsert's
\* ON CONFLICT DO UPDATE).
THEOREM AccountChangesOnlyByItsOwnerHolds == Spec => AccountChangesOnlyByItsOwner
<1>1. TypeInv /\ KeysInv /\ [Next]_vars => [\A u \in Live : OwnerStep(u)]_vars
  BY OwnerStepOfNext
<1> QED
  BY <1>1, KeysInvariant, PTL DEF Spec, AccountChangesOnlyByItsOwner, OwnerStep

-----------------------------------------------------------------------------
(* Frames: what a step leaves of a request and of the rows.                *)

Same(r) == pc'[r] = pc[r] /\ job'[r] = job[r] /\ seen'[r] = seen[r] /\ before'[r] = before[r]

Ends(r) == pc'[r] = "failed" /\ job'[r] = job[r] /\ before'[r] = before[r]

Begins(r) == \E s \in Replica, j \in Jobs : Begin(r, s, j)

\* A step of its own changes nothing else.
Works(r) ==
    /\ RequestStep(r)
    /\ job' = job /\ before' = before
    /\ \A q \in Req \ {r} : Same(q)

LEMMA WorksOfStep ==
    ASSUME TypeInv, NEW r \in Req, RequestStep(r)
    PROVE  Works(r)
  BY DEF RequestStep, Upsert, Insert, EmailOwner, EnsureProfile, FindPAT, FindUser,
         CreatePAT, RevokePAT, UpdateRole, DeleteUser, Sign, Goto, Read, Done,
         TypeInv, TypeOK, Works, Same

LEMMA Frame ==
    ASSUME TypeInv, [Next]_vars, NEW r \in Req
    PROVE  Same(r) \/ Ends(r) \/ Begins(r) \/ Works(r)
<1>1. ASSUME NEW q \in Req, RequestStep(q) PROVE Same(r) \/ Works(r)
  BY <1>1, WorksOfStep DEF Works
<1>2. ASSUME NEW q \in Req, Fail(q) PROVE Same(r) \/ Ends(r)
  BY <1>2 DEF Fail, Goto, Same, Ends, TypeInv, TypeOK
<1>3. ASSUME NEW q \in Req, NEW s \in Replica, NEW j \in Jobs, Begin(q, s, j)
      PROVE  Same(r) \/ Begins(r)
  BY <1>3 DEF Begin, Goto, Same, Begins, TypeInv, TypeOK
<1>4. ASSUME NEW s \in Replica, BootStep(s) \/ Stop(s) \/ Start(s)
      PROVE  Same(r) \/ Ends(r)
  BY <1>4 DEF BootStep, BootCount, BootUpsert, BootSavePAT, BootProfile, Stop, Start, requests,
              Same, Ends
<1>5. (\E p \in PatId : Expire(p)) \/ UNCHANGED vars => Same(r)
  BY DEF Expire, vars, requests, Same
<1> QED
  BY <1>1, <1>2, <1>3, <1>4, <1>5 DEF Next

\* An answer is the end of a request.
LEMMA AnsweredStays ==
    ASSUME TypeInv, [Next]_vars, NEW r \in Req, Answered(r)
    PROVE  Same(r)
<1>1. pc[r] \notin Steps \cup {"idle"}
  BY DEF Answered, Answers, Steps
<1>2. ASSUME NEW q \in Req, RequestStep(q) PROVE Same(r)
  <2>1. pc[q] \in Steps
    BY <1>2 DEF RequestStep, Upsert, Insert, EmailOwner, EnsureProfile, FindPAT, FindUser,
                CreatePAT, RevokePAT, UpdateRole, DeleteUser, Sign, At, Steps
  <2> QED
    BY <1>1, <1>2, <2>1, WorksOfStep DEF Works
<1>3. ASSUME NEW q \in Req, Fail(q) PROVE Same(r)
  BY <1>1, <1>3 DEF Fail, Goto, Same, TypeInv, TypeOK
<1>4. ASSUME NEW q \in Req, NEW s \in Replica, NEW j \in Jobs, Begin(q, s, j) PROVE Same(r)
  BY <1>1, <1>4 DEF Begin, At, Goto, Same, TypeInv, TypeOK
<1>5. ASSUME NEW s \in Replica, BootStep(s) \/ Stop(s) \/ Start(s) PROVE Same(r)
  BY <1>1, <1>5 DEF BootStep, BootCount, BootUpsert, BootSavePAT, BootProfile, Stop, Start,
                    requests, Same, TypeInv, TypeOK
<1>6. (\E p \in PatId : Expire(p)) \/ UNCHANGED vars => Same(r)
  BY DEF Expire, vars, requests, Same
<1> QED
  BY <1>2, <1>3, <1>4, <1>5, <1>6 DEF Next

\* A dead PAT stays dead, a deleted user deleted.
Dead(p) == pats[p] = Gone \/ (p \in Stored /\ pats[p].expires = "past")

LEMMA DeadStays ==
    ASSUME TypeInv, [Next]_vars, NEW p \in PatId, Dead(p)
    PROVE  Dead(p)' /\ (pats[p] = Gone => pats'[p] = Gone)
<1>0. pats[p] # Unused /\ Unused # Gone
  BY AccountsAssumption DEF Dead, Stored
<1>1. CASE pats'[p] = pats[p]
  BY <1>1 DEF Dead, Stored
<1>2. CASE pats'[p] = Gone
  BY <1>2 DEF Dead
<1>3. ASSUME NEW q \in PatId, NEW u \in UserId, NEW x \in {"never", "later", "past"},
             SavePAT(q, u, x)
      PROVE  pats'[p] = pats[p]
  BY <1>0, <1>3 DEF SavePAT, TypeInv, TypeOK
<1>4. ASSUME NEW q \in PatId, Expire(q) PROVE pats'[p] = pats[p]
  <2>1. q # p
    BY <1>4 DEF Expire, Dead, Stored
  <2> QED
    BY <1>4, <2>1 DEF Expire, TypeInv, TypeOK
<1>5. ASSUME NEW r \in Req, RequestStep(r) \/ Fail(r)
      PROVE  pats'[p] = pats[p] \/ pats'[p] = Gone
  <2>1. ASSUME CreatePAT(r) PROVE pats'[p] = pats[p]
    <3>1. job[r] \in NewPatJob /\ seen[r].user \in UserId
      BY <2>1 DEF TypeInv, StepsMatchJobs, Matches, CreatePAT, At
    <3>2. job[r].expires \in {"never", "later", "past"}
      BY <3>1 DEF NewPatJob
    <3> QED
      BY <1>3, <2>1, <3>1, <3>2 DEF CreatePAT
  <2>2. RevokePAT(r) => pats'[p] = pats[p] \/ pats'[p] = Gone
    BY DEF RevokePAT, TypeInv, TypeOK
  <2>3. DeleteUser(r) => pats'[p] = pats[p] \/ pats'[p] = Gone
    BY DEF DeleteUser, tables, TypeInv, TypeOK
  <2> QED
    BY <1>5, <2>1, <2>2, <2>3
       DEF RequestStep, Upsert, Insert, EmailOwner, EnsureProfile, FindPAT, FindUser,
           UpdateRole, Sign, Fail, tables
<1>6. ASSUME NEW s \in Replica, BootStep(s) \/ Stop(s) \/ Start(s) PROVE pats'[p] = pats[p]
  <2>1. ASSUME BootSavePAT(s) PROVE pats'[p] = pats[p]
    <3>1. admin[s] \in Live => admin[s] \in UserId
      BY DEF Live
    <3> QED
      BY <1>3, <2>1, <3>1 DEF BootSavePAT
  <2> QED
    BY <1>6, <2>1 DEF BootStep, BootCount, BootUpsert, BootProfile, Stop, Start, tables
<1> QED
  BY <1>1, <1>2, <1>4, <1>5, <1>6 DEF Next, Begin, vars, tables

LEMMA GoneStays ==
    ASSUME TypeInv, OwnIdentity, [Next]_vars
    PROVE  \A u \in UserId : users[u] = Gone => users'[u] = Gone
<1> SUFFICES ASSUME NEW u \in UserId, users[u] = Gone PROVE users'[u] = Gone
  OBVIOUS
<1>1. UsersStep
  BY UsersStepOfNext
<1>2. u \notin Live /\ Unused # Gone
  BY AccountsAssumption DEF Live
<1> QED
  BY <1>1, <1>2 DEF UsersStep, Inserts, Renames, Regrades, Deletes, TypeInv, TypeOK

-----------------------------------------------------------------------------
(* The invariant.  What was over when a request began stays as it was, and *)
(* what the request has read is newer.                                     *)

BeforeIsOver ==
    \A r \in Req : \A x \in before[r] :
        (x \in Req => Answered(x)) /\ (x \in PatId => Dead(x))

IdleHasNoJob == \A r \in Req : At(r, "idle") => job[r] = NoJob

DeletionsLast ==
    \A q \in Req : Succeeded(q, "deleteUser") =>
        job[q].user \in UserId /\ users[job[q].user] = Gone

RevocationsLast ==
    \A q \in Req : Succeeded(q, "revokePAT") =>
        job[q].pat \in PatId /\ pats[job[q].pat] = Gone

\* Every other change of the role that q changes was over before q began.
LastChange(q) ==
    \A c \in Req \ {q} : job[c].op = "updateRole" /\ job[c].user = job[q].user
                         => c \in before[q]

RolesLast ==
    \A q \in Req : Succeeded(q, "updateRole") =>
        /\ job[q].user \in UserId /\ users[job[q].user] # Unused
        /\ job[q].user \in Live /\ LastChange(q) => users[job[q].user].role = job[q].role

HasRead == {"ensureProfile", "savePAT", "sign", "token"}

\* The user u with role x is what a request that began after q may have read.
Current(q, u, x) ==
    /\ ~ (Succeeded(q, "deleteUser") /\ job[q].user = u)
    /\ Succeeded(q, "updateRole") /\ job[q].user = u /\ LastChange(q) => x = job[q].role

ReadsAreCurrent ==
    \A r \in Req : pc[r] \in HasRead =>
        \A q \in before[r] \cap Req : Current(q, seen[r].user, seen[r].role)

Revoked(q, p) == Succeeded(q, "revokePAT") /\ job[q].pat = p

PATsWereAlive ==
    \A r \in Req : job[r].op = "exchangePAT" /\ pc[r] \in {"findUser", "sign", "token"} =>
        /\ job[r].pat \notin before[r]
        /\ \A q \in before[r] \cap Req : ~ Revoked(q, job[r].pat)

Lasting == BeforeIsOver /\ IdleHasNoJob /\ DeletionsLast /\ RevocationsLast /\ RolesLast

HistoryInv == Lasting /\ ReadsAreCurrent /\ PATsWereAlive

LEMMA HistoryInit == Init => HistoryInv
  BY DEF Init, HistoryInv, Lasting, BeforeIsOver, IdleHasNoJob, DeletionsLast, RevocationsLast,
         RolesLast, ReadsAreCurrent, PATsWereAlive, Succeeded, At, HasRead, NoJob

\* Only Begin gives a request a job.
LEMMA JobStays ==
    ASSUME TypeInv, [Next]_vars, NEW r \in Req, ~ At(r, "idle")
    PROVE  job'[r] = job[r] /\ before'[r] = before[r]
<1>1. ~ Begins(r)
  BY DEF Begins, Begin
<1> QED
  BY <1>1, Frame DEF Same, Ends, Works

LEMMA LastChangeStays ==
    ASSUME TypeInv, IdleHasNoJob, [Next]_vars, NEW q \in Req, Answered(q), LastChange(q)'
    PROVE  LastChange(q)
<1>1. Same(q)
  BY AnsweredStays
<1>2. ASSUME NEW c \in Req, job[c].op = "updateRole" PROVE job'[c] = job[c]
  <2>1. ~ At(c, "idle")
    BY <1>2 DEF IdleHasNoJob, NoJob
  <2> QED
    BY <2>1, JobStays
<1> QED
  BY <1>1, <1>2 DEF LastChange, Same

LEMMA BeforeStep ==
    ASSUME TypeInv, BeforeIsOver, [Next]_vars
    PROVE  BeforeIsOver'
<1> SUFFICES ASSUME NEW r \in Req, NEW x \in before'[r]
             PROVE  (x \in Req => Answered(x)') /\ (x \in PatId => Dead(x)')
  BY DEF BeforeIsOver
<1>1. (x \in Req => Answered(x)) /\ (x \in PatId => Dead(x))
  <2>1. CASE before'[r] = before[r]
    BY <2>1 DEF BeforeIsOver
  <2>2. CASE Begins(r)
    <3>1. x \in {q \in Req : Answered(q)} \/ x \in {p \in Stored : pats[p].expires = "past"}
      BY <2>2 DEF Begins, Begin, TypeInv, TypeOK
    <3> QED
      BY <3>1, AccountsAssumption DEF Stored, Dead
  <2> QED
    BY <2>1, <2>2, Frame DEF Same, Ends, Works
<1>2. x \in Req => Answered(x)'
  BY <1>1, AnsweredStays DEF Same, Answered
<1>3. x \in PatId => Dead(x)'
  BY <1>1, DeadStays
<1> QED
  BY <1>2, <1>3

\* A step of its own leads a request to another step or to an answer.
LEMMA WorksOn ==
    ASSUME TypeInv, NEW r \in Req, RequestStep(r)
    PROVE  pc[r] \in Steps /\ pc'[r] # "idle"
  BY DEF RequestStep, Upsert, Insert, EmailOwner, EnsureProfile, FindPAT, FindUser,
         CreatePAT, RevokePAT, UpdateRole, DeleteUser, Sign, At, Goto, Done, Steps,
         TypeInv, TypeOK

LEMMA BeginsAt ==
    ASSUME TypeInv, NEW r \in Req, Begins(r)
    PROVE  pc'[r] \in {"upsert", "findPAT", "findUser", "deletePAT", "setRole", "deleteUser"}
           /\ (pc'[r] = "findUser" => job'[r].op # "exchangePAT")
<1> PICK s \in Replica, j \in Jobs : Begin(r, s, j)
  BY DEF Begins
<1>1. j \in Job
  BY AccountsAssumption
<1>2. FirstStep(j.op) \in {"upsert", "findPAT", "findUser", "deletePAT", "setRole", "deleteUser"}
      /\ (FirstStep(j.op) = "findUser" => j.op # "exchangePAT")
  BY <1>1, JobTypes DEF FirstStep
<1> QED
  BY <1>2 DEF Begin, Goto, TypeInv, TypeOK

LEMMA IdleStep ==
    ASSUME TypeInv, IdleHasNoJob, [Next]_vars
    PROVE  IdleHasNoJob'
<1> SUFFICES ASSUME NEW r \in Req, pc'[r] = "idle" PROVE job'[r] = NoJob
  BY DEF IdleHasNoJob, At
<1>1. Same(r)
  BY Frame, WorksOn, BeginsAt DEF Ends, Works
<1> QED
  BY <1>1 DEF Same, IdleHasNoJob, At

\* How a use case comes to succeed.
LEMMA SucceedsBy ==
    ASSUME TypeInv, [Next]_vars, NEW q \in Req, pc'[q] = "ok"
    PROVE  \/ pc[q] = "ok" /\ Same(q)
           \/ /\ job'[q] = job[q]
              /\ \/ job[q] \in NewPatJob
                 \/ RevokePAT(q) /\ job[q] \in PatJob
                 \/ UpdateRole(q) /\ job[q] \in RoleJob
                 \/ DeleteUser(q) /\ job[q] \in UserJob
<1>1. CASE Same(q)
  BY <1>1 DEF Same
<1>2. CASE Works(q)
  <2>1. /\ RequestStep(q) /\ job'[q] = job[q]
        /\ CreatePAT(q) => job[q] \in NewPatJob
        /\ RevokePAT(q) => job[q] \in PatJob
        /\ UpdateRole(q) => job[q] \in RoleJob
        /\ DeleteUser(q) => job[q] \in UserJob
    BY <1>2 DEF Works, CreatePAT, RevokePAT, UpdateRole, DeleteUser, At,
                TypeInv, StepsMatchJobs, Matches
  <2>2. CreatePAT(q) \/ RevokePAT(q) \/ UpdateRole(q) \/ DeleteUser(q)
    BY <2>1 DEF RequestStep, Upsert, Insert, EmailOwner, EnsureProfile, FindPAT, FindUser,
                Sign, Goto, TypeInv, TypeOK
  <2> QED
    BY <2>1, <2>2
<1> QED
  BY <1>1, <1>2, Frame, BeginsAt DEF Ends

LEMMA DeletionsStep ==
    ASSUME TypeInv, OwnIdentity, DeletionsLast, [Next]_vars
    PROVE  DeletionsLast'
<1> SUFFICES ASSUME NEW q \in Req, pc'[q] = "ok", job'[q].op = "deleteUser"
             PROVE  job'[q].user \in UserId /\ users'[job'[q].user] = Gone
  BY DEF DeletionsLast, Succeeded, At
<1>1. CASE pc[q] = "ok" /\ Same(q)
  BY <1>1, GoneStays DEF Same, DeletionsLast, Succeeded, At
<1>2. CASE DeleteUser(q) /\ job[q] \in UserJob /\ job'[q] = job[q]
  <2>1. job[q].user \in UserId
    BY <1>2 DEF UserJob
  <2> QED
    BY <1>2, <2>1 DEF DeleteUser, Goto, TypeInv, TypeOK
<1> QED
  BY <1>1, <1>2, SucceedsBy DEF NewPatJob, PatJob, RoleJob

LEMMA RevocationsStep ==
    ASSUME TypeInv, RevocationsLast, [Next]_vars
    PROVE  RevocationsLast'
<1> SUFFICES ASSUME NEW q \in Req, pc'[q] = "ok", job'[q].op = "revokePAT"
             PROVE  job'[q].pat \in PatId /\ pats'[job'[q].pat] = Gone
  BY DEF RevocationsLast, Succeeded, At
<1>1. CASE pc[q] = "ok" /\ Same(q)
  <2>1. job[q].pat \in PatId /\ pats[job[q].pat] = Gone
    BY <1>1 DEF Same, RevocationsLast, Succeeded, At
  <2>2. pats'[job[q].pat] = Gone
    BY <2>1, DeadStays DEF Dead
  <2> QED
    BY <1>1, <2>1, <2>2 DEF Same
<1>2. CASE RevokePAT(q) /\ job[q] \in PatJob /\ job'[q] = job[q]
  <2>1. job[q].pat \in PatId
    BY <1>2 DEF PatJob
  <2> QED
    BY <1>2, <2>1 DEF RevokePAT, Goto, TypeInv, TypeOK
<1> QED
  BY <1>1, <1>2, SucceedsBy DEF NewPatJob, UserJob, RoleJob

LEMMA RolesStep ==
    ASSUME TypeInv, OwnIdentity, BeforeIsOver, IdleHasNoJob, RolesLast, [Next]_vars
    PROVE  RolesLast'
<1> SUFFICES ASSUME NEW q \in Req, pc'[q] = "ok", job'[q].op = "updateRole"
             PROVE  /\ job'[q].user \in UserId /\ users'[job'[q].user] # Unused
                    /\ job'[q].user \in Live' /\ LastChange(q)' =>
                            users'[job'[q].user].role = job'[q].role
  BY DEF RolesLast, Succeeded, At
<1> DEFINE u == job[q].user
<1>0. TypeInv' /\ RowsLiveOn
  BY TypeStep, RowsLiveOnOfNext
<1>1. CASE pc[q] = "ok" /\ Same(q)
  <2>1. /\ u \in UserId /\ users[u] # Unused
        /\ u \in Live /\ LastChange(q) => users[u].role = job[q].role
    BY <1>1 DEF Same, RolesLast, Succeeded, At
  <2>2. users'[u] # Unused /\ (u \in Live' => u \in Live)
    BY <1>0, <2>1 DEF RowsLiveOn
  <2>3. ASSUME u \in Live', LastChange(q)' PROVE users'[u].role = users[u].role /\ LastChange(q)
    <3>1. Answered(q)
      BY <1>1 DEF Answered, Answers
    <3>2. LastChange(q)
      BY <2>3, <3>1, LastChangeStays
    <3>3. users'[u] \in UserRow /\ u \in Live
      BY <1>0, <2>1, <2>2, <2>3, LiveRows DEF TypeInv, TypeOK, Live
    <3>4. ASSUME NEW r \in Req, At(r, "setRole"), job[r].user = u PROVE FALSE
      <4>1. job[r].op = "updateRole" /\ ~ Answered(r)
        BY <3>4 DEF TypeInv, StepsMatchJobs, Matches, RoleJob, At, Answered, Answers
      <4>2. r # q
        BY <1>1, <3>4 DEF At
      <4> QED
        BY <3>2, <3>4, <4>1, <4>2 DEF LastChange, BeforeIsOver
    <3> QED
      BY <3>2, <3>3, <3>4, OwnerStepOfNext DEF OwnerStep
  <2> QED
    BY <1>1, <2>1, <2>2, <2>3 DEF Same
<1>2. CASE UpdateRole(q) /\ job[q] \in RoleJob /\ job'[q] = job[q]
  <2>1. u \in UserId
    BY <1>2 DEF RoleJob
  <2>2. u \in Live /\ SetRole(u, job[q].role)
    BY <1>2 DEF UpdateRole, Goto, TypeInv, TypeOK
  <2>3. users[u] \in UserRow /\ users'[u] = [users[u] EXCEPT !.role = job[q].role]
    BY <2>1, <2>2, LiveRows DEF SetRole, TypeInv, TypeOK
  <2>4. users'[u].role = job[q].role
    BY <2>3 DEF UserRow
  <2>5. users'[u] # Unused
    BY <1>0, <2>1, <2>2 DEF RowsLiveOn, Live
  <2> QED
    BY <1>2, <2>1, <2>4, <2>5
<1> QED
  BY <1>1, <1>2, SucceedsBy DEF NewPatJob, UserJob, PatJob

\* What was over stays over: Current only gets weaker.
LEMMA OverStays ==
    ASSUME TypeInv, Lasting, [Next]_vars, NEW r \in Req, NEW q \in before[r] \cap Req
    PROVE  /\ Answered(q) /\ Same(q)
           /\ \A u, x : Current(q, u, x) => Current(q, u, x)'
<1>1. Answered(q)
  BY DEF Lasting, BeforeIsOver
<1>2. Same(q)
  BY <1>1, AnsweredStays
<1>3. LastChange(q)' => LastChange(q)
  BY <1>1, LastChangeStays DEF Lasting
<1> QED
  BY <1>1, <1>2, <1>3 DEF Current, Succeeded, At, Same

\* A request at work that has now read a user, or inserted one, has read
\* nothing older than what was over before it began.
LEMMA ReadIsCurrent ==
    ASSUME TypeInv, Lasting, [Next]_vars, NEW r \in Req, NEW q \in before[r] \cap Req,
           NEW u \in UserId, NEW x,
           (u \in Live /\ x = users[u].role) \/ users[u] = Unused
    PROVE  Current(q, u, x)'
<1>1. Current(q, u, x)
  BY AccountsAssumption DEF Current, Lasting, DeletionsLast, RolesLast, Live
<1> QED
  BY <1>1, OverStays

LEMMA ReadsStep ==
    ASSUME TypeInv, Lasting, ReadsAreCurrent, [Next]_vars
    PROVE  ReadsAreCurrent'
<1> SUFFICES ASSUME NEW r \in Req, pc'[r] \in HasRead, NEW q \in before'[r] \cap Req
             PROVE  Current(q, seen[r].user, seen[r].role)'
  BY DEF ReadsAreCurrent
<1>1. (Same(r) \/ Works(r)) /\ q \in before[r] \cap Req
  BY Frame, BeginsAt DEF Same, Ends, Works, HasRead
<1>2. CASE seen'[r] = seen[r] /\ pc[r] \in HasRead
  <2>1. Current(q, seen[r].user, seen[r].role)
    BY <1>1, <1>2 DEF ReadsAreCurrent
  <2>2. \A u, x : Current(q, u, x) => Current(q, u, x)'
    BY <1>1, OverStays
  <2>3. PICK u, x : u = seen[r].user /\ x = seen[r].role
    OBVIOUS
  <2>4. Current(q, u, x)'
    BY <2>1, <2>2, <2>3
  <2> QED
    BY <1>2, <2>3, <2>4 DEF Current
<1>3. ASSUME NEW u \in UserId, NEW x, seen'[r].user = u, seen'[r].role = x,
             (u \in Live /\ x = users[u].role) \/ users[u] = Unused
      PROVE  Current(q, seen[r].user, seen[r].role)'
  <2>1. Current(q, u, x)'
    BY <1>1, <1>3, ReadIsCurrent
  <2> QED
    BY <1>3, <2>1 DEF Current
<1>4. ASSUME NEW u \in UserId, NEW x, Read(r, u, x)
      PROVE  seen'[r].user = u /\ seen'[r].role = x
  BY <1>4 DEF Read, TypeInv, TypeOK
<1>5. CASE Works(r)
  <2>1. CASE Upsert(r) \/ Insert(r)
    <3>1. ASSUME NEW u \in HasIdentity(job[r].identity), Read(r, u, users[u].role)
          PROVE  Current(q, seen[r].user, seen[r].role)'
      <4>1. u \in UserId /\ u \in Live
        BY <3>1 DEF HasIdentity, Live
      <4>2. seen'[r].user = u /\ seen'[r].role = users[u].role
        BY <1>4, <3>1, <4>1
      <4> QED
        BY <1>3, <4>1, <4>2
    <3>2. ASSUME NEW u \in UserId, InsertUser(u, job[r].identity, job[r].email, "user"),
                 Read(r, u, "user")
          PROVE  Current(q, seen[r].user, seen[r].role)'
      <4>1. seen'[r].user = u /\ seen'[r].role = "user"
        BY <1>4, <3>2
      <4> QED
        BY <1>3, <3>2, <4>1 DEF InsertUser
    <3>3. pc'[r] = "ensureProfile" \/ pc'[r] = "insert" \/ pc'[r] = "emailOwner"
      BY <2>1 DEF Upsert, Insert, Goto, TypeInv, TypeOK
    <3>4. \/ \E u \in HasIdentity(job[r].identity) : Read(r, u, users[u].role)
          \/ \E u \in UserId : /\ InsertUser(u, job[r].identity, job[r].email, "user")
                               /\ Read(r, u, "user")
          \/ pc'[r] = "insert" \/ pc'[r] = "emailOwner"
      BY <2>1 DEF Upsert, Insert, Goto, TypeInv, TypeOK
    <3> QED
      BY <3>1, <3>2, <3>4 DEF HasRead
  <2>2. CASE FindUser(r)
    <3>1. seen[r].user \in Live /\ Read(r, seen[r].user, users[seen[r].user].role)
      BY <2>2 DEF FindUser, Goto, HasRead, TypeInv, TypeOK
    <3>2. PICK u \in UserId : u = seen[r].user
      BY <3>1 DEF Live
    <3>3. u \in Live /\ Read(r, u, users[u].role)
      BY <3>1, <3>2
    <3>4. seen'[r].user = u /\ seen'[r].role = users[u].role
      BY <1>4, <3>3
    <3> QED
      BY <1>3, <3>3, <3>4
  <2>3. CASE EnsureProfile(r) \/ Sign(r)
    BY <1>2, <2>3 DEF EnsureProfile, Sign, At, HasRead
  <2>4. CASE EmailOwner(r) \/ FindPAT(r) \/ CreatePAT(r) \/ RevokePAT(r) \/ UpdateRole(r)
             \/ DeleteUser(r)
    BY <2>4 DEF EmailOwner, FindPAT, CreatePAT, RevokePAT, UpdateRole, DeleteUser, Done,
                Goto, HasRead, TypeInv, TypeOK
  <2> QED
    BY <1>5, <2>1, <2>2, <2>3, <2>4 DEF Works, RequestStep
<1> QED
  BY <1>1, <1>2, <1>5 DEF Same

LEMMA PATsStep ==
    ASSUME TypeInv, Lasting, PATsWereAlive, [Next]_vars
    PROVE  PATsWereAlive'
<1> SUFFICES ASSUME NEW r \in Req, job'[r].op = "exchangePAT",
                    pc'[r] \in {"findUser", "sign", "token"}
             PROVE  /\ job'[r].pat \notin before'[r]
                    /\ \A q \in before'[r] \cap Req : ~ Revoked(q, job[r].pat)'
  BY DEF PATsWereAlive
<1>1. /\ Same(r) \/ Works(r)
      /\ job'[r] = job[r] /\ before'[r] = before[r]
  BY Frame, BeginsAt DEF Same, Ends, Works
<1>2. ASSUME job[r].pat \notin before[r],
             \A q \in before[r] \cap Req : ~ Revoked(q, job[r].pat)
      PROVE  /\ job'[r].pat \notin before'[r]
             /\ \A q \in before'[r] \cap Req : ~ Revoked(q, job[r].pat)'
  <2>1. \A q \in before[r] \cap Req : Same(q)
    BY OverStays
  <2> QED
    BY <1>1, <1>2, <2>1 DEF Revoked, Succeeded, At, Same
<1>3. CASE pc[r] \in {"findUser", "sign", "token"}
  BY <1>1, <1>2, <1>3 DEF PATsWereAlive
<1>4. CASE FindPAT(r)
  <2>1. job[r].pat \in Stored /\ pats[job[r].pat].expires # "past"
    BY <1>4 DEF FindPAT, Goto, TypeInv, TypeOK
  <2>2. job[r].pat \in PatId /\ ~ Dead(job[r].pat) /\ pats[job[r].pat] # Gone
    BY <2>1 DEF Stored, Dead
  <2> QED
    BY <1>2, <2>2 DEF Lasting, BeforeIsOver, RevocationsLast, Revoked
<1>5. CASE Works(r) /\ ~ FindPAT(r) /\ pc[r] \notin {"findUser", "sign", "token"}
  <2>1. CASE EnsureProfile(r)
    BY <1>1, <2>1 DEF EnsureProfile, At, TypeInv, StepsMatchJobs, Matches, LoginJob
  <2> QED
    BY <1>5, <2>1 DEF Works, RequestStep, Upsert, Insert, EmailOwner, FindUser, CreatePAT,
                      RevokePAT, UpdateRole, DeleteUser, Sign, Done, Goto, At, TypeInv, TypeOK
<1> QED
  BY <1>1, <1>3, <1>4, <1>5 DEF Same

LEMMA HistoryInvariant == Spec => [](TypeInv /\ KeysInv /\ HistoryInv)
<1>1. TypeInv /\ KeysInv /\ HistoryInv /\ [Next]_vars => HistoryInv'
  BY BeforeStep, IdleStep, DeletionsStep, RevocationsStep, RolesStep, ReadsStep, PATsStep
     DEF HistoryInv, Lasting, KeysInv
<1> QED
  BY <1>1, HistoryInit, KeysInvariant, PTL DEF Spec

\* A PAT that was revoked or had expired before an exchange began gives no
\* JWT (ResolveByPAT, RevokePAT).
THEOREM DeadPATGivesNoTokenHolds == Spec => []DeadPATGivesNoToken
<1>1. TypeInv /\ KeysInv /\ HistoryInv => DeadPATGivesNoToken
  BY DEF HistoryInv, PATsWereAlive, DeadPATGivesNoToken, Revoked, At
<1> QED
  BY <1>1, HistoryInvariant, PTL

\* A user who was deleted before a request began gets no JWT from it, by
\* login, PAT or refresh.
THEOREM DeletedUserGetsNoTokenHolds == Spec => []DeletedUserGetsNoToken
<1>1. TypeInv /\ KeysInv /\ HistoryInv => DeletedUserGetsNoToken
  BY DEF HistoryInv, ReadsAreCurrent, Current, HasRead, DeletedUserGetsNoToken, At
<1> QED
  BY <1>1, HistoryInvariant, PTL

\* A JWT issued to a request that began after the last change of its user's
\* role has that role (RefreshJWT, #134).
THEOREM TokenHasCurrentRoleHolds == Spec => []TokenHasCurrentRole
<1>1. TypeInv /\ KeysInv /\ HistoryInv => TokenHasCurrentRole
  BY DEF HistoryInv, ReadsAreCurrent, Current, LastChange, HasRead, TokenHasCurrentRole, At
<1> QED
  BY <1>1, HistoryInvariant, PTL

-----------------------------------------------------------------------------
(* The bootstrap.  Where one is configured, no replica serves before there *)
(* is a user, so that the first user is its admin, who keeps the email.    *)

NoneDeleted == \A u \in UserId : users[u] # Gone

AdminIsFirst ==
    AdminEmail # NoEmail /\ NoneDeleted =>
        \/ /\ Live = {}
           /\ \A s \in Replica : boot[s] \in {"count", "upsert", "down"}
           /\ \A r \in Req : At(r, "idle")
        \/ \E u \in Live : users[u].identity = u

LEMMA AdminIsFirstStep ==
    ASSUME TypeInv, OwnIdentity, AdminIsFirst, [Next]_vars
    PROVE  AdminIsFirst'
<1> SUFFICES ASSUME AdminEmail # NoEmail, NoneDeleted'
             PROVE  \/ /\ Live' = {}
                       /\ \A s \in Replica : boot'[s] \in {"count", "upsert", "down"}
                       /\ \A r \in Req : pc'[r] = "idle"
                    \/ \E u \in Live' : users'[u].identity = u
  BY DEF AdminIsFirst, At
<1>1. NoneDeleted
  BY GoneStays DEF NoneDeleted
<1>2. CASE \E u \in Live : users[u].identity = u
  <2>1. PICK u \in Live : users[u].identity = u
    BY <1>2
  <2>2. u \in UserId /\ users[u] # Unused
    BY DEF Live
  <2>3. RowsLiveOn
    BY RowsLiveOnOfNext
  <2>4. u \in Live'
    BY <2>2, <2>3 DEF RowsLiveOn, NoneDeleted, Live
  <2> QED
    BY <2>1, <2>2, <2>3, <2>4 DEF RowsLiveOn
<1>3. CASE /\ Live = {}
           /\ \A s \in Replica : boot[s] \in {"count", "upsert", "down"}
           /\ \A r \in Req : pc[r] = "idle"
  <2>1. \A r \in Req : ~ RequestStep(r) /\ ~ Fail(r)
    BY <1>3, WorksOn DEF Fail, Steps
  <2>2. \A r \in Req, s \in Replica, j \in Jobs : ~ Begin(r, s, j)
    BY <1>3 DEF Begin
  <2>3. ASSUME NEW s \in Replica, BootUpsert(s)
        PROVE  \E u \in Live' : users'[u].identity = u
    <3>1. PICK u \in UserId : InsertUser(u, u, AdminEmail, "admin")
      BY <1>3, <2>3 DEF BootUpsert, HasEmail
    <3>2. users'[u] = [identity |-> u, email |-> AdminEmail, role |-> "admin"]
      BY <3>1 DEF InsertUser, TypeInv, TypeOK
    <3>3. users'[u] # Unused
      <4>1. RowsLiveOn /\ TypeInv'
        BY RowsLiveOnOfNext, TypeStep
      <4>2. AdminEmail \in Email
        BY AccountsAssumption
      <4>3. users'[u] \in UserRow
        BY <3>2, <4>2 DEF UserRow, Identity, Role
      <4> QED
        BY <4>3, AccountsAssumption
    <3> QED
      BY <3>2, <3>3 DEF NoneDeleted, Live
  <2>4. ASSUME NEW s \in Replica, BootCount(s) \/ Stop(s) \/ Start(s)
        PROVE  /\ Live' = {}
               /\ \A t \in Replica : boot'[t] \in {"count", "upsert", "down"}
               /\ \A r \in Req : pc'[r] = "idle"
    BY <1>3, <2>4 DEF BootCount, Stop, Start, BootGoto, tables, requests, Live, Steps,
                      TypeInv, TypeOK
  <2>5. \A s \in Replica : ~ BootSavePAT(s) /\ ~ BootProfile(s)
    BY <1>3 DEF BootSavePAT, BootProfile, BootAt
  <2>6. (\E p \in PatId : Expire(p)) \/ UNCHANGED vars =>
           /\ Live' = {}
           /\ \A t \in Replica : boot'[t] \in {"count", "upsert", "down"}
           /\ \A r \in Req : pc'[r] = "idle"
    BY <1>3 DEF Expire, vars, tables, requests, servers, Live
  <2> QED
    BY <2>1, <2>2, <2>3, <2>4, <2>5, <2>6 DEF Next, BootStep
<1> QED
  BY <1>1, <1>2, <1>3 DEF AdminIsFirst, At

\* Until a user is deleted, a replica whose count of no users is out of date
\* finds its admin's email taken (BootstrapAdmin).
THEOREM LateBootstrapIsHarmlessHolds == Spec => []LateBootstrapIsHarmless
<1>1. Init => AdminIsFirst
  BY DEF Init, AdminIsFirst, At, Live
<1>2. TypeInv /\ KeysInv /\ AdminIsFirst /\ [Next]_vars => AdminIsFirst'
  BY AdminIsFirstStep DEF KeysInv
<1>3. TypeInv /\ KeysInv /\ AdminIsFirst => LateBootstrapIsHarmless
  BY AccountsAssumption DEF TypeInv, BootConfigured, KeysInv, AdminKeepsEmail, AdminIsFirst, NoneDeleted,
         HasEmail, LateBootstrapIsHarmless
<1> QED
  BY <1>1, <1>2, <1>3, KeysInvariant, PTL DEF Spec

=============================================================================
