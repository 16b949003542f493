----------------------- MODULE AccountsRegistryProofs ------------------------
(***************************************************************************)
(* The use cases of Accounts, statement by statement and with all their    *)
(* failures, implement the one registry of Registry: each step of theirs   *)
(* is the step of Registry named by a lemma below, or a stutter.           *)
(***************************************************************************)
EXTENDS AccountsHistoryProofs

-----------------------------------------------------------------------------
(* What the refinement needs to know of the states, beyond the types, the  *)
(* keys and the bootstrap.                                                 *)

\* Between reading the user it was asked about and using it, a request keeps
\* to that user.
ReadsItsUser ==
    \A r \in Req : pc[r] \in {"findUser", "savePAT"} /\ job[r].op # "exchangePAT"
                   => seen[r].user = job[r].user

\* The account a bootstrap goes on with, while it is there, is its own.
AdminIsItsOwn == \A s \in Replica : admin[s] \in Live => users[admin[s]].identity = admin[s]

AdminWasInserted == \A s \in Replica : admin[s] \in UserId => users[admin[s]] # Unused

RegistryInv == ReadsItsUser /\ AdminIsItsOwn /\ AdminWasInserted

LEMMA ReadsItsUserStep ==
    ASSUME TypeInv, ReadsItsUser, [Next]_vars
    PROVE  ReadsItsUser'
<1> SUFFICES ASSUME NEW r \in Req, pc'[r] \in {"findUser", "savePAT"}, job'[r].op # "exchangePAT"
             PROVE  seen'[r].user = job'[r].user
  BY DEF ReadsItsUser
<1>1. CASE Same(r)
  BY <1>1 DEF Same, ReadsItsUser
<1>2. CASE Begins(r)
  <2>1. PICK s \in Replica, j \in Jobs : Begin(r, s, j)
    BY <1>2 DEF Begins
  <2>2. j \in Job /\ FirstStep(j.op) \in {"findUser", "savePAT"} /\ job'[r] = j
    BY <1>2, <2>1, AccountsAssumption DEF Begin, Goto, TypeInv, TypeOK
  <2>3. j.op \in {"refresh", "createPAT"}
    BY <2>2, JobTypes DEF FirstStep
  <2> QED
    BY <2>1, <2>2, <2>3 DEF Begin, TypeInv, TypeOK
<1>3. CASE Works(r)
  <2>1. CASE FindUser(r)
    <3>1. pc[r] = "findUser" /\ job'[r] = job[r] /\ seen'[r].user = seen[r].user
      BY <2>1 DEF FindUser, At, Goto, Read, TypeInv, TypeOK
    <3> QED
      BY <3>1 DEF ReadsItsUser
  <2>2. CASE FindPAT(r)
    <3>1. job[r].op = "exchangePAT"
      BY <2>2 DEF FindPAT, At, TypeInv, StepsMatchJobs, Matches
    <3> QED
      BY <1>3, <3>1 DEF Works
  <2> QED
    BY <1>3, <2>1, <2>2
       DEF Works, RequestStep, Upsert, Insert, EmailOwner, EnsureProfile, CreatePAT, RevokePAT,
           UpdateRole, DeleteUser, Sign, Done, Goto, TypeInv, TypeOK
<1> QED
  BY <1>1, <1>2, <1>3, Frame DEF Ends

LEMMA AdminStep ==
    ASSUME TypeInv, OwnIdentity, AdminIsItsOwn, AdminWasInserted, [Next]_vars
    PROVE  AdminIsItsOwn' /\ AdminWasInserted'
<1> SUFFICES ASSUME NEW s \in Replica, admin'[s] \in UserId
             PROVE  /\ users'[admin'[s]] # Unused
                    /\ admin'[s] \in Live' => users'[admin'[s]].identity = admin'[s]
  BY DEF AdminIsItsOwn, AdminWasInserted, Live
<1>1. CASE admin'[s] = admin[s]
  <2>1. users[admin[s]] # Unused /\ RowsLiveOn
    BY <1>1, RowsLiveOnOfNext DEF AdminWasInserted
  <2> QED
    BY <1>1, <2>1 DEF RowsLiveOn, AdminIsItsOwn
<1>2. ASSUME NEW t \in Replica, BootUpsert(t), admin'[s] # admin[s]
      PROVE  users'[admin'[s]].identity = admin'[s] /\ users'[admin'[s]] # Unused
  <2>1. PICK u \in UserId : InsertUser(u, u, AdminEmail, "admin") /\ admin' = [admin EXCEPT ![t] = u]
    BY <1>2 DEF BootUpsert
  <2>2. admin'[s] = u /\ users'[u] = [identity |-> u, email |-> AdminEmail, role |-> "admin"]
    BY <1>2, <2>1 DEF InsertUser, TypeInv, TypeOK
  <2>3. AdminEmail \in Email
    BY <1>2 DEF BootUpsert, TypeInv, BootConfigured
  <2>4. users'[u] \in UserRow
    BY <2>2, <2>3 DEF UserRow, Identity, Role
  <2> QED
    BY <2>2, <2>4, AccountsAssumption
<1>3. ASSUME NEW t \in Replica, Start(t) PROVE admin'[s] = admin[s]
  BY <1>3, AccountsAssumption DEF Start, TypeInv, TypeOK
<1>4. (\E r \in Req : RequestStep(r) \/ Fail(r)) => admin' = admin
  BY DEF RequestStep, Upsert, Insert, EmailOwner, EnsureProfile, FindPAT, FindUser, CreatePAT,
         RevokePAT, UpdateRole, DeleteUser, Sign, Fail, servers
<1>5. (\E t \in Replica : BootCount(t) \/ BootSavePAT(t) \/ BootProfile(t) \/ Stop(t))
         => admin' = admin
  BY DEF BootCount, BootSavePAT, BootProfile, Stop
<1> QED
  BY <1>1, <1>2, <1>3, <1>4, <1>5 DEF Next, BootStep, Begin, Expire, vars, servers

LEMMA RegistryInvariant ==
    Spec => [](TypeInv /\ KeysInv /\ LateBootstrapIsHarmless /\ RegistryInv)
<1>1. Init => RegistryInv
  BY AccountsAssumption DEF Init, RegistryInv, ReadsItsUser, AdminIsItsOwn, AdminWasInserted, Live
<1>2. TypeInv /\ KeysInv /\ RegistryInv /\ [Next]_vars => RegistryInv'
  BY ReadsItsUserStep, AdminStep DEF RegistryInv, KeysInv
<1> QED
  BY <1>1, <1>2, KeysInvariant, LateBootstrapIsHarmlessHolds, PTL DEF Spec

-----------------------------------------------------------------------------
(* The mapping, case by case.                                              *)

Stages == [r \in Req |-> StageOf(r)]
Claimed == [r \in Req |-> ClaimsOf(r)]

Asking == {"upsert", "insert", "findPAT", "savePAT", "deletePAT", "setRole", "deleteUser"}

\* The stage and the claims of a request, by the step it is at.
Mapped(r) ==
    /\ pc[r] \in Asking => StageOf(r) = "asked" /\ ClaimsOf(r) = Nobody
    /\ At(r, "findUser") /\ job[r].op # "exchangePAT"
         => StageOf(r) = "asked" /\ ClaimsOf(r) = Nobody
    /\ At(r, "findUser") /\ job[r].op = "exchangePAT"
         => StageOf(r) = "keyed" /\ ClaimsOf(r) = [user |-> seen[r].user, role |-> "user"]
    /\ At(r, "emailOwner") => StageOf(r) = "refused" /\ ClaimsOf(r) = Nobody
    /\ pc[r] \in {"ensureProfile", "sign"} => StageOf(r) = "known" /\ ClaimsOf(r) = seen[r]
    /\ At(r, "token") => StageOf(r) = "token" /\ ClaimsOf(r) = seen[r]
    /\ pc[r] \in {"idle", "ok", "emailTaken", "rejected", "failed"}
         => StageOf(r) = pc[r] /\ ClaimsOf(r) = Nobody

LEMMA StepsAreMapped ==
    ASSUME NEW r \in Req
    PROVE  Mapped(r) /\ Mapped(r)'
<1>1. Mapped(r)
  BY DEF Mapped, StageOf, ClaimsOf, At, Asking, Nobody
<1>2. Mapped(r)'
  BY DEF Mapped, StageOf, ClaimsOf, At, Asking, Nobody
<1> QED
  BY <1>1, <1>2

\* A request that stays as it is has the same stage and claims.
LEMMA MappedStays ==
    ASSUME NEW r \in Req, pc'[r] = pc[r], job'[r] = job[r], seen'[r] = seen[r]
    PROVE  StageOf(r)' = StageOf(r) /\ ClaimsOf(r)' = ClaimsOf(r)
  BY DEF StageOf, ClaimsOf, At, Nobody

LEMMA OneMoves ==
    ASSUME TypeInv, NEW r \in Req, \A q \in Req \ {r} : Same(q)
    PROVE  /\ Stages' = [Stages EXCEPT ![r] = StageOf(r)']
           /\ Claimed' = [Claimed EXCEPT ![r] = ClaimsOf(r)']
<1>1. \A q \in Req \ {r} : StageOf(q)' = StageOf(q) /\ ClaimsOf(q)' = ClaimsOf(q)
  BY MappedStays DEF Same
<1> QED
  BY <1>1 DEF Stages, Claimed

\* The claims of a request that moves from one stage without claims to
\* another are not touched.
LEMMA StepMoves ==
    ASSUME TypeInv, NEW r \in Req, RequestStep(r) \/ Fail(r)
    PROVE  /\ job' = job
           /\ Stages' = [Stages EXCEPT ![r] = StageOf(r)']
           /\ Claimed' = [Claimed EXCEPT ![r] = ClaimsOf(r)']
           /\ ClaimsOf(r)' = ClaimsOf(r) => Claimed' = Claimed
           /\ StageOf(r)' = StageOf(r) => Stages' = Stages
<1>1. job' = job /\ \A q \in Req \ {r} : Same(q)
  BY WorksOfStep DEF Works, Fail, Goto, Same, TypeInv, TypeOK
<1>2. /\ Stages' = [Stages EXCEPT ![r] = StageOf(r)']
      /\ Claimed' = [Claimed EXCEPT ![r] = ClaimsOf(r)']
  BY <1>1, OneMoves
<1> QED
  BY <1>1, <1>2 DEF Stages, Claimed

-----------------------------------------------------------------------------
(* Requests begin, fail and are answered.                                  *)

LEMMA BeginIsAsk ==
    ASSUME TypeInv, NEW r \in Req, NEW s \in Replica, NEW j \in Jobs, Begin(r, s, j)
    PROVE  Registered!Ask(r)
<1>1. /\ pc[r] = "idle" /\ j \in Job /\ job' = [job EXCEPT ![r] = j] /\ job'[r] = j
      /\ pc'[r] = FirstStep(j.op) /\ UNCHANGED <<users, pats>>
      /\ \A q \in Req \ {r} : Same(q)
  BY AccountsAssumption DEF Begin, At, Goto, Same, tables, TypeInv, TypeOK
<1>2. pc'[r] \in Asking \/ (pc'[r] = "findUser" /\ job'[r].op # "exchangePAT")
  BY <1>1, JobTypes DEF FirstStep, Asking
<1>3. /\ StageOf(r) = "idle" /\ ClaimsOf(r) = Nobody
      /\ StageOf(r)' = "asked" /\ ClaimsOf(r)' = Nobody
  BY <1>1, <1>2, StepsAreMapped DEF Mapped, At
<1>4. Stages' = [Stages EXCEPT ![r] = "asked"] /\ Claimed' = Claimed
  BY <1>1, <1>3, OneMoves DEF Stages, Claimed
<1> QED
  BY <1>1, <1>3, <1>4 DEF Registered!Ask, Registered!Becomes, Stages, Claimed

\* Any set of requests at work can fail at once.
LEMMA UnderWayIsAtWork ==
    ASSUME NEW r \in Req, pc[r] \in Steps
    PROVE  r \in Registered!UnderWay
  BY StepsAreMapped DEF Mapped, At, Asking, Steps, Registered!UnderWay

LEMMA TheyFail ==
    ASSUME NEW S \in SUBSET Req, \A r \in S : pc[r] \in Steps /\ pc'[r] = "failed",
           \A r \in Req \ S : pc'[r] = pc[r] /\ job'[r] = job[r] /\ seen'[r] = seen[r],
           UNCHANGED <<users, pats, job>>
    PROVE  \E T \in SUBSET Registered!UnderWay : Registered!Fail(T)
<1>1. S \in SUBSET Registered!UnderWay
  BY UnderWayIsAtWork
<1>2. \A r \in S : StageOf(r)' = "failed" /\ ClaimsOf(r)' = Nobody
  BY StepsAreMapped DEF Mapped
<1>3. \A r \in Req \ S : StageOf(r)' = StageOf(r) /\ ClaimsOf(r)' = ClaimsOf(r)
  BY MappedStays
<1>4. Registered!Fail(S)
  BY <1>1, <1>2, <1>3 DEF Registered!Fail
<1> QED
  BY <1>1, <1>4

LEMMA OneFails ==
    ASSUME TypeInv, NEW r \in Req, RequestStep(r) \/ Fail(r), pc[r] \in Steps, pc'[r] = "failed",
           UNCHANGED <<users, pats>>
    PROVE  \E T \in SUBSET Registered!UnderWay : Registered!Fail(T)
<1>1. job' = job /\ \A q \in Req \ {r} : Same(q)
  BY WorksOfStep DEF Works, Fail, Goto, Same, TypeInv, TypeOK
<1> DEFINE S == {r}
<1>2. /\ S \in SUBSET Req
      /\ \A q \in S : pc[q] \in Steps /\ pc'[q] = "failed"
      /\ \A q \in Req \ S : pc'[q] = pc[q] /\ job'[q] = job[q] /\ seen'[q] = seen[q]
      /\ UNCHANGED <<users, pats, job>>
  BY <1>1 DEF Same
<1> HIDE DEF S
<1> QED
  BY <1>2, TheyFail

LEMMA StopIsFail ==
    ASSUME TypeInv, NEW s \in Replica, Stop(s)
    PROVE  \E T \in SUBSET Registered!UnderWay : Registered!Fail(T)
<1> DEFINE S == {r \in Req : host[r] = s /\ pc[r] \in Steps}
<1>1. /\ S \in SUBSET Req
      /\ \A r \in S : pc[r] \in Steps /\ pc'[r] = "failed"
      /\ \A r \in Req \ S : pc'[r] = pc[r] /\ job'[r] = job[r] /\ seen'[r] = seen[r]
      /\ UNCHANGED <<users, pats, job>>
  BY DEF Stop, tables
<1> HIDE DEF S
<1> QED
  BY <1>1, TheyFail

LEMMA SignIsGrant ==
    ASSUME TypeInv, NEW r \in Req, Sign(r)
    PROVE  Registered!Grant(r)
<1>1. pc[r] = "sign" /\ pc'[r] = "token" /\ UNCHANGED <<users, pats, seen>>
  BY DEF Sign, At, Goto, tables, TypeInv, TypeOK
<1>2. /\ StageOf(r) = "known" /\ StageOf(r)' = "token" /\ ClaimsOf(r)' = ClaimsOf(r)
  BY <1>1, StepsAreMapped DEF Mapped, At
<1> QED
  BY <1>1, <1>2, StepMoves DEF RequestStep, Registered!Grant, Registered!Becomes, Stages, Claimed

LEMMA EmailOwnerIsTellRefused ==
    ASSUME TypeInv, NEW r \in Req, EmailOwner(r)
    PROVE  Registered!TellRefused(r)
<1>1. pc[r] = "emailOwner" /\ pc'[r] = "emailTaken" /\ UNCHANGED <<users, pats>>
  BY DEF EmailOwner, At, Goto, tables, TypeInv, TypeOK
<1>2. /\ StageOf(r) = "refused" /\ ClaimsOf(r) = Nobody
      /\ StageOf(r)' = "emailTaken" /\ ClaimsOf(r)' = Nobody
  BY <1>1, StepsAreMapped DEF Mapped, At
<1> QED
  BY <1>1, <1>2, StepMoves
     DEF RequestStep, Registered!TellRefused, Registered!Becomes, Stages, Claimed

-----------------------------------------------------------------------------
(* Logins.                                                                 *)

\* The account of the identity gets the email of the login.
LEMMA UpdateIsSignIn ==
    ASSUME TypeInv, UniqueKeys, NEW r \in Req, Upsert(r) \/ Insert(r),
           NEW u \in HasIdentity(job[r].identity), HasEmail(job[r].email) \subseteq {u},
           UpdateEmail(u, job[r].email), Read(r, u, users[u].role), Goto(r, "ensureProfile")
    PROVE  Registered!SignIn(r)
<1> DEFINE e == job[r].email
           i == job[r].identity
<1>1. /\ pc[r] \in Asking /\ job[r].op = "login" /\ pc'[r] = "ensureProfile" /\ UNCHANGED <<pats, job>>
      /\ seen'[r] = [user |-> u, role |-> users[u].role]
  BY DEF Upsert, Insert, At, Asking, Read, Goto, LoginJob, TypeInv, TypeOK, StepsMatchJobs, Matches
<1>2. /\ StageOf(r) = "asked" /\ StageOf(r)' = "known"
      /\ ClaimsOf(r)' = [user |-> u, role |-> users[u].role]
  BY <1>1, StepsAreMapped DEF Mapped
<1>3. u \in UserId /\ u \in Live /\ users[u].identity = i
  BY DEF HasIdentity, Live
<1>4. \A v \in Live \ {u} : users[v].email # e /\ users[v].identity # i
  BY <1>3 DEF HasEmail, UniqueKeys
<1>5. users' = [users EXCEPT ![u].email = e]
  BY DEF UpdateEmail
<1>6. /\ Stages' = [Stages EXCEPT ![r] = "known"]
      /\ Claimed' = [Claimed EXCEPT ![r] = [user |-> u, role |-> users[u].role]]
  BY <1>2, StepMoves DEF RequestStep
<1>7. Registered!SpeaksFor(r, u, users[u].role) /\ Registered!Becomes(r, "known")
  BY <1>6 DEF Registered!SpeaksFor, Registered!Becomes, Stages, Claimed
<1> QED
  BY <1>1, <1>2, <1>3, <1>4, <1>5, <1>7
     DEF Registered!SignIn, Registered!Asks, Registered!Live, Live, Stages

\* There is a new account, of an email and an identity that nobody has.
LEMMA InsertIsSignIn ==
    ASSUME TypeInv, NEW r \in Req, Insert(r),
           HasEmail(job[r].email) = {}, HasIdentity(job[r].identity) = {},
           NEW u \in UserId, InsertUser(u, job[r].identity, job[r].email, "user"),
           Read(r, u, "user"), Goto(r, "ensureProfile")
    PROVE  Registered!SignIn(r)
<1> DEFINE e == job[r].email
           i == job[r].identity
<1>1. /\ pc[r] \in Asking /\ job[r].op = "login" /\ pc'[r] = "ensureProfile" /\ UNCHANGED <<pats, job>>
      /\ seen'[r] = [user |-> u, role |-> "user"]
  BY DEF Insert, At, Asking, Read, Goto, LoginJob, TypeInv, TypeOK, StepsMatchJobs, Matches
<1>2. /\ StageOf(r) = "asked" /\ StageOf(r)' = "known"
      /\ ClaimsOf(r)' = [user |-> u, role |-> "user"]
  BY <1>1, StepsAreMapped DEF Mapped
<1>3. \A v \in Live \ {u} : users[v].email # e /\ users[v].identity # i
  BY DEF HasEmail, HasIdentity
<1>4. /\ users[u] = Unused
      /\ users' = [users EXCEPT ![u] = [identity |-> i, email |-> e, role |-> "user"]]
  BY DEF InsertUser
<1>5. /\ Stages' = [Stages EXCEPT ![r] = "known"]
      /\ Claimed' = [Claimed EXCEPT ![r] = [user |-> u, role |-> "user"]]
  BY <1>2, StepMoves DEF RequestStep
<1>6. Registered!SpeaksFor(r, u, "user") /\ Registered!Becomes(r, "known")
  BY <1>5 DEF Registered!SpeaksFor, Registered!Becomes, Stages, Claimed
<1> QED
  BY <1>1, <1>2, <1>3, <1>4, <1>6
     DEF Registered!SignIn, Registered!Asks, Registered!Live, Live, Stages

LEMMA TakenIsRefuse ==
    ASSUME TypeInv, NEW r \in Req, Upsert(r) \/ Insert(r), HasEmail(job[r].email) # {},
           Goto(r, "emailOwner"), UNCHANGED <<users, seen>>
    PROVE  Registered!Refuse(r)
<1>1. /\ pc[r] \in Asking /\ job[r].op = "login" /\ pc'[r] = "emailOwner" /\ UNCHANGED <<pats, job>>
  BY DEF Upsert, Insert, At, Asking, Goto, LoginJob, TypeInv, TypeOK, StepsMatchJobs, Matches
<1>2. /\ StageOf(r) = "asked" /\ StageOf(r)' = "refused" /\ ClaimsOf(r)' = ClaimsOf(r)
  BY <1>1, StepsAreMapped DEF Mapped, At
<1>3. \E v \in Live : users[v].email = job[r].email
  BY DEF HasEmail
<1>4. Stages' = [Stages EXCEPT ![r] = "refused"] /\ Claimed' = Claimed
  BY <1>2, StepMoves DEF RequestStep
<1> QED
  BY <1>1, <1>2, <1>3, <1>4
     DEF Registered!Refuse, Registered!Asks, Registered!Becomes, Registered!Live, Live, Stages,
         Claimed

\* The lookup that finds nothing yet is nothing to the client.
LEMMA UpsertIsSignIn ==
    ASSUME TypeInv, UniqueKeys, NEW r \in Req, Upsert(r)
    PROVE  Registered!SignIn(r) \/ Registered!Refuse(r) \/ UNCHANGED Registered!vars
<1>1. CASE Goto(r, "insert") /\ UNCHANGED <<users, seen>>
  <2>1. pc[r] \in Asking /\ pc'[r] \in Asking /\ UNCHANGED <<users, pats>>
    BY <1>1 DEF Upsert, At, Asking, Goto, TypeInv, TypeOK
  <2>2. StageOf(r)' = StageOf(r) /\ ClaimsOf(r)' = ClaimsOf(r)
    BY <2>1, StepsAreMapped DEF Mapped
  <2> QED
    BY <2>1, <2>2, StepMoves DEF RequestStep, Registered!vars, Stages, Claimed
<1>2. ASSUME NEW u \in HasIdentity(job[r].identity), HasEmail(job[r].email) \subseteq {u},
             UpdateEmail(u, job[r].email), Read(r, u, users[u].role), Goto(r, "ensureProfile")
      PROVE  Registered!SignIn(r)
  BY <1>2, UpdateIsSignIn
<1>3. ASSUME NEW u \in HasIdentity(job[r].identity), ~ HasEmail(job[r].email) \subseteq {u},
             Goto(r, "emailOwner"), UNCHANGED <<users, seen>>
      PROVE  Registered!Refuse(r)
  BY <1>3, TakenIsRefuse
<1> QED
  BY <1>1, <1>2, <1>3 DEF Upsert

LEMMA InsertIsSignInOrRefuse ==
    ASSUME TypeInv, UniqueKeys, NEW r \in Req, Insert(r)
    PROVE  Registered!SignIn(r) \/ Registered!Refuse(r)
<1>1. CASE HasEmail(job[r].email) # {} /\ Goto(r, "emailOwner") /\ UNCHANGED <<users, seen>>
  BY <1>1, TakenIsRefuse
<1>2. ASSUME HasEmail(job[r].email) = {}, Goto(r, "ensureProfile"),
             NEW u \in HasIdentity(job[r].identity),
             UpdateEmail(u, job[r].email), Read(r, u, users[u].role)
      PROVE  Registered!SignIn(r)
  BY <1>2, UpdateIsSignIn
<1>3. ASSUME HasEmail(job[r].email) = {}, HasIdentity(job[r].identity) = {},
             NEW u \in UserId, InsertUser(u, job[r].identity, job[r].email, "user"),
             Read(r, u, "user"), Goto(r, "ensureProfile")
      PROVE  Registered!SignIn(r)
  BY <1>3, InsertIsSignIn
<1> QED
  BY <1>1, <1>2, <1>3 DEF Insert

LEMMA EnsureProfileIsNothing ==
    ASSUME TypeInv, NEW r \in Req, EnsureProfile(r)
    PROVE  UNCHANGED Registered!vars \/ \E T \in SUBSET Registered!UnderWay : Registered!Fail(T)
<1>1. pc[r] = "ensureProfile" /\ UNCHANGED <<users, pats, seen>>
  BY DEF EnsureProfile, At
<1>2. CASE Goto(r, "sign")
  <2>1. pc'[r] = "sign"
    BY <1>2 DEF Goto, TypeInv, TypeOK
  <2>2. StageOf(r)' = StageOf(r) /\ ClaimsOf(r)' = ClaimsOf(r)
    BY <1>1, <2>1, StepsAreMapped DEF Mapped
  <2> QED
    BY <1>1, <2>2, StepMoves DEF RequestStep, Registered!vars, Stages, Claimed
<1>3. CASE Goto(r, "failed")
  <2>1. pc[r] \in Steps /\ pc'[r] = "failed" /\ RequestStep(r)
    BY <1>1, <1>3 DEF Goto, Steps, RequestStep, TypeInv, TypeOK
  <2> QED
    BY <1>1, <2>1, OneFails
<1> QED
  BY <1>2, <1>3 DEF EnsureProfile

-----------------------------------------------------------------------------
(* PATs, refreshes and changes of accounts.                                *)

LEMMA FindPATIsPresent ==
    ASSUME TypeInv, NEW r \in Req, FindPAT(r)
    PROVE  Registered!Present(r)
<1> DEFINE p == job[r].pat
           good == p \in Stored /\ pats[p].expires # "past"
<1>1. pc[r] \in Asking /\ job[r].op = "exchangePAT" /\ UNCHANGED <<users, pats, job>>
  BY DEF FindPAT, At, Asking, tables, TypeInv, TypeOK, StepsMatchJobs, Matches
<1>2. /\ StageOf(r) = "asked" /\ ClaimsOf(r) = Nobody
      /\ Stages' = [Stages EXCEPT ![r] = StageOf(r)']
      /\ Claimed' = [Claimed EXCEPT ![r] = ClaimsOf(r)']
      /\ ClaimsOf(r)' = ClaimsOf(r) => Claimed' = Claimed
  BY <1>1, StepsAreMapped, StepMoves DEF Mapped, RequestStep
<1>3. CASE good /\ Goto(r, "findUser") /\ seen' = [seen EXCEPT ![r].user = pats[p].owner]
  <2>1. pc'[r] = "findUser" /\ seen'[r].user = pats[p].owner
    BY <1>3 DEF Goto, TypeInv, TypeOK
  <2>2. StageOf(r)' = "keyed" /\ ClaimsOf(r)' = [user |-> pats[p].owner, role |-> "user"]
    BY <1>1, <2>1, StepsAreMapped DEF Mapped, At
  <2>3. [Claimed EXCEPT ![r].user = pats[p].owner]
          = [Claimed EXCEPT ![r] = [user |-> pats[p].owner, role |-> "user"]]
    <3>1. Claimed[r] = [user |-> NoUser, role |-> "user"]
      BY <1>2 DEF Claimed, Nobody
    <3>2. [Claimed[r] EXCEPT !.user = pats[p].owner] = [user |-> pats[p].owner, role |-> "user"]
      BY <3>1
    <3>3. [Claimed EXCEPT ![r].user = pats[p].owner]
            = [Claimed EXCEPT ![r] = [Claimed[r] EXCEPT !.user = pats[p].owner]]
      OBVIOUS
    <3> QED
      BY <3>2, <3>3
  <2>4. Registered!Becomes(r, "keyed") /\ Claimed' = [Claimed EXCEPT ![r].user = pats[p].owner]
    BY <1>2, <2>2, <2>3 DEF Registered!Becomes, Stages
  <2> QED
    BY <1>1, <1>2, <1>3, <2>4
       DEF Registered!Present, Registered!Asks, Registered!Stored, Stored, Stages, Claimed
<1>4. CASE ~ good /\ Goto(r, "rejected")
  <2>1. pc'[r] = "rejected"
    BY <1>4 DEF Goto, TypeInv, TypeOK
  <2>2. StageOf(r)' = "rejected" /\ ClaimsOf(r)' = ClaimsOf(r)
    BY <1>2, <2>1, StepsAreMapped DEF Mapped
  <2>3. Registered!Becomes(r, "rejected") /\ Claimed' = Claimed
    BY <1>2, <2>2 DEF Registered!Becomes, Stages
  <2> QED
    BY <1>1, <1>2, <1>4, <2>3
       DEF Registered!Present, Registered!Asks, Registered!Stored, Stored, Stages, Claimed
<1> QED
  BY <1>3, <1>4 DEF FindPAT

\* Whom an exchange or a refresh speaks for is read here; the creation of a
\* PAT has only looked whether its user is there.
LEMMA FindUserIsLook ==
    ASSUME TypeInv, ReadsItsUser, NEW r \in Req, FindUser(r)
    PROVE  Registered!Look(r) \/ Registered!Reject(r) \/ UNCHANGED Registered!vars
<1> DEFINE u == seen[r].user
<1>1. /\ pc[r] = "findUser" /\ job[r].op \in {"exchangePAT", "refresh", "createPAT"}
      /\ UNCHANGED <<users, pats, job>>
  BY DEF FindUser, At, tables, TypeInv, StepsMatchJobs, Matches
<1>2. /\ Stages' = [Stages EXCEPT ![r] = StageOf(r)']
      /\ Claimed' = [Claimed EXCEPT ![r] = ClaimsOf(r)']
      /\ ClaimsOf(r)' = ClaimsOf(r) => Claimed' = Claimed
      /\ StageOf(r)' = StageOf(r) => Stages' = Stages
  BY StepMoves DEF RequestStep
<1>3. \/ /\ u \in Live /\ seen'[r] = [user |-> u, role |-> users[u].role]
         /\ pc'[r] = IF job[r].op = "createPAT" THEN "savePAT" ELSE "sign"
      \/ u \notin Live /\ pc'[r] = "rejected"
  BY DEF FindUser, Read, Goto, TypeInv, TypeOK
<1>4. CASE job[r].op = "createPAT"
  <2>1. StageOf(r) = "asked" /\ ClaimsOf(r) = Nobody /\ u = job[r].user
    BY <1>1, <1>4, StepsAreMapped DEF Mapped, At, ReadsItsUser
  <2>2. CASE pc'[r] = "savePAT"
    <3>1. StageOf(r)' = StageOf(r) /\ ClaimsOf(r)' = ClaimsOf(r)
      BY <2>1, <2>2, StepsAreMapped DEF Mapped, Asking
    <3> QED
      BY <1>1, <1>2, <3>1 DEF Registered!vars, Stages, Claimed
  <2>3. CASE u \notin Live /\ pc'[r] = "rejected"
    <3>1. StageOf(r)' = "rejected" /\ ClaimsOf(r)' = ClaimsOf(r)
      BY <2>1, <2>3, StepsAreMapped DEF Mapped
    <3> QED
      BY <1>1, <1>2, <1>4, <2>1, <2>3, <3>1
         DEF Registered!Reject, Registered!Asks, Registered!Becomes, Registered!Live, Live,
             Stages, Claimed
  <2> QED
    BY <1>3, <1>4, <2>2, <2>3
<1>5. CASE job[r].op # "createPAT"
  <2>1. \/ StageOf(r) = "asked" /\ job[r].op = "refresh" /\ u = job[r].user
        \/ StageOf(r) = "keyed" /\ ClaimsOf(r).user = u
    BY <1>1, <1>5, StepsAreMapped DEF Mapped, At, ReadsItsUser
  <2>2. \/ Registered!Asks(r, "refresh") /\ Stages[r] # "keyed" /\ u = job[r].user
        \/ Stages[r] = "keyed" /\ Claimed[r].user = u
    BY <2>1 DEF Registered!Asks, Stages, Claimed
  <2>3. CASE u \in Live /\ pc'[r] = "sign" /\ seen'[r] = [user |-> u, role |-> users[u].role]
    <3>1. StageOf(r)' = "known" /\ ClaimsOf(r)' = [user |-> u, role |-> users[u].role]
      BY <2>3, StepsAreMapped DEF Mapped
    <3>2. Registered!Becomes(r, "known") /\ Registered!SpeaksFor(r, u, users[u].role)
      BY <1>2, <3>1 DEF Registered!Becomes, Registered!SpeaksFor, Stages, Claimed
    <3> QED
      BY <1>1, <2>2, <2>3, <3>2 DEF Registered!Look, Registered!Live, Live, Stages, Claimed
  <2>4. CASE u \notin Live /\ pc'[r] = "rejected"
    <3>1. StageOf(r)' = "rejected" /\ ClaimsOf(r)' = Nobody
      BY <2>4, StepsAreMapped DEF Mapped
    <3>2. Registered!Becomes(r, "rejected") /\ Claimed' = [Claimed EXCEPT ![r] = Nobody]
      BY <1>2, <3>1 DEF Registered!Becomes, Stages
    <3> QED
      BY <1>1, <2>2, <2>4, <3>2 DEF Registered!Look, Registered!Live, Live, Stages, Claimed
  <2> QED
    BY <1>3, <1>5, <2>3, <2>4
<1> QED
  BY <1>4, <1>5

\* The change of a use case is one statement, its last, whose answer may be
\* lost.
LEMMA ChangeIsChanged ==
    ASSUME TypeInv, NEW r \in Req, RequestStep(r), pc[r] \in Asking,
           pc'[r] \in {"ok", "failed", "rejected"}
    PROVE  /\ \A op : job[r].op = op => Registered!Asks(r, op)
           /\ Registered!Becomes(r, pc'[r])
           /\ job' = job /\ Claimed' = Claimed
<1>1. /\ StageOf(r) = "asked" /\ StageOf(r)' = pc'[r] /\ ClaimsOf(r)' = ClaimsOf(r)
  BY StepsAreMapped DEF Mapped
<1> QED
  BY <1>1, StepMoves DEF Registered!Asks, Registered!Becomes, Stages

LEMMA CreatePATIsCreateKey ==
    ASSUME TypeInv, ReadsItsUser, NEW r \in Req, CreatePAT(r)
    PROVE  Registered!CreateKey(r) \/ \E T \in SUBSET Registered!UnderWay : Registered!Fail(T)
<1>1. /\ pc[r] = "savePAT" /\ pc[r] \in Asking /\ RequestStep(r) /\ UNCHANGED users
      /\ job[r].op = "createPAT" /\ seen[r].user = job[r].user
  BY DEF CreatePAT, At, Asking, RequestStep, NewPatJob, ReadsItsUser, TypeInv, StepsMatchJobs,
         Matches
<1>2. CASE seen[r].user \in Live /\ Done(r) /\ \E p \in PatId : SavePAT(p, seen[r].user, job[r].expires)
  <2>1. pc'[r] \in {"ok", "failed"}
    BY <1>2 DEF Done, Goto, TypeInv, TypeOK
  <2>2. Registered!Asks(r, "createPAT") /\ Registered!Changed(r) /\ job' = job /\ Claimed' = Claimed
    BY <1>1, <2>1, ChangeIsChanged DEF Registered!Changed
  <2>3. PICK p \in PatId : SavePAT(p, seen[r].user, job[r].expires)
    BY <1>2
  <2>4. Registered!NewKey(p, job[r].user, job[r].expires)
    BY <1>1, <1>2, <2>3 DEF SavePAT, Registered!NewKey, Registered!Live, Live
  <2> QED
    BY <1>1, <2>2, <2>4 DEF Registered!CreateKey, Claimed
<1>3. CASE Goto(r, "failed") /\ UNCHANGED pats
  <2>1. pc[r] \in Steps /\ pc'[r] = "failed"
    BY <1>1, <1>3 DEF Goto, Steps, TypeInv, TypeOK
  <2> QED
    BY <1>1, <1>3, <2>1, OneFails
<1> QED
  BY <1>2, <1>3 DEF CreatePAT

LEMMA RevokePATIsRevokeKey ==
    ASSUME TypeInv, NEW r \in Req, RevokePAT(r)
    PROVE  Registered!RevokeKey(r) \/ Registered!Reject(r)
<1>1. /\ pc[r] \in Asking /\ RequestStep(r) /\ job[r].op = "revokePAT" /\ UNCHANGED users
      /\ pc'[r] \in {"ok", "failed", "rejected"}
  BY DEF RevokePAT, At, Asking, RequestStep, Done, Goto, TypeInv, TypeOK, StepsMatchJobs, Matches
<1>2. /\ Registered!Asks(r, "revokePAT") /\ Registered!Becomes(r, pc'[r])
      /\ job' = job /\ Claimed' = Claimed
  BY <1>1, ChangeIsChanged
<1>3. CASE job[r].pat \in Stored /\ pats' = [pats EXCEPT ![job[r].pat] = Gone] /\ Done(r)
  <2>1. pc'[r] \in {"ok", "failed"}
    BY <1>3 DEF Done, Goto, TypeInv, TypeOK
  <2>2. Registered!Changed(r)
    BY <1>2, <2>1 DEF Registered!Changed
  <2> QED
    BY <1>1, <1>2, <1>3, <2>2 DEF Registered!RevokeKey, Registered!Stored, Stored, Claimed
<1>4. CASE job[r].pat \notin Stored /\ UNCHANGED pats /\ Goto(r, "rejected")
  <2>1. pc'[r] = "rejected"
    BY <1>4 DEF Goto, TypeInv, TypeOK
  <2> QED
    BY <1>1, <1>2, <1>4, <2>1 DEF Registered!Reject, Registered!Stored, Stored, Claimed
<1> QED
  BY <1>3, <1>4 DEF RevokePAT

LEMMA UpdateRoleIsSetRole ==
    ASSUME TypeInv, NEW r \in Req, UpdateRole(r)
    PROVE  Registered!SetRole(r) \/ \E T \in SUBSET Registered!UnderWay : Registered!Fail(T)
<1>1. /\ pc[r] = "setRole" /\ pc[r] \in Asking /\ RequestStep(r) /\ job[r].op = "updateRole"
      /\ UNCHANGED pats
  BY DEF UpdateRole, At, Asking, RequestStep, RoleJob, TypeInv, StepsMatchJobs, Matches
<1>2. CASE job[r].user \in Live /\ SetRole(job[r].user, job[r].role) /\ Done(r)
  <2>1. pc'[r] \in {"ok", "failed"}
    BY <1>2 DEF Done, Goto, TypeInv, TypeOK
  <2>2. /\ Registered!Asks(r, "updateRole") /\ Registered!Changed(r)
        /\ job' = job /\ Claimed' = Claimed
    BY <1>1, <2>1, ChangeIsChanged DEF Registered!Changed
  <2> QED
    BY <1>1, <1>2, <2>2 DEF Registered!SetRole, Registered!Live, Live, SetRole, Claimed
<1>3. CASE UNCHANGED users /\ Goto(r, "failed")
  <2>1. pc[r] \in Steps /\ pc'[r] = "failed"
    BY <1>1, <1>3 DEF Goto, Steps, TypeInv, TypeOK
  <2> QED
    BY <1>1, <1>3, <2>1, OneFails
<1> QED
  BY <1>2, <1>3 DEF UpdateRole

LEMMA DeleteUserIsRemove ==
    ASSUME TypeInv, NEW r \in Req, DeleteUser(r)
    PROVE  Registered!Remove(r) \/ Registered!Reject(r)
<1> DEFINE u == job[r].user
<1>1. /\ pc[r] \in Asking /\ RequestStep(r) /\ job[r].op = "deleteUser"
      /\ pc'[r] \in {"ok", "failed", "rejected"}
  BY DEF DeleteUser, At, Asking, RequestStep, Done, Goto, TypeInv, TypeOK, StepsMatchJobs, Matches
<1>2. /\ Registered!Asks(r, "deleteUser") /\ Registered!Becomes(r, pc'[r])
      /\ job' = job /\ Claimed' = Claimed
  BY <1>1, ChangeIsChanged
<1>3. CASE u \in Live /\ Done(r)
  <2>1. pc'[r] \in {"ok", "failed"}
    BY <1>3 DEF Done, Goto, TypeInv, TypeOK
  <2>2. Registered!Changed(r)
    BY <1>2, <2>1 DEF Registered!Changed
  <2>3. /\ users' = [users EXCEPT ![u] = Gone]
        /\ pats' = [p \in PatId |-> IF p \in Stored /\ pats[p].owner = u THEN Gone ELSE pats[p]]
    BY <1>3 DEF DeleteUser
  <2> QED
    BY <1>2, <1>3, <2>2, <2>3
       DEF Registered!Remove, Registered!Live, Registered!Stored, Live, Stored, Claimed
<1>4. CASE u \notin Live /\ UNCHANGED tables /\ Goto(r, "rejected")
  <2>1. pc'[r] = "rejected"
    BY <1>4 DEF Goto, TypeInv, TypeOK
  <2> QED
    BY <1>2, <1>4, <2>1 DEF Registered!Reject, Registered!Live, Live, Claimed, tables
<1> QED
  BY <1>3, <1>4 DEF DeleteUser

-----------------------------------------------------------------------------
(* Time, and the bootstrap.                                                *)

\* While no request moves, nothing is seen of the requests.
LEMMA NoneMoves ==
    ASSUME UNCHANGED <<pc, job, seen>>
    PROVE  Stages' = Stages /\ Claimed' = Claimed
  BY MappedStays DEF Stages, Claimed

LEMMA ExpireIsExpire ==
    ASSUME NEW p \in PatId, Expire(p)
    PROVE  Registered!Expire(p)
<1>1. UNCHANGED <<users, pc, job, seen>>
  BY DEF Expire, requests
<1> QED
  BY <1>1, NoneMoves DEF Expire, Registered!Expire, Registered!Stored, Stored, Stages, Claimed

LEMMA BootUpsertIsFound ==
    ASSUME LateBootstrapIsHarmless, NEW s \in Replica, BootUpsert(s)
    PROVE  (\E u \in UserId : Registered!Found(u)) \/ UNCHANGED Registered!vars
<1>1. UNCHANGED <<pats, job>> /\ Stages' = Stages /\ Claimed' = Claimed
  BY NoneMoves DEF BootUpsert, requests
<1>2. CASE UNCHANGED users
  BY <1>1, <1>2 DEF Registered!vars, Stages, Claimed
<1>3. ASSUME HasEmail(AdminEmail) = {}, NEW u \in UserId, InsertUser(u, u, AdminEmail, "admin")
      PROVE  Registered!Found(u)
  <2>1. Live = {} \/ \E v \in UserId : users[v] = Gone
    BY <1>3 DEF LateBootstrapIsHarmless, BootUpsert
  <2>2. \A v \in Live : users[v].email # AdminEmail
    BY <1>3 DEF HasEmail
  <2> QED
    BY <1>1, <1>3, <2>1, <2>2
       DEF InsertUser, Registered!Found, Registered!Live, Live, Stages, Claimed
<1> QED
  BY <1>2, <1>3 DEF BootUpsert

LEMMA BootSavePATIsFoundKey ==
    ASSUME AdminIsItsOwn, NEW s \in Replica, BootSavePAT(s)
    PROVE  (\E p \in PatId, u \in UserId : Registered!FoundKey(p, u)) \/ UNCHANGED Registered!vars
<1>1. UNCHANGED <<users, job>> /\ Stages' = Stages /\ Claimed' = Claimed
  BY NoneMoves DEF BootSavePAT, requests
<1>2. CASE UNCHANGED pats
  BY <1>1, <1>2 DEF Registered!vars, Stages, Claimed
<1>3. ASSUME admin[s] \in Live, NEW p \in PatId, SavePAT(p, admin[s], "never")
      PROVE  Registered!FoundKey(p, admin[s]) /\ admin[s] \in UserId
  BY <1>1, <1>3
     DEF AdminIsItsOwn, SavePAT, Registered!FoundKey, Registered!NewKey, Registered!Live, Live,
         Stages, Claimed
<1> QED
  BY <1>2, <1>3 DEF BootSavePAT

LEMMA OtherBootStepsAreNothing ==
    ASSUME NEW s \in Replica, BootCount(s) \/ BootProfile(s) \/ Start(s)
    PROVE  UNCHANGED Registered!vars
<1>1. UNCHANGED <<users, pats, pc, job, seen>>
  BY DEF BootCount, BootProfile, Start, tables, requests
<1> QED
  BY <1>1, NoneMoves DEF Registered!vars, Stages, Claimed

-----------------------------------------------------------------------------

LEMMA RegistryInit == Init => Registered!Init
<1>1. ASSUME Init, NEW r \in Req PROVE StageOf(r) = "idle" /\ ClaimsOf(r) = Nobody
  BY <1>1, StepsAreMapped DEF Init, Mapped
<1> QED
  BY <1>1 DEF Init, Registered!Init

LEMMA RequestStepIsOne ==
    ASSUME TypeInv, UniqueKeys, ReadsItsUser, NEW r \in Req, RequestStep(r) \/ Fail(r)
    PROVE  Registered!Next \/ UNCHANGED Registered!vars
<1>1. ASSUME Fail(r) PROVE \E T \in SUBSET Registered!UnderWay : Registered!Fail(T)
  <2>1. pc[r] \in Steps /\ pc'[r] = "failed" /\ UNCHANGED <<users, pats>>
    BY <1>1 DEF Fail, Goto, tables, TypeInv, TypeOK
  <2> QED
    BY <1>1, <2>1, OneFails
<1>2. CASE Upsert(r) \/ Insert(r) \/ EmailOwner(r) \/ EnsureProfile(r) \/ Sign(r)
  BY <1>2, UpsertIsSignIn, InsertIsSignInOrRefuse, EmailOwnerIsTellRefused,
     EnsureProfileIsNothing, SignIsGrant
     DEF Registered!Next
<1>3. CASE FindPAT(r) \/ FindUser(r)
  BY <1>3, FindPATIsPresent, FindUserIsLook DEF Registered!Next
<1>4. CASE CreatePAT(r) \/ RevokePAT(r) \/ UpdateRole(r) \/ DeleteUser(r)
  BY <1>4, CreatePATIsCreateKey, RevokePATIsRevokeKey, UpdateRoleIsSetRole, DeleteUserIsRemove
     DEF Registered!Next
<1> QED
  BY <1>1, <1>2, <1>3, <1>4 DEF RequestStep, Registered!Next

\* A request takes effect at one moment between its beginning and its answer,
\* or not at all, and its JWT says what was so at such a moment: the use
\* cases of AuthManager, of which none runs in a transaction, implement one
\* registry, whatever fails between two of their statements.
THEOREM RequestsAreAtomicHolds == Spec => RequestsAreAtomic
<1>1. TypeInv /\ KeysInv /\ LateBootstrapIsHarmless /\ RegistryInv /\ [Next]_vars
        => [Registered!Next]_(Registered!vars)
  <2> SUFFICES ASSUME TypeInv, UniqueKeys, LateBootstrapIsHarmless, RegistryInv, [Next]_vars
               PROVE  Registered!Next \/ UNCHANGED Registered!vars
    BY DEF KeysInv
  <2>1. ASSUME NEW r \in Req, RequestStep(r) \/ Fail(r)
        PROVE  Registered!Next \/ UNCHANGED Registered!vars
    BY <2>1, RequestStepIsOne DEF RegistryInv
  <2>2. ASSUME NEW r \in Req, NEW s \in Replica, NEW j \in Jobs, Begin(r, s, j)
        PROVE  Registered!Next
    BY <2>2, BeginIsAsk DEF Registered!Next
  <2>3. ASSUME NEW p \in PatId, Expire(p) PROVE Registered!Next
    BY <2>3, ExpireIsExpire DEF Registered!Next
  <2>4. ASSUME NEW s \in Replica, BootStep(s) \/ Stop(s) \/ Start(s)
        PROVE  Registered!Next \/ UNCHANGED Registered!vars
    BY <2>4, BootUpsertIsFound, BootSavePATIsFoundKey, OtherBootStepsAreNothing, StopIsFail
       DEF BootStep, RegistryInv, Registered!Next
  <2>5. CASE UNCHANGED vars
    <3>1. UNCHANGED <<users, pats, pc, job, seen>>
      BY <2>5 DEF vars, tables, requests
    <3> QED
      BY <3>1, NoneMoves DEF Registered!vars, Stages, Claimed
  <2> QED
    BY <2>1, <2>2, <2>3, <2>4, <2>5 DEF Next
<1> QED
  BY <1>1, RegistryInit, RegistryInvariant, PTL DEF Spec, RequestsAreAtomic, Registered!Spec
=============================================================================
