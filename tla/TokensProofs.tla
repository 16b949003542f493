---------------------------- MODULE TokensProofs -----------------------------
(***************************************************************************)
(* The properties of Tokens, for every number of users, replicas and       *)
(* requests, every lifetime and every difference between the clocks.       *)
(***************************************************************************)
EXTENDS Tokens, TLAPS

-----------------------------------------------------------------------------
(* The inductive invariant.                                                *)

\* The request of a handler that has come to a step.
Matches(step, j) ==
    CASE step = "findUser" -> j \in RefreshJob
      [] step = "setRole"  -> j \in SetRoleJob
      [] step = "sign"     -> j \in SignInJob \cup RefreshJob

Working(r) == pc[r] \in Steps => host[r] \in Replica /\ Matches(pc[r], job[r])

\* The history is up to date, and not ahead of the time.
HistoryIsTrue ==
    \A u \in User, x \in Role : held[u][x] <= now /\ (record[u] = x => held[u][x] = now)

\* A token tells a role its user had when the record was read or later, and
\* lives for Expiry, but for the fraction of a second and the clocks.
Sound(t) ==
    /\ t.read <= t.signed /\ t.signed <= now
    /\ t.read <= held[t.sub][t.role]
    /\ t.exp <= t.signed + Expiry + MaxAhead
    /\ t.signed + Expiry - (Second - 1) <= t.exp

\* A request about to sign knows a role the user had when it was read.
ReadIsTrue(r) == pc[r] = "sign" => at[r] <= now /\ at[r] <= held[Subject(r)][seen[r]]

\* A role is about to be changed under a token that was accepted, with the
\* claims of an admin.
LetIn(r) ==
    pc[r] = "setRole" =>
        LET t == job[r].token
        IN t.role = "admin" /\ at[r] < held[t.sub]["admin"] + Window(t)

\* A handler at work under a token has one that was issued.
TokenWasIssued(r) == pc[r] \in {"findUser", "setRole"} => job[r].token \in tokens

Inv ==
    /\ TypeOK
    /\ HistoryIsTrue
    /\ \A r \in Req : Working(r) /\ ReadIsTrue(r) /\ LetIn(r) /\ TokenWasIssued(r)
    /\ \A t \in tokens : Sound(t)

-----------------------------------------------------------------------------
(* Arithmetic and types.                                                   *)

\* Cutting a time to whole seconds takes away less than a second.
LEMMA WholeSecondsBound ==
    ASSUME NEW t \in Nat
    PROVE  /\ WholeSeconds(t) \in Int
           /\ t - (Second - 1) <= WholeSeconds(t) /\ WholeSeconds(t) <= t
<1>1. Second \in Nat /\ Second > 0
  BY TokensAssumption
<1>2. t % Second \in 0 .. Second - 1
  BY <1>1
<1> QED
  BY <1>1, <1>2 DEF WholeSeconds

LEMMA ClockBound ==
    ASSUME NEW s \in Replica, now \in Nat
    PROVE  Clock(s) \in Nat /\ now <= Clock(s) /\ Clock(s) <= now + MaxAhead
<1>1. Ahead[s] \in 0 .. MaxAhead /\ MaxAhead \in Nat
  BY TokensAssumption
<1> QED
  BY <1>1 DEF Clock

\* The expiry of a token signed now.
LEMMA ExpiryBound ==
    ASSUME NEW s \in Replica, now \in Nat
    PROVE  /\ ExpiryAt(s) \in Int
           /\ ExpiryAt(s) <= now + Expiry + MaxAhead
           /\ now + Expiry - (Second - 1) <= ExpiryAt(s)
<1>1. Expiry \in Nat /\ Second \in Nat /\ MaxAhead \in Nat
  BY TokensAssumption
<1>2. Clock(s) \in Nat /\ now <= Clock(s) /\ Clock(s) <= now + MaxAhead
  BY ClockBound
<1> DEFINE t == Clock(s) + Expiry
<1>3. t \in Nat
  BY <1>1, <1>2
<1>4. /\ WholeSeconds(t) \in Int
      /\ t - (Second - 1) <= WholeSeconds(t) /\ WholeSeconds(t) <= t
  BY <1>3, WholeSecondsBound
<1> QED
  BY <1>1, <1>2, <1>4 DEF ExpiryAt

LEMMA JobFields ==
    /\ \A j \in SignInJob : j.op = "signIn" /\ j.user \in User
    /\ \A j \in RefreshJob : j.op = "refresh" /\ j.token \in Token
    /\ \A j \in SetRoleJob : /\ j.op = "setRole" /\ j.token \in Token
                             /\ j.user \in User /\ j.role \in Role
    /\ \A t \in Token : /\ t.sub \in User /\ t.role \in Role /\ t.exp \in Int
                        /\ t.read \in Nat /\ t.signed \in Nat
  BY DEF SignInJob, RefreshJob, SetRoleJob, Token

LEMMA SubjectType ==
    ASSUME NEW r \in Req, pc[r] = "sign", Working(r)
    PROVE  Subject(r) \in User
<1>1. job[r] \in SignInJob \cup RefreshJob
  BY DEF Working, Matches, Steps
<1> QED
  BY <1>1, JobFields DEF Subject

\* What Inv says of the numbers, in one place.
LEMMA Numbers ==
    ASSUME TypeOK
    PROVE  /\ now \in Nat /\ Expiry \in Nat /\ Second \in Nat /\ Second > 0 /\ MaxAhead \in Nat
           /\ \A u \in User, x \in Role : held[u][x] \in Int
           /\ \A r \in Req : at[r] \in Nat
  BY TokensAssumption DEF TypeOK

LEMMA TokenParts ==
    ASSUME TypeOK, NEW t \in tokens
    PROVE  /\ t \in Token
           /\ t.sub \in User /\ t.role \in Role /\ t.exp \in Int
           /\ t.read \in Nat /\ t.signed \in Nat
           /\ held[t.sub][t.role] \in Int /\ Window(t) \in Int
<1>1. t \in Token
  BY DEF TypeOK
<1>2. /\ t.sub \in User /\ t.role \in Role /\ t.exp \in Int
      /\ t.read \in Nat /\ t.signed \in Nat
  BY <1>1, JobFields
<1>3. held[t.sub][t.role] \in Int
  BY <1>2, Numbers
<1>4. Window(t) \in Int
  BY <1>2, Numbers DEF Window
<1> QED
  BY <1>1, <1>2, <1>3, <1>4

\* A token some replica accepts is within its window.
LEMMA ValidIsFresh ==
    ASSUME TypeOK, NEW t \in tokens, Sound(t), NEW s \in Replica, Valid(s, t)
    PROVE  now < held[t.sub][t.role] + Window(t)
<1>1. now <= Clock(s) /\ Clock(s) \in Nat
  BY ClockBound, Numbers
<1>2. /\ now \in Nat /\ Expiry \in Nat /\ MaxAhead \in Nat
      /\ t.exp \in Int /\ t.read \in Nat /\ t.signed \in Nat /\ held[t.sub][t.role] \in Int
  BY Numbers, TokenParts
<1>3. /\ t.exp <= t.signed + Expiry + MaxAhead /\ t.read <= held[t.sub][t.role]
  BY DEF Sound
<1>4. Clock(s) < t.exp
  BY DEF Valid
<1> QED
  BY <1>1, <1>2, <1>3, <1>4 DEF Window

-----------------------------------------------------------------------------
(* The type invariant.                                                     *)

LEMMA InitInv == Init => Inv
<1> SUFFICES ASSUME Init PROVE Inv
  OBVIOUS
<1>1. MaxTime \in Nat /\ 0 \in 0 .. MaxTime
  BY TokensAssumption
<1>2. TypeOK
  BY <1>1 DEF Init, TypeOK, Role
<1>3. HistoryIsTrue
  BY DEF Init, HistoryIsTrue
<1>4. \A r \in Req : Working(r) /\ ReadIsTrue(r) /\ LetIn(r) /\ TokenWasIssued(r)
  BY DEF Init, Working, ReadIsTrue, LetIn, TokenWasIssued, Steps
<1> QED
  BY <1>2, <1>3, <1>4 DEF Init, Inv

LEMMA AnswerType ==
    ASSUME TypeOK, NEW r \in Req, Answer(r)
    PROVE  /\ pc' \in [Req -> Steps \cup {"idle", "answered"}]
           /\ job' \in [Req -> Job \cup {NoJob}]
           /\ host' \in [Req -> Replica \cup {NoReplica}]
           /\ seen' \in [Req -> Role]
           /\ at' \in [Req -> 0 .. MaxTime]
<1>1. 0 \in 0 .. MaxTime /\ "user" \in Role
  BY TokensAssumption DEF Role
<1> QED
  BY <1>1 DEF Answer, Goto, TypeOK

\* The token a handler signs.
LEMMA ClaimsType ==
    ASSUME Inv, NEW r \in Req, pc[r] = "sign"
    PROVE  /\ Claims(r) \in Token
           /\ host[r] \in Replica
           /\ Claims(r).sub = Subject(r) /\ Claims(r).role = seen[r]
           /\ Claims(r).exp = ExpiryAt(host[r])
           /\ Claims(r).read = at[r] /\ Claims(r).signed = now
<1>1. Working(r) /\ TypeOK
  BY DEF Inv
<1>2. host[r] \in Replica
  BY <1>1 DEF Working, Steps
<1>3. Subject(r) \in User
  BY <1>1, SubjectType
<1>4. ExpiryAt(host[r]) \in Int
  BY <1>1, <1>2, ExpiryBound, Numbers
<1>5. seen[r] \in Role /\ at[r] \in Nat /\ now \in Nat
  BY <1>1, Numbers DEF TypeOK
<1> QED
  BY <1>2, <1>3, <1>4, <1>5 DEF Claims, Token

LEMMA BearerJobType ==
    ASSUME TypeOK
    PROVE  \A j \in BearerJobs : /\ j \in RefreshJob \cup SetRoleJob
                                 /\ j \in Job /\ j.token \in tokens
                                 /\ j.op = "refresh" <=> j \in RefreshJob
<1>1. tokens \subseteq Token
  BY DEF TypeOK
<1> QED
  BY <1>1 DEF BearerJobs, RefreshJob, SetRoleJob, Job

LEMMA TypeStep ==
    ASSUME Inv, [Next]_vars
    PROVE  TypeOK'
<1> USE DEF Inv
<1>0. now \in 0 .. MaxTime /\ "sign" \in Steps /\ "findUser" \in Steps /\ "setRole" \in Steps
  BY DEF TypeOK, Steps
<1>1. ASSUME NEW r \in Req, NEW s \in Replica, NEW j \in BearerJobs, Authenticate(r, s, j)
      PROVE  TypeOK'
  <2>1. CASE Answer(r)
    BY <1>1, <2>1, AnswerType DEF Authenticate, TypeOK
  <2>2. CASE ~ Answer(r)
    BY <1>0, <1>1, <2>2, BearerJobType DEF Authenticate, Goto, TypeOK
  <2> QED
    BY <2>1, <2>2
<1>2. ASSUME NEW r \in Req, NEW u \in User, ReadRecord(r, u)
      PROVE  /\ pc' \in [Req -> Steps \cup {"idle", "answered"}]
             /\ seen' \in [Req -> Role]
             /\ at' \in [Req -> 0 .. MaxTime]
  BY <1>0, <1>2 DEF ReadRecord, Goto, TypeOK
<1>3. ASSUME NEW r \in Req, NEW s \in Replica, NEW j \in SignInJob, SignIn(r, s, j)
      PROVE  TypeOK'
  <2>1. j.user \in User /\ j \in Job
    BY JobFields DEF Job
  <2> QED
    BY <1>2, <1>3, <2>1 DEF SignIn, TypeOK
<1>4. ASSUME NEW r \in Req, FindUser(r)
      PROVE  TypeOK'
  <2>1. job[r] \in RefreshJob
    BY <1>4 DEF FindUser, At, Working, Matches, Steps
  <2>2. job[r].token.sub \in User
    BY <2>1, JobFields
  <2>3. CASE Answer(r)
    BY <1>4, <2>3, AnswerType DEF FindUser, TypeOK
  <2>4. CASE ~ Answer(r)
    BY <1>2, <1>4, <2>2, <2>4 DEF FindUser, TypeOK
  <2> QED
    BY <2>3, <2>4
<1>5. ASSUME NEW r \in Req, Sign(r)
      PROVE  TypeOK'
  <2>1. Claims(r) \in Token
    BY <1>5, ClaimsType DEF Sign, At
  <2>2. tokens' \subseteq Token
    BY <1>5, <2>1 DEF Sign, TypeOK
  <2> QED
    BY <1>5, <2>2, AnswerType DEF Sign, TypeOK
<1>6. ASSUME NEW r \in Req, SetRole(r)
      PROVE  TypeOK'
  <2>1. job[r] \in SetRoleJob
    BY <1>6 DEF SetRole, At, Working, Matches, Steps
  <2>2. job[r].user \in User /\ job[r].role \in Role
    BY <2>1, JobFields
  <2>3. [held EXCEPT ![job[r].user][job[r].role] = now] \in [User -> [Role -> -1 .. MaxTime]]
    <3>1. now \in -1 .. MaxTime
      BY <1>0, TokensAssumption
    <3> QED
      BY <2>2, <3>1 DEF TypeOK
  <2>4. record' \in [User -> Role \cup {Gone}] /\ held' \in [User -> [Role -> -1 .. MaxTime]]
    BY <1>6, <2>2, <2>3 DEF SetRole, TypeOK
  <2> QED
    BY <1>6, <2>4, AnswerType DEF SetRole, TypeOK
<1>7. ASSUME NEW r \in Req, Fail(r)
      PROVE  TypeOK'
  BY <1>7, AnswerType DEF Fail, TypeOK
<1>8. ASSUME NEW u \in User, DeleteUser(u)
      PROVE  TypeOK'
  BY <1>8 DEF DeleteUser, TypeOK
<1>9. CASE Tick
  <2>1. now' \in 0 .. MaxTime
    BY <1>9, TokensAssumption DEF Tick, TypeOK
  <2>2. held' \in [User -> [Role -> -1 .. MaxTime]]
    BY <1>9, <2>1, TokensAssumption DEF Tick, TypeOK
  <2> QED
    BY <1>9, <2>1, <2>2 DEF Tick, TypeOK
<1>10. CASE UNCHANGED vars
  BY <1>10 DEF vars, TypeOK
<1> QED
  BY <1>1, <1>3, <1>4, <1>5, <1>6, <1>7, <1>8, <1>9, <1>10 DEF Next

-----------------------------------------------------------------------------
(* The history, and the tokens it is about.                                *)

\* Time and the history only move on.
MovesOn ==
    /\ now <= now' /\ tokens \subseteq tokens'
    /\ \A u \in User, x \in Role : held[u][x] <= held'[u][x]

LEMMA HistoryStep ==
    ASSUME Inv, [Next]_vars
    PROVE  MovesOn /\ HistoryIsTrue'
<1> USE Numbers DEF Inv, MovesOn, HistoryIsTrue
<1>1. CASE UNCHANGED <<now, record, held>> /\ tokens \subseteq tokens'
  BY <1>1
<1>2. ASSUME NEW r \in Req, SetRole(r)
      PROVE  MovesOn /\ HistoryIsTrue'
  <2>1. job[r] \in SetRoleJob
    BY <1>2 DEF SetRole, At, Working, Matches, Steps
  <2>2. job[r].user \in User /\ job[r].role \in Role
    BY <2>1, JobFields
  <2> DEFINE u == job[r].user
             x == job[r].role
  <2>3. CASE UNCHANGED <<record, held>>
    BY <1>2, <2>3 DEF SetRole
  <2>4. CASE record' = [record EXCEPT ![u] = x] /\ held' = [held EXCEPT ![u][x] = now]
    <3>1. now' = now /\ tokens' = tokens
      BY <1>2 DEF SetRole
    <3>2. \A v \in User, y \in Role :
             held'[v][y] = IF v = u /\ y = x THEN now ELSE held[v][y]
      BY <2>2, <2>4 DEF TypeOK
    <3>3. \A v \in User : record'[v] = IF v = u THEN x ELSE record[v]
      BY <2>2, <2>4 DEF TypeOK
    <3> QED
      BY <3>1, <3>2, <3>3
  <2> QED
    BY <1>2, <2>3, <2>4 DEF SetRole
<1>3. ASSUME NEW u \in User, DeleteUser(u)
      PROVE  MovesOn /\ HistoryIsTrue'
  BY <1>3, TokensAssumption DEF DeleteUser, TypeOK
<1>4. CASE Tick
  <2>1. now' = now + 1 /\ record' = record /\ tokens' = tokens
    BY <1>4 DEF Tick
  <2>2. \A v \in User, y \in Role :
           held'[v][y] = IF record[v] = y THEN now + 1 ELSE held[v][y]
    BY <1>4 DEF Tick
  <2> QED
    BY <2>1, <2>2
<1>5. ASSUME NEW r \in Req, NEW s \in Replica, NEW j \in BearerJobs, Authenticate(r, s, j)
      PROVE  UNCHANGED <<now, record, tokens, held>>
  BY <1>5 DEF Authenticate
<1>6. ASSUME NEW r \in Req, NEW s \in Replica, NEW j \in SignInJob, SignIn(r, s, j)
      PROVE  UNCHANGED <<now, record, tokens, held>>
  BY <1>6 DEF SignIn
<1>7. ASSUME NEW r \in Req, FindUser(r) \/ Fail(r)
      PROVE  UNCHANGED <<now, record, tokens, held>>
  BY <1>7 DEF FindUser, Fail
<1>8. ASSUME NEW r \in Req, Sign(r)
      PROVE  UNCHANGED <<now, record, held>> /\ tokens \subseteq tokens'
  BY <1>8 DEF Sign
<1>9. UNCHANGED vars => UNCHANGED <<now, record, tokens, held>>
  BY DEF vars
<1> QED
  BY <1>1, <1>2, <1>3, <1>4, <1>5, <1>6, <1>7, <1>8, <1>9 DEF Next

LEMMA SoundStays ==
    ASSUME Inv, NEW t \in tokens, MovesOn, now' \in Nat, TypeOK'
    PROVE  Sound(t)'
<1>1. Sound(t)
  BY DEF Inv
<1>2. /\ t.sub \in User /\ t.role \in Role /\ t.exp \in Int
      /\ t.read \in Nat /\ t.signed \in Nat /\ held[t.sub][t.role] \in Int
  BY TokenParts DEF Inv
<1>3. held'[t.sub][t.role] \in Int
  BY <1>2 DEF TypeOK
<1>4. now \in Nat
  BY Numbers DEF Inv
<1> QED
  BY <1>1, <1>2, <1>3, <1>4 DEF Sound, MovesOn

LEMMA SoundStep ==
    ASSUME Inv, [Next]_vars
    PROVE  \A t \in tokens' : Sound(t)'
<1>1. MovesOn /\ TypeOK'
  BY TypeStep, HistoryStep
<1>2. now' \in Nat
  BY <1>1 DEF TypeOK
<1>3. \A t \in tokens : Sound(t)'
  BY <1>1, <1>2, SoundStays
<1>4. ASSUME NEW r \in Req, Sign(r)
      PROVE  \A t \in tokens' : Sound(t)'
  <2>1. PICK c \in Token : c = Claims(r)
    BY <1>4, ClaimsType DEF Sign, At
  <2>2. /\ host[r] \in Replica /\ c.sub = Subject(r) /\ c.role = seen[r]
        /\ c.exp = ExpiryAt(host[r]) /\ c.read = at[r] /\ c.signed = now
    BY <1>4, <2>1, ClaimsType DEF Sign, At
  <2>3. at[r] <= now /\ at[r] <= held[c.sub][c.role]
    BY <1>4, <2>2 DEF Inv, ReadIsTrue, Sign, At
  <2>4. /\ c.exp <= now + Expiry + MaxAhead
        /\ now + Expiry - (Second - 1) <= c.exp
    BY <2>2, ExpiryBound, Numbers DEF Inv
  <2>5. now' = now /\ held' = held /\ tokens' = tokens \cup {c}
    BY <1>4, <2>1 DEF Sign
  <2>6. c.read <= now /\ now \in Nat
    BY <2>2, <2>3, Numbers DEF Inv
  <2>7. Sound(c)'
    BY <2>2, <2>3, <2>4, <2>5, <2>6 DEF Sound
  <2> QED
    BY <1>3, <2>5, <2>7
<1>5. ASSUME tokens' = tokens
      PROVE  \A t \in tokens' : Sound(t)'
  BY <1>3, <1>5
<1>6. ASSUME NEW r \in Req, NEW s \in Replica, NEW j \in BearerJobs, Authenticate(r, s, j)
      PROVE  tokens' = tokens
  BY <1>6 DEF Authenticate
<1>7. ASSUME NEW r \in Req, NEW s \in Replica, NEW j \in SignInJob, SignIn(r, s, j)
      PROVE  tokens' = tokens
  BY <1>7 DEF SignIn
<1>8. ASSUME NEW r \in Req, FindUser(r) \/ SetRole(r) \/ Fail(r)
      PROVE  tokens' = tokens
  BY <1>8 DEF FindUser, SetRole, Fail
<1>9. (\E u \in User : DeleteUser(u)) \/ Tick \/ UNCHANGED vars => tokens' = tokens
  BY DEF DeleteUser, Tick, vars
<1> QED
  BY <1>4, <1>5, <1>6, <1>7, <1>8, <1>9 DEF Next

-----------------------------------------------------------------------------
(* Requests.                                                               *)

RequestInv(r) == Working(r) /\ ReadIsTrue(r) /\ LetIn(r) /\ TokenWasIssued(r)

\* A request that stays as it is.
LEMMA RequestStays ==
    ASSUME Inv, NEW r \in Req, MovesOn, TypeOK',
           pc'[r] = pc[r], job'[r] = job[r], host'[r] = host[r],
           seen'[r] = seen[r], at'[r] = at[r]
    PROVE  RequestInv(r)'
<1>1. Working(r)'
  BY DEF Inv, Working
<1>2. ReadIsTrue(r)'
  <2> SUFFICES ASSUME pc[r] = "sign"
               PROVE  at[r] <= now' /\ at[r] <= held'[Subject(r)][seen[r]]
    BY DEF ReadIsTrue, Subject
  <2>1. Subject(r) \in User /\ seen[r] \in Role
    BY SubjectType DEF Inv, TypeOK
  <2>2. at[r] <= now /\ at[r] <= held[Subject(r)][seen[r]]
    BY DEF Inv, ReadIsTrue
  <2>3. /\ held[Subject(r)][seen[r]] \in Int /\ held'[Subject(r)][seen[r]] \in Int
        /\ now \in Int /\ now' \in Int /\ at[r] \in Int
    BY <2>1, Numbers DEF Inv, TypeOK
  <2>4. now <= now' /\ held[Subject(r)][seen[r]] <= held'[Subject(r)][seen[r]]
    BY <2>1 DEF MovesOn
  <2> QED
    BY <2>2, <2>3, <2>4
<1>3. LetIn(r)'
  <2> DEFINE t == job[r].token
  <2> SUFFICES ASSUME pc[r] = "setRole"
               PROVE  t.role = "admin" /\ at[r] < held'[t.sub]["admin"] + Window(t)
    BY DEF LetIn, Window
  <2>1. t \in tokens
    BY DEF Inv, TokenWasIssued
  <2>2. t.role = "admin" /\ at[r] < held[t.sub]["admin"] + Window(t)
    BY DEF Inv, LetIn
  <2>3. t.sub \in User /\ "admin" \in Role /\ Window(t) \in Int
    BY <2>1, TokenParts DEF Inv, Role
  <2>4. held[t.sub]["admin"] \in Int /\ held'[t.sub]["admin"] \in Int /\ at[r] \in Int
    BY <2>3, Numbers DEF Inv, TypeOK
  <2>5. held[t.sub]["admin"] <= held'[t.sub]["admin"]
    BY <2>3 DEF MovesOn
  <2> QED
    BY <2>2, <2>3, <2>4, <2>5
<1>4. TokenWasIssued(r)'
  BY DEF Inv, TokenWasIssued, MovesOn
<1> QED
  BY <1>1, <1>2, <1>3, <1>4 DEF RequestInv

LEMMA RequestAnswered ==
    ASSUME NEW r \in Req, pc'[r] = "answered"
    PROVE  RequestInv(r)'
  BY DEF RequestInv, Working, ReadIsTrue, LetIn, TokenWasIssued, Steps

\* A request that has read the record of its user.
LEMMA RequestHasRead ==
    ASSUME Inv, NEW r \in Req, NEW u \in User, ReadRecord(r, u),
           UNCHANGED <<now, record, tokens, held>>,
           host'[r] \in Replica, job'[r] \in SignInJob \cup RefreshJob,
           u = Subject(r)'
    PROVE  RequestInv(r)'
<1>1. pc'[r] = "sign" /\ at'[r] = now /\ seen'[r] = record[u]
  BY DEF ReadRecord, Goto, Inv, TypeOK
<1>2. record[u] \in Role
  BY DEF ReadRecord, Inv, TypeOK
<1>3. held[u][record[u]] = now
  BY <1>2 DEF Inv, HistoryIsTrue
<1>4. Working(r)'
  BY <1>1 DEF Working, Matches, Steps
<1>5. ReadIsTrue(r)'
  BY <1>1, <1>3, Numbers DEF ReadIsTrue, Inv
<1>6. LetIn(r)' /\ TokenWasIssued(r)'
  BY <1>1 DEF LetIn, TokenWasIssued
<1> QED
  BY <1>4, <1>5, <1>6 DEF RequestInv

LEMMA LetInByToken ==
    ASSUME Inv, NEW r \in Req, NEW s \in Replica, NEW j \in BearerJobs, Authenticate(r, s, j)
    PROVE  RequestInv(r)'
<1>1. UNCHANGED <<now, record, tokens, held>>
  BY DEF Authenticate
<1>2. /\ j \in RefreshJob \cup SetRoleJob /\ j.token \in tokens
      /\ j.op = "refresh" <=> j \in RefreshJob
  BY BearerJobType DEF Inv
<1>3. CASE Answer(r)
  <2>1. pc'[r] = "answered"
    BY <1>3 DEF Answer, Goto, Inv, TypeOK
  <2> QED
    BY <2>1, RequestAnswered
<1>4. CASE ~ Answer(r)
  <2>1. /\ Valid(s, j.token) /\ May(j)
        /\ pc'[r] = (IF j.op = "refresh" THEN "findUser" ELSE "setRole")
        /\ job'[r] = j /\ host'[r] = s /\ at'[r] = now
    BY <1>4 DEF Authenticate, Goto, Inv, TypeOK
  <2>2. Working(r)'
    BY <1>2, <2>1 DEF Working, Matches
  <2>3. LetIn(r)'
    <3> SUFFICES ASSUME pc'[r] = "setRole"
                 PROVE  /\ j.token.role = "admin"
                        /\ now < held[j.token.sub]["admin"] + Window(j.token)
      BY <1>1, <2>1 DEF LetIn, Window
    <3>1. j \in SetRoleJob
      BY <1>2, <2>1
    <3>2. j.token.role = "admin"
      BY <2>1, <3>1, JobFields DEF May
    <3>3. Sound(j.token)
      BY <1>2 DEF Inv
    <3> QED
      BY <1>2, <2>1, <3>2, <3>3, ValidIsFresh DEF Inv
  <2>4. ReadIsTrue(r)' /\ TokenWasIssued(r)'
    BY <1>1, <1>2, <2>1 DEF ReadIsTrue, TokenWasIssued
  <2> QED
    BY <2>2, <2>3, <2>4 DEF RequestInv
<1> QED
  BY <1>3, <1>4

LEMMA OwnStep ==
    ASSUME Inv, NEW r \in Req, FindUser(r) \/ Sign(r) \/ SetRole(r) \/ Fail(r)
    PROVE  RequestInv(r)'
<1>1. CASE Answer(r)
  <2>1. pc'[r] = "answered"
    BY <1>1 DEF Answer, Goto, Inv, TypeOK
  <2> QED
    BY <2>1, RequestAnswered
<1>2. CASE FindUser(r) /\ ~ Answer(r)
  <2>1. job[r] \in RefreshJob /\ host[r] \in Replica
    BY <1>2 DEF FindUser, At, Inv, Working, Matches, Steps
  <2>2. /\ ReadRecord(r, job[r].token.sub) /\ UNCHANGED <<job, host>>
        /\ UNCHANGED <<now, record, tokens, held>>
    BY <1>2 DEF FindUser
  <2>3. job[r].token.sub \in User /\ job[r].op = "refresh"
    BY <2>1, JobFields
  <2>4. job[r].token.sub = Subject(r)'
    BY <2>2, <2>3 DEF Subject
  <2> QED
    BY <2>1, <2>2, <2>3, <2>4, RequestHasRead
<1> QED
  BY <1>1, <1>2 DEF Sign, SetRole, Fail

LEMMA SignsIn ==
    ASSUME Inv, NEW r \in Req, NEW s \in Replica, NEW j \in SignInJob, SignIn(r, s, j)
    PROVE  RequestInv(r)'
<1>1. j.op = "signIn" /\ j.user \in User
  BY JobFields
<1>2. /\ ReadRecord(r, j.user) /\ job'[r] = j /\ host'[r] = s
      /\ UNCHANGED <<now, record, tokens, held>>
  BY DEF SignIn, Inv, TypeOK
<1>3. j.user = Subject(r)'
  BY <1>1, <1>2 DEF Subject
<1> QED
  BY <1>1, <1>2, <1>3, RequestHasRead

LEMMA RequestsStep ==
    ASSUME Inv, [Next]_vars
    PROVE  \A r \in Req : RequestInv(r)'
<1> SUFFICES ASSUME NEW r \in Req PROVE RequestInv(r)'
  OBVIOUS
<1>1. MovesOn /\ TypeOK'
  BY TypeStep, HistoryStep
<1>2. ASSUME NEW q \in Req, q # r, Answer(q)
      PROVE  RequestInv(r)'
  BY <1>1, <1>2, RequestStays DEF Answer, Goto, Inv, TypeOK
<1>3. ASSUME NEW q \in Req, q # r, NEW s \in Replica, NEW j \in BearerJobs, Authenticate(q, s, j)
      PROVE  RequestInv(r)'
  <2>1. CASE ~ Answer(q)
    BY <1>1, <1>3, <2>1, RequestStays DEF Authenticate, Goto, Inv, TypeOK
  <2> QED
    BY <1>2, <1>3, <2>1
<1>4. ASSUME NEW q \in Req, q # r, NEW s \in Replica, NEW j \in SignInJob, SignIn(q, s, j)
      PROVE  RequestInv(r)'
  BY <1>1, <1>4, RequestStays DEF SignIn, ReadRecord, Goto, Inv, TypeOK
<1>5. ASSUME NEW q \in Req, q # r, FindUser(q) \/ Sign(q) \/ SetRole(q) \/ Fail(q)
      PROVE  RequestInv(r)'
  <2>1. CASE FindUser(q) /\ ~ Answer(q)
    BY <1>1, <1>5, <2>1, RequestStays DEF FindUser, ReadRecord, Goto, Inv, TypeOK
  <2> QED
    BY <1>2, <1>5, <2>1 DEF Sign, SetRole, Fail
<1>6. CASE (\E u \in User : DeleteUser(u)) \/ Tick \/ UNCHANGED vars
  BY <1>1, <1>6, RequestStays DEF DeleteUser, Tick, vars
<1> QED
  BY <1>3, <1>4, <1>5, <1>6, LetInByToken, OwnStep, SignsIn DEF Next

LEMMA InvStep == Inv /\ [Next]_vars => Inv'
<1> SUFFICES ASSUME Inv, [Next]_vars PROVE Inv'
  OBVIOUS
<1>1. TypeOK' /\ HistoryIsTrue'
  BY TypeStep, HistoryStep
<1>2. \A r \in Req : RequestInv(r)'
  BY RequestsStep
<1>3. \A t \in tokens' : Sound(t)'
  BY SoundStep
<1> QED
  BY <1>1, <1>2, <1>3 DEF Inv, RequestInv

LEMMA Invariant == Spec => []Inv
  BY InitInv, InvStep, PTL DEF Spec

-----------------------------------------------------------------------------
(* The theorems.                                                           *)

\* Every variable of Tokens keeps its type: among other things every token
\* in circulation names a user and has a role and an expiry (jwt.Sign).
THEOREM TokensTypeCorrect == Spec => []TypeOK
<1>1. Inv => TypeOK
  BY DEF Inv
<1> QED
  BY <1>1, Invariant, PTL

\* Whatever the replicas, the clocks and the order of the requests, claims
\* that are accepted were true in the database less than a window ago
\* (jwt.Validate, RefreshJWT, JWTMiddleware).
THEOREM StalenessBoundedHolds == Spec => []StalenessBounded
<1>1. Inv => StalenessBounded
  BY ValidIsFresh DEF Inv, StalenessBounded
<1> QED
  BY <1>1, Invariant, PTL

\* Every change of a role is the work of someone who was an admin within the
\* window before the request was let in (updateRole, IsAdmin).
THEOREM RolesChangedByAdminsHolds == Spec => RolesChangedByAdmins
<1> DEFINE Step == \A u \in User : record'[u] \notin {record[u], Gone} =>
                      \E r \in Req :
                        /\ At(r, "setRole") /\ job[r].user = u
                        /\ LET t == job[r].token
                           IN at[r] < held[t.sub]["admin"] + Window(t)
<1>1. Inv /\ [Next]_vars => [Step]_vars
  <2> SUFFICES ASSUME Inv, [Next]_vars, NEW u \in User, record'[u] \notin {record[u], Gone}
               PROVE  \E r \in Req :
                        /\ At(r, "setRole") /\ job[r].user = u
                        /\ LET t == job[r].token
                           IN at[r] < held[t.sub]["admin"] + Window(t)
    OBVIOUS
  <2>1. ASSUME NEW r \in Req, SetRole(r)
        PROVE  At(r, "setRole") /\ job[r].user = u
    BY <2>1 DEF SetRole, Inv, TypeOK
  <2>2. ASSUME NEW r \in Req, At(r, "setRole")
        PROVE  at[r] < held[job[r].token.sub]["admin"] + Window(job[r].token)
    BY <2>2 DEF At, Inv, LetIn
  <2>3. ASSUME NEW v \in User, DeleteUser(v)
        PROVE  FALSE
    BY <2>3 DEF DeleteUser, Inv, TypeOK
  <2>4. PICK r \in Req : SetRole(r)
    BY <2>3 DEF Next, Authenticate, SignIn, FindUser, Sign, Fail, Tick, vars
  <2> QED
    BY <2>1, <2>2, <2>4
<1> QED
  BY <1>1, Invariant, PTL DEF Spec, RolesChangedByAdmins

\* No replica refuses a token before its lifetime is over, but for a fraction
\* of a second and the clocks (NewNumericDate).
THEOREM TokensServeTheirTimeHolds == Spec => []TokensServeTheirTime
<1>1. ASSUME Inv, NEW t \in tokens, NEW s \in Replica, ~ Valid(s, t)
      PROVE  now > t.signed + Expiry - Second - MaxAhead
  <2>1. Clock(s) \in Nat /\ Clock(s) <= now + MaxAhead /\ ~ (Clock(s) < t.exp)
    BY <1>1, ClockBound, Numbers DEF Inv, Valid
  <2>2. t.exp \in Int /\ t.signed \in Nat
    BY <1>1, TokenParts DEF Inv
  <2>3. t.signed + Expiry - (Second - 1) <= t.exp
    BY <1>1 DEF Inv, Sound
  <2> QED
    BY <1>1, <2>1, <2>2, <2>3, Numbers DEF Inv
<1>2. Inv => TokensServeTheirTime
  BY <1>1 DEF TokensServeTheirTime
<1> QED
  BY <1>2, Invariant, PTL

=============================================================================
