------------------------------- MODULE Tokens -------------------------------
(***************************************************************************)
(* JWTs after their issue: signed by one replica of the API from a user's  *)
(* record, presented to any replica until they expire, and believed there  *)
(* without a look at the record, which changes meanwhile.                  *)
(*                                                                         *)
(* Time is a counter of ticks.  A replica reads it from a clock of its own *)
(* that is Ahead[s] ticks fast; "exp" is kept in whole seconds.  Every     *)
(* request takes its time between any two of its steps.                    *)
(***************************************************************************)
EXTENDS Integers

CONSTANTS
    User,
    Replica,
    Req,        \* the requests clients make
    Expiry,     \* COURTKNIGHTS_JWT_EXPIRY, in ticks; NewWithConfig takes 0 as it is
    Second,     \* ticks in a second
    Ahead,      \* how fast the clock of each replica is
    MaxAhead,
    Gone,       \* the record of a user that was deleted
    NoJob,
    NoReplica,
    MaxTime     \* bound: the last tick explored

Role == {"admin", "user"}

\* The claims sub, role and exp of a token.  For the properties: when its
\* user's record was read, and when it was signed.
Token == [sub : User, role : Role, exp : Int, read : Nat, signed : Nat]

\* OAuthCallback, DevicePoll and ExchangePAT end in a token for a user they
\* have identified: signIn.  The other requests under a token neither change
\* a role nor issue a token.
SignInJob  == [op : {"signIn"}, user : User]
RefreshJob == [op : {"refresh"}, token : Token]
SetRoleJob == [op : {"setRole"}, token : Token, user : User, role : Role]
Job == SignInJob \cup RefreshJob \cup SetRoleJob

ASSUME TokensAssumption ==
    /\ Expiry \in Nat
    /\ Second \in Nat \ {0}
    /\ MaxAhead \in Nat
    /\ Ahead \in [Replica -> 0 .. MaxAhead]
    /\ MaxTime \in Nat
    /\ Gone \notin Role
    /\ NoJob \notin Job
    /\ NoReplica \notin Replica

VARIABLES
    now,        \* the time
    record,     \* users: the role of each user
    tokens,     \* the tokens issued so far
    pc,         \* the next step of a request, or how it was answered
    job,        \* what a request asks for
    host,       \* the replica that runs it
    seen,       \* the role in the record it has read
    at,         \* when it validated its token, or read the record since
    held        \* history: when each user last had each role, or -1

vars == <<now, record, tokens, pc, job, host, seen, at, held>>

\* The steps of a request.
Steps == {"findUser", "sign", "setRole"}

TypeOK ==
    /\ now \in 0 .. MaxTime
    /\ record \in [User -> Role \cup {Gone}]
    /\ tokens \in SUBSET Token
    /\ pc \in [Req -> Steps \cup {"idle", "answered"}]
    /\ job \in [Req -> Job \cup {NoJob}]
    /\ host \in [Req -> Replica \cup {NoReplica}]
    /\ seen \in [Req -> Role]
    /\ at \in [Req -> 0 .. MaxTime]
    /\ held \in [User -> [Role -> -1 .. MaxTime]]

Init ==
    /\ now = 0
    /\ record \in [User -> Role]
    /\ tokens = {}
    /\ pc = [r \in Req |-> "idle"]
    /\ job = [r \in Req |-> NoJob]
    /\ host = [r \in Req |-> NoReplica]
    /\ seen = [r \in Req |-> "user"]
    /\ at = [r \in Req |-> 0]
    /\ held = [u \in User |-> [x \in Role |-> IF record[u] = x THEN 0 ELSE -1]]

-----------------------------------------------------------------------------
(* The JWT adapter.                                                        *)

Clock(s) == now + Ahead[s]

\* NewNumericDate drops the fraction of a second.
WholeSeconds(t) == t - (t % Second)

ExpiryAt(s) == WholeSeconds(Clock(s) + Expiry)

\* Fault: the expiry is not compared.
ValidWhenSigned(s, t) == t \in tokens

\* Fault: the token is refused a second early.
ValidWithMargin(s, t) == Clock(s) + Second < t.exp

\* A token in circulation has a good signature; only its expiry can fail it.
Valid(s, t) == Clock(s) < t.exp

-----------------------------------------------------------------------------
(* Requests.                                                               *)

At(r, step) == pc[r] = step
Goto(r, step) == pc' = [pc EXCEPT ![r] = step]

\* What a handler knows goes with it.  The client may not get the answer.
Answer(r) ==
    /\ Goto(r, "answered")
    /\ job' = [job EXCEPT ![r] = NoJob]
    /\ host' = [host EXCEPT ![r] = NoReplica]
    /\ seen' = [seen EXCEPT ![r] = "user"]
    /\ at' = [at EXCEPT ![r] = 0]

\* Fault: a valid token is enough.
MayAnyone(j) == TRUE

\* updateRole is for admins; IsAdmin asks the claims.
May(j) == j.op = "setRole" => j.token.role = "admin"

\* JWTMiddleware, then the admin check of the handler; RefreshJWT validates
\* by itself.  What is not let in is answered 401 or 403.
Authenticate(r, s, j) ==
    /\ At(r, "idle")
    /\ \/ /\ Valid(s, j.token) /\ May(j)
          /\ Goto(r, IF j.op = "refresh" THEN "findUser" ELSE "setRole")
          /\ job' = [job EXCEPT ![r] = j]
          /\ host' = [host EXCEPT ![r] = s]
          /\ at' = [at EXCEPT ![r] = now]
          /\ UNCHANGED seen
       \/ ~ (Valid(s, j.token) /\ May(j)) /\ Answer(r)
    /\ UNCHANGED <<now, record, tokens, held>>

\* The token will be built from the record (#134).
ReadRecord(r, u) ==
    /\ record[u] # Gone
    /\ at' = [at EXCEPT ![r] = now]
    /\ seen' = [seen EXCEPT ![r] = record[u]]
    /\ Goto(r, "sign")

\* The login or the PAT has named the user.
SignIn(r, s, j) ==
    /\ At(r, "idle")
    /\ ReadRecord(r, j.user)
    /\ job' = [job EXCEPT ![r] = j]
    /\ host' = [host EXCEPT ![r] = s]
    /\ UNCHANGED <<now, record, tokens, held>>

\* RefreshJWT, once it has validated the token.
FindUser(r) ==
    /\ At(r, "findUser")
    /\ LET u == job[r].token.sub IN
       \/ ReadRecord(r, u) /\ UNCHANGED <<job, host>>
       \/ record[u] = Gone /\ Answer(r)
    /\ UNCHANGED <<now, record, tokens, held>>

Subject(r) == IF job[r].op = "signIn" THEN job[r].user ELSE job[r].token.sub

\* Fault: the role is left out of the claims.
ClaimsWithoutRole(r) ==
    [sub |-> Subject(r), exp |-> ExpiryAt(host[r]), read |-> at[r], signed |-> now]

Claims(r) ==
    [sub |-> Subject(r), role |-> seen[r], exp |-> ExpiryAt(host[r]),
     read |-> at[r], signed |-> now]

Sign(r) ==
    /\ At(r, "sign")
    /\ tokens' = tokens \cup {Claims(r)}
    /\ Answer(r)
    /\ UNCHANGED <<now, record, held>>

\* updateRole writes whatever happened to the admin since the check.
SetRole(r) ==
    /\ At(r, "setRole")
    /\ LET u == job[r].user
           x == job[r].role
       IN \/ /\ record[u] # Gone
             /\ record' = [record EXCEPT ![u] = x]
             /\ held' = [held EXCEPT ![u][x] = now]
          \/ record[u] = Gone /\ UNCHANGED <<record, held>>
    /\ Answer(r)
    /\ UNCHANGED <<now, tokens>>

\* A failed call, a cancelled request or a lost answer.
Fail(r) ==
    /\ pc[r] \in Steps
    /\ Answer(r)
    /\ UNCHANGED <<now, record, tokens, held>>

(* The operator's DELETE FROM users, and time.                             *)

DeleteUser(u) ==
    /\ record[u] # Gone
    /\ record' = [record EXCEPT ![u] = Gone]
    /\ UNCHANGED <<now, tokens, pc, job, host, seen, at, held>>

Tick ==
    /\ now < MaxTime
    /\ now' = now + 1
    /\ held' = [u \in User |-> [x \in Role |->
                  IF record[u] = x THEN now + 1 ELSE held[u][x]]]
    /\ UNCHANGED <<record, tokens, pc, job, host, seen, at>>

-----------------------------------------------------------------------------

\* A client has the tokens that were issued, and no others.
BearerJobs ==
    [op : {"refresh"}, token : tokens]
    \cup [op : {"setRole"}, token : tokens, user : User, role : Role]

Next ==
    \/ \E r \in Req : FindUser(r) \/ Sign(r) \/ SetRole(r) \/ Fail(r)
    \/ \E r \in Req, s \in Replica :
          \/ \E j \in BearerJobs : Authenticate(r, s, j)
          \/ \E j \in SignInJob : SignIn(r, s, j)
    \/ \E u \in User : DeleteUser(u)
    \/ Tick

Spec == Init /\ [][Next]_vars

-----------------------------------------------------------------------------
(* Properties.                                                             *)

\* How long the claims of a token can be out of date: its lifetime, what
\* passed between the reading of the record and the signature, and what the
\* clocks of two replicas differ by.
Window(t) == Expiry + (t.signed - t.read) + MaxAhead

\* Nobody acts on claims that are out of date by more than the window: a token
\* that some replica still accepts has the role that the database had for its
\* user at some moment of it.  In particular a demoted or deleted admin is an
\* admin to the API for that long and no longer, however often the token is
\* refreshed.
StalenessBounded ==
    \A t \in tokens, s \in Replica :
        Valid(s, t) => now < held[t.sub][t.role] + Window(t)

\* Each change of a role is the work of a request let in with a token of
\* someone who was an admin, in the database, within the window before.
RolesChangedByAdmins ==
    [][\A u \in User : record'[u] \notin {record[u], Gone} =>
          \E r \in Req :
            /\ At(r, "setRole") /\ job[r].user = u
            /\ LET t == job[r].token IN at[r] < held[t.sub]["admin"] + Window(t)]_vars

\* A token serves its time: no replica refuses it before its lifetime is
\* over, less the fraction of a second that exp drops and what the clocks
\* differ by.
TokensServeTheirTime ==
    \A t \in tokens, s \in Replica :
        ~ Valid(s, t) => now > t.signed + Expiry - Second - MaxAhead
=============================================================================
