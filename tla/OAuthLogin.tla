----------------------------- MODULE OAuthLogin -----------------------------
(***************************************************************************)
(* Signing in with an OAuth2 provider: the redirect flow and the device    *)
(* flow, from the code to the answer of the API.                           *)
(*                                                                         *)
(* Three parties: clients, which call the API (a CLI that polls, a browser *)
(* that may load the callback twice); the API, which keeps nothing between *)
(* calls; and the provider, here tools/oauthfake, whose store handles one  *)
(* call at a time.  Between the provider's answer and the API's there is   *)
(* room for other calls, for time, and for a provider that restarts and    *)
(* forgets.  The accounts behind the login are in module Accounts.         *)
(***************************************************************************)
EXTENDS Naturals

CONSTANTS
    Provider, Person,
    EmailsApart,    \* the providers with a second call for the emails: GitHub
    DeviceCode, AuthCode,
    Req,            \* clients: a device poller, or one load of the callback
    TTL,            \* --code-ttl
    Second,         \* the ticks of a second; every time below is in ticks
    Interval,       \* --device-interval, which need not be whole seconds
    SlowDown,       \* what slow_down adds to the interval: 5 seconds
    MaxTime,        \* bound: the last instant, which stands for all later ones
    MayRestart,     \* bound: whether the provider may lose its memory
    Unused, NoOne, NoJob, Never, Foreign

Code == DeviceCode \cup AuthCode
Time == 0 .. MaxTime
Identity == [person : Person, verified : BOOLEAN]

\* An authorization code is an approved device code without polls.
Row == [provider : Provider, status : {"pending", "approved", "denied"},
        identity : Identity \cup {NoOne}, expiresAt : Time,
        interval : Nat, lastPoll : Time \cup {Never}, spent : BOOLEAN]

Job == [provider : Provider, code : Code]

ASSUME OAuthAssumption ==
    /\ EmailsApart \subseteq Provider
    /\ DeviceCode \cap AuthCode = {}
    /\ TTL \in Nat /\ Interval \in Nat /\ SlowDown \in Nat /\ MaxTime \in Nat
    /\ Second \in Nat \ {0}
    /\ MayRestart \in BOOLEAN
    /\ Unused \notin Row
    /\ NoOne \notin Identity \cup Person \cup Code
    /\ NoJob \notin Job
    /\ Never \notin Time
    /\ Foreign \notin Code \cup {NoOne}

VARIABLES
    now,
    codes,      \* the provider's store: code -> row
    forgotten,  \* codes that were issued before the provider's restart
    pc,         \* the next step of a request, or the answer of the API
    job,        \* the code and provider a client sends
    reply,      \* the provider's answer
    who,        \* the person the provider's userinfo names
    client      \* a poller's own interval, and when it will poll again

store == <<codes, forgotten>>
vars  == <<now, store, pc, job, reply, who, client>>

Steps == {"ask", "receive", "userInfo", "emails", "login"}
Again == {"pending", "slowDown"}
Final == {"denied", "expired", "invalid", "unverified", "emailTaken", "token", "failed"}
Replies == Again \cup {"denied", "expired", "invalid", "granted"}

TypeOK ==
    /\ now \in Time
    /\ codes \in [Code -> Row \cup {Unused}]
    /\ forgotten \subseteq Code
    /\ pc \in [Req -> {"idle"} \cup Steps \cup Again \cup Final]
    /\ job \in [Req -> Job \cup {NoJob}]
    /\ reply \in [Req -> Replies \cup {"none"}]
    /\ who \in [Req -> Person \cup {NoOne}]
    /\ client \in [Req -> [interval : Nat, due : Nat]]

\* What clients are told of the interval: int(interval.Seconds()) drops the
\* fraction of a second, and the API hands the integer on.
Fraction == Interval % Second
Announced == Interval - Fraction

Init ==
    /\ now = 0
    /\ codes = [c \in Code |-> Unused]
    /\ forgotten = {}
    /\ pc = [r \in Req |-> "idle"]
    /\ job = [r \in Req |-> NoJob]
    /\ reply = [r \in Req |-> "none"]
    /\ who = [r \in Req |-> NoOne]
    /\ client = [r \in Req |-> [interval |-> Announced, due |-> 0]]

-----------------------------------------------------------------------------
(* The provider's store.                                                   *)

Issued(c) == codes[c] # Unused
Expired(c) == now > codes[c].expiresAt

Issue(c, p, status, i) ==
    /\ ~ Issued(c)
    /\ now + TTL < MaxTime
    /\ codes' = [codes EXCEPT ![c] =
          [provider |-> p, status |-> status, identity |-> i, expiresAt |-> now + TTL,
           interval |-> IF c \in DeviceCode THEN Interval ELSE 0,
           lastPoll |-> Never, spent |-> FALSE]]
    /\ UNCHANGED <<now, forgotten, pc, job, reply, who, client>>

\* Fault: the status is left at its zero value, a word no switch knows.
StartDeviceWithoutStatus(c, p) == c \in DeviceCode /\ Issue(c, p, "", NoOne)

\* deviceAuth, DeviceInit, DeviceAuth, startDevice.  The row keeps the whole
\* interval, the client who is given the code the announced one.
StartDevice(c, p) == c \in DeviceCode /\ Issue(c, p, "pending", NoOne)

\* authorizeForm, authorizeSubmit, issueCode.
IssueCode(c, p, i) == c \in AuthCode /\ Issue(c, p, "approved", i)

\* resolveDevice, on the page of the code's own provider.
Resolve(c, status, i) ==
    /\ c \in DeviceCode
    /\ Issued(c) /\ c \notin forgotten
    /\ codes[c].status = "pending" /\ ~ Expired(c)
    /\ codes' = [codes EXCEPT ![c].status = status, ![c].identity = i]
    /\ UNCHANGED <<now, forgotten, pc, job, reply, who, client>>

\* Codes and tokens are held in memory.
Restart ==
    /\ MayRestart /\ forgotten = {}
    /\ forgotten' = {c \in Code : Issued(c)}
    /\ UNCHANGED <<now, codes, pc, job, reply, who, client>>

Known(j) == Issued(j.code) /\ j.code \notin forgotten

\* Faults: the provider of the code, or its earlier use, is not looked at.
RedeemableAnywhere(j) == Known(j) /\ ~ codes[j.code].spent
RedeemableTwice(j) == Known(j) /\ codes[j.code].provider = j.provider

Redeemable(j) ==
    /\ Known(j)
    /\ codes[j.code].provider = j.provider
    /\ ~ codes[j.code].spent

TooFast(c) == codes[c].lastPoll # Never /\ now < codes[c].lastPoll + codes[c].interval

\* Fault: the pace is checked before the decision.
OutcomePaceFirst(c) ==
    CASE TooFast(c) -> "slowDown"
      [] ~ TooFast(c) /\ codes[c].status = "denied" -> "denied"
      [] ~ TooFast(c) /\ codes[c].status = "approved" -> "granted"
      [] ~ TooFast(c) /\ codes[c].status = "pending" -> "pending"

\* What a poll in time is told.
Outcome(c) ==
    CASE codes[c].status = "denied" -> "denied"
      [] codes[c].status = "approved" -> "granted"
      [] codes[c].status = "pending" -> IF TooFast(c) THEN "slowDown" ELSE "pending"

-----------------------------------------------------------------------------
(* The requests of clients, through the API.                               *)

At(r, step) == pc[r] = step
Goto(r, step) == pc' = [pc EXCEPT ![r] = step]

Begin(r, j) ==
    /\ At(r, "idle")
    /\ Issued(j.code)
    /\ job' = [job EXCEPT ![r] = j]
    /\ Goto(r, "ask")
    /\ UNCHANGED <<now, store, reply, who, client>>

\* The poller waits for its interval, and asks again.
PollAgain(r) ==
    /\ pc[r] \in Again
    /\ now >= client[r].due \/ now = MaxTime
    /\ reply' = [reply EXCEPT ![r] = "none"]
    /\ Goto(r, "ask")
    /\ UNCHANGED <<now, store, job, who, client>>

Reply(r, a) ==
    /\ reply' = [reply EXCEPT ![r] = a]
    /\ Goto(r, "receive")
    /\ UNCHANGED <<now, forgotten, job, who, client>>

\* pollDevice.
PollDevice(r) ==
    /\ At(r, "ask") /\ job[r].code \in DeviceCode
    /\ LET c == job[r].code
       IN \/ ~ Redeemable(job[r]) /\ Reply(r, "invalid") /\ UNCHANGED codes
          \/ Redeemable(job[r]) /\ Expired(c) /\ Reply(r, "expired") /\ UNCHANGED codes
          \/ /\ Redeemable(job[r]) /\ ~ Expired(c)
             /\ Reply(r, Outcome(c))
             /\ codes' = [codes EXCEPT
                   ![c].lastPoll = now,
                   ![c].spent = Outcome(c) = "granted",
                   ![c].interval = IF Outcome(c) = "slowDown" THEN @ + SlowDown ELSE @]

\* redeemCode: any attempt at the right provider uses the code up.
RedeemCode(r) ==
    /\ At(r, "ask") /\ job[r].code \in AuthCode
    /\ LET c == job[r].code
       IN \/ ~ Redeemable(job[r]) /\ Reply(r, "invalid") /\ UNCHANGED codes
          \/ /\ Redeemable(job[r])
             /\ Reply(r, IF Expired(c) THEN "invalid" ELSE "granted")
             /\ codes' = [codes EXCEPT ![c].spent = TRUE]

\* Fault: every error of the provider is answered with 202, poll again.
ReceiveAnyErrorAsPending(r) ==
    /\ At(r, "receive")
    /\ Goto(r, IF reply[r] = "granted" THEN "userInfo" ELSE "pending")
    /\ client' = [client EXCEPT ![r].due = now + client[r].interval]
    /\ UNCHANGED <<now, store, job, reply, who>>

\* Fault: slow_down is answered with authorization_pending.
ReceiveSlowDownAsPending(r) ==
    /\ At(r, "receive")
    /\ Goto(r, IF reply[r] = "granted" THEN "userInfo"
               ELSE IF reply[r] = "slowDown" THEN "pending"
               ELSE IF job[r].code \in DeviceCode THEN reply[r] ELSE "failed")
    /\ client' = [client EXCEPT ![r].due =
          IF reply[r] \in Again THEN now + client[r].interval ELSE @]
    /\ UNCHANGED <<now, store, job, reply, who>>

\* pollDeviceToken, deviceTokenStatus: each error has its answer, and 202
\* has the poller wait.  In the redirect flow every error is a 401.
Receive(r) ==
    /\ At(r, "receive")
    /\ Goto(r, IF reply[r] = "granted" THEN "userInfo"
               ELSE IF job[r].code \in DeviceCode THEN reply[r] ELSE "failed")
    /\ LET interval == client[r].interval + (IF reply[r] = "slowDown" THEN SlowDown ELSE 0)
       IN client' = [client EXCEPT ![r] =
             IF reply[r] \in Again THEN [interval |-> interval, due |-> now + interval]
             ELSE client[r]]
    /\ UNCHANGED <<now, store, job, reply, who>>

\* The provider knows the access token, unless it has restarted since.
TokenKnown(r) == job[r].code \notin forgotten

Approver(r) == codes[job[r].code].identity

\* Fault: the email is trusted as it is.
UserInfoUnverified(r) ==
    /\ At(r, "userInfo") /\ job[r].provider \notin EmailsApart
    /\ who' = [who EXCEPT ![r] = Approver(r).person]
    /\ Goto(r, "login")
    /\ UNCHANGED <<now, store, job, reply, client>>

\* fetchUserInfo of Google: one call tells the person and their email.
UserInfo(r) ==
    /\ At(r, "userInfo") /\ job[r].provider \notin EmailsApart
    /\ \/ ~ TokenKnown(r) /\ Goto(r, "failed") /\ UNCHANGED who
       \/ TokenKnown(r) /\ ~ Approver(r).verified /\ Goto(r, "unverified") /\ UNCHANGED who
       \/ /\ TokenKnown(r) /\ Approver(r).verified
          /\ who' = [who EXCEPT ![r] = Approver(r).person]
          /\ Goto(r, "login")
    /\ UNCHANGED <<now, store, job, reply, client>>

\* fetchUserInfo of GitHub: GET /user tells the person, ...
GetUser(r) ==
    /\ At(r, "userInfo") /\ job[r].provider \in EmailsApart
    /\ \/ ~ TokenKnown(r) /\ Goto(r, "failed") /\ UNCHANGED who
       \/ /\ TokenKnown(r)
          /\ who' = [who EXCEPT ![r] = Approver(r).person]
          /\ Goto(r, "emails")
    /\ UNCHANGED <<now, store, job, reply, client>>

\* ... GET /user/emails whether their primary email is verified.
GetEmails(r) ==
    /\ At(r, "emails")
    /\ \/ ~ TokenKnown(r) /\ Goto(r, "failed")
       \/ TokenKnown(r) /\ ~ Approver(r).verified /\ Goto(r, "unverified")
       \/ TokenKnown(r) /\ Approver(r).verified /\ Goto(r, "login")
    /\ UNCHANGED <<now, store, job, reply, who, client>>

FetchUserInfo(r) == UserInfo(r) \/ GetUser(r) \/ GetEmails(r)

\* ResolveByOAuth, EnsureExists and Sign: see Accounts.
Login(r) ==
    /\ At(r, "login")
    /\ \E a \in {"token", "emailTaken", "failed"} : Goto(r, a)
    /\ UNCHANGED <<now, store, job, reply, who, client>>

\* A call that fails, or whose answer is lost; the client is told 401.
Fail(r) ==
    /\ pc[r] \in Steps
    /\ Goto(r, "failed")
    /\ UNCHANGED <<now, store, job, reply, who, client>>

Tick ==
    /\ now < MaxTime
    /\ now' = now + 1
    /\ UNCHANGED <<store, pc, job, reply, who, client>>

RequestStep(r) ==
    \/ PollDevice(r) \/ RedeemCode(r) \/ Receive(r)
    \/ FetchUserInfo(r) \/ Login(r)

Next ==
    \/ \E c \in Code, p \in Provider : StartDevice(c, p) \/ \E i \in Identity : IssueCode(c, p, i)
    \/ \E c \in Code : Resolve(c, "denied", NoOne)
                       \/ \E i \in Identity : Resolve(c, "approved", i)
    \/ \E r \in Req : RequestStep(r) \/ PollAgain(r) \/ Fail(r)
    \/ \E r \in Req, j \in Job : Begin(r, j)
    \/ Restart
    \/ Tick

Spec == Init /\ [][Next]_vars

\* Handlers run on, pollers keep polling while they are answered 202, and
\* time passes.
Fairness ==
    /\ \A r \in Req : WF_vars(RequestStep(r)) /\ WF_vars(PollAgain(r))
    /\ WF_vars(Tick)

FairSpec == Spec /\ Fairness

-----------------------------------------------------------------------------
(* Properties.                                                             *)

\* A code is redeemed by one request at most, whichever polls or loads of
\* the callback race for it.
OneRequestPerCode ==
    \A q, r \in Req :
        reply[q] = "granted" /\ reply[r] = "granted" /\ job[q].code = job[r].code => q = r

\* A login that got past the provider is for the person who approved this
\* very code, at this very provider, with an email the provider has verified
\* (#131), although the client names code and provider separately.
LoginIsApproved ==
    \A r \in Req : pc[r] \in {"login", "token", "emailTaken"} =>
        LET row == codes[job[r].code]
        IN /\ row.status = "approved"
           /\ row.provider = job[r].provider
           /\ row.identity = [person |-> who[r], verified |-> TRUE]

\* A poller that keeps to the announced interval, adds to it what slow_down
\* asks for, and is alone with its code, is told to slow down only for the
\* fraction of a second that the announcement drops: its poll is early, but by
\* no more than that.  With an interval of whole seconds, never.
Alone(r) == \A q \in Req \ {r} : ~ (job[q] # NoJob /\ job[q].code = job[r].code)

NextPollOf(row) == row.lastPoll + row.interval

SlowDownOnlyForTheFraction ==
    [][\A r \in Req : reply[r] = "none" /\ reply'[r] = "slowDown" /\ Alone(r) =>
          LET due == NextPollOf(codes[job[r].code])
          IN now < due /\ due <= now + Fraction]_vars

\* What a request is told of its code is the truth at some moment while it
\* was asked, and a code goes its way once: approved or denied while pending,
\* never after its time, and granted to one request.
Standing(c) ==
    IF ~ Issued(c) THEN "none"
    ELSE IF c \in forgotten \/ codes[c].spent THEN "spent"
    ELSE IF Expired(c) THEN "lapsed" ELSE codes[c].status
Standings == [c \in Code |-> Standing(c)]
Asked == [r \in Req |-> IF job[r] = NoJob THEN NoOne
                        ELSE IF codes[job[r].code].provider = job[r].provider
                        THEN job[r].code ELSE Foreign]

Granted == INSTANCE Grants WITH
    OneTry <- AuthCode,
    grant <- Standings,
    asked <- Asked,
    told <- reply

AnswersAreTrue == Granted!Spec

\* Polling ends: every client gets a final answer.
PollingEnds == \A r \in Req : ~ At(r, "idle") ~> pc[r] \in Final
=============================================================================
