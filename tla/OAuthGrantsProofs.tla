------------------------- MODULE OAuthGrantsProofs --------------------------
(***************************************************************************)
(* The flows of OAuthLogin implement the promise of Grants, for any number *)
(* of providers, codes and clients: each step of the flows is the step of  *)
(* Grants named by a lemma below, or a stutter.                            *)
(***************************************************************************)
EXTENDS OAuthLoginProofs

\* While the jobs stay and rows keep their provider, so do the questions.
LEMMA AskedStays ==
    ASSUME Inv, RowsGoOn, UNCHANGED job
    PROVE  Asked' = Asked
<1>1. ASSUME NEW r \in Req, job[r] # NoJob
      PROVE  codes'[job[r].code].provider = codes[job[r].code].provider
  BY <1>1 DEF Inv, TypeOK, Consistent, RowsGoOn, Job
<1> QED
  BY <1>1 DEF Asked

LEMMA StandingOfRow ==
    ASSUME Inv, NEW c \in Code
    PROVE  /\ Standing(c) \in {"none", "pending", "approved", "denied", "spent", "lapsed"}
           /\ Standing(c) = "none" <=> ~ Issued(c)
           /\ Standing(c) = "spent" <=> Issued(c) /\ (c \in forgotten \/ codes[c].spent)
  BY RowType DEF Inv, Standing

LEMMA GrantsInit == Init => Granted!Init
  BY DEF Init, Granted!Init, Standings, Standing, Asked, Issued

\* One standing changes.
LEMMA BecomesOfRow ==
    ASSUME Inv, RowsGoOn, NEW c \in Code, UNCHANGED <<now, forgotten, job, reply>>,
           \A d \in Code \ {c} : codes'[d] = codes[d]
    PROVE  /\ Standings' = [Standings EXCEPT ![c] = Standing(c)']
           /\ Asked' = Asked /\ UNCHANGED reply
<1>1. \A d \in Code \ {c} : Standing(d)' = Standing(d)
  BY DEF Standing, Issued, Expired
<1> QED
  BY <1>1, AskedStays DEF Standings

LEMMA IssueIsIssue ==
    ASSUME Inv, RowsGoOn, NEW c \in Code, NEW p, NEW i,
           NEW status \in {"pending", "approved"},
           status = (IF c \in AuthCode THEN "approved" ELSE "pending"),
           Issue(c, p, status, i), Issued(c)'
    PROVE  Granted!Issue(c)
<1>1. /\ codes'[c].status = status /\ codes'[c].expiresAt = now + TTL
      /\ codes'[c].spent = FALSE /\ \A d \in Code \ {c} : codes'[d] = codes[d]
      /\ ~ Issued(c) /\ UNCHANGED <<now, forgotten, job, reply>>
  BY DEF Issue, Inv, TypeOK
<1>2. Standing(c) = "none" /\ c \notin forgotten
  BY <1>1 DEF Standing, Inv
<1>3. now \in Nat /\ ~ (now > now + TTL)
  BY OAuthAssumption DEF Inv, TypeOK, Time
<1>4. Standing(c)' = status
  BY <1>1, <1>2, <1>3 DEF Standing, Expired
<1> QED
  BY <1>1, <1>2, <1>4, BecomesOfRow DEF Granted!Issue, Granted!Becomes, Standings

LEMMA ResolveIsApproveOrDeny ==
    ASSUME Inv, RowsGoOn, NEW c \in Code, NEW status \in {"denied", "approved"}, NEW i,
           Resolve(c, status, i)
    PROVE  Granted!Approve(c) \/ Granted!Deny(c)
<1>1. /\ codes'[c].status = status /\ codes'[c].expiresAt = codes[c].expiresAt
      /\ codes'[c].spent = codes[c].spent /\ ~ codes[c].spent
      /\ \A d \in Code \ {c} : codes'[d] = codes[d]
      /\ Issued(c) /\ UNCHANGED <<now, forgotten, job, reply>>
  <2>1. codes[c] \in Row /\ codes[c].status = "pending" /\ ~ codes[c].spent
        /\ codes[c].spent \in BOOLEAN
    BY RowType DEF Resolve, Inv, Sound
  <2>2. codes' = [codes EXCEPT ![c] = [codes[c] EXCEPT !.status = status, !.identity = i]]
    BY DEF Resolve, Inv, TypeOK
  <2> QED
    BY <2>1, <2>2 DEF Resolve, Inv, TypeOK, Row
<1>2. Standing(c) = "pending" /\ c \notin forgotten
  BY <1>1 DEF Resolve, Standing
<1>3. Standing(c)' = status
  BY <1>1, <1>2 DEF Resolve, Standing, Expired, RowsGoOn
<1> QED
  BY <1>1, <1>2, <1>3, BecomesOfRow
     DEF Granted!Approve, Granted!Deny, Granted!Becomes, Standings

LEMMA RestartIsForget ==
    ASSUME Inv, RowsGoOn, Restart
    PROVE  Granted!Forget
<1>1. \A c \in Code : Standing(c)' = IF Standing(c) = "none" THEN "none" ELSE "spent"
  BY StandingOfRow DEF Restart, Standing, Issued
<1> QED
  BY <1>1, AskedStays DEF Restart, Standings, Granted!Forget

LEMMA TickIsLapse ==
    ASSUME Inv, RowsGoOn, Tick
    PROVE  Granted!Lapse({c \in Code : Standing(c)' # Standing(c)})
<1> DEFINE S == {c \in Code : Standing(c)' # Standing(c)}
<1>1. UNCHANGED <<codes, forgotten, job, reply>> /\ now \in Nat /\ now' = now + 1
  BY DEF Tick, store, Inv, TypeOK, Time
<1>2. ASSUME NEW c \in S
      PROVE  Standing(c) \in {"pending", "approved", "denied"} /\ Standing(c)' = "lapsed"
  <2>1. Issued(c) => codes[c].expiresAt \in Nat /\ codes[c].status \in {"pending", "approved", "denied"}
    BY RowType DEF Inv
  <2> QED
    BY <1>1, <1>2, <2>1 DEF Standing, Issued, Expired
<1>3. Standings' = [c \in Code |-> IF c \in S THEN "lapsed" ELSE Standings[c]]
  BY <1>2 DEF Standings
<1> QED
  BY <1>1, <1>2, <1>3, AskedStays DEF Granted!Lapse, Standings

LEMMA AskIsAsk ==
    ASSUME Inv, RowsGoOn, NEW r \in Req, PollAgain(r) \/ \E j \in Job : Begin(r, j)
    PROVE  \E c \in Code \cup {Foreign} : Granted!Ask(r, c)
<1>1. Standings' = Standings
  BY DEF PollAgain, Begin, store, Standings, Standing, Issued, Expired
<1>2. CASE PollAgain(r)
  <2>1. job[r] # NoJob /\ reply[r] \in Again /\ Asked' = Asked
        /\ reply' = [reply EXCEPT ![r] = "none"]
    BY <1>2, AskedStays DEF PollAgain, Inv, Consistent, Again
  <2>2. Asked[r] \in Code \cup {Foreign} /\ Asked = [Asked EXCEPT ![r] = Asked[r]]
    BY <2>1 DEF Asked, Inv, TypeOK, Job
  <2> QED
    BY <1>1, <2>1, <2>2 DEF Granted!Ask, Again
<1>3. ASSUME NEW j \in Job, Begin(r, j)
      PROVE  \E c \in Code \cup {Foreign} : Granted!Ask(r, c)
  <2>1. /\ job[r] = NoJob /\ reply[r] = "none" /\ j # NoJob /\ j.code \in Code
        /\ job' = [job EXCEPT ![r] = j] /\ UNCHANGED <<codes, reply>>
    BY <1>3, OAuthAssumption DEF Begin, At, Inv, Consistent, store, Job
  <2> DEFINE c == IF codes[j.code].provider = j.provider THEN j.code ELSE Foreign
  <2>2. Asked[r] = NoOne /\ Asked' = [Asked EXCEPT ![r] = c] /\ c \in Code \cup {Foreign}
    BY <2>1 DEF Asked, Inv, TypeOK
  <2>3. reply' = [reply EXCEPT ![r] = "none"]
    BY <2>1 DEF Inv, TypeOK
  <2> QED
    BY <1>1, <2>1, <2>2, <2>3 DEF Granted!Ask
<1> QED
  BY <1>2, <1>3

LEMMA RedeemIsAnswer ==
    ASSUME Inv, RowsGoOn, NEW r \in Req, PollDevice(r) \/ RedeemCode(r)
    PROVE  Granted!Answer(r)
<1> DEFINE c == job[r].code
<1>1. /\ pc[r] = "ask" /\ reply[r] = "none" /\ job[r] # NoJob /\ c \in Code /\ Issued(c)
      /\ UNCHANGED <<now, forgotten, job>> /\ Asked' = Asked
  <2>1. pc[r] = "ask" /\ UNCHANGED <<now, forgotten, job>>
    BY DEF PollDevice, RedeemCode, Reply, At
  <2>2. reply[r] = "none" /\ job[r] # NoJob /\ Issued(c)
    BY <2>1 DEF Inv, Consistent
  <2> QED
    BY <2>1, <2>2, AskedStays DEF Inv, TypeOK, Job
<1>2. Asked[r] = IF codes[c].provider = job[r].provider THEN c ELSE Foreign
  BY <1>1 DEF Asked
<1>3. CASE ~ Redeemable(job[r])
  <2>1. UNCHANGED codes /\ reply' = [reply EXCEPT ![r] = "invalid"]
    BY <1>3 DEF PollDevice, RedeemCode, Reply
  <2>2. Standings' = Standings
    BY <1>1, <2>1 DEF Standings, Standing, Issued, Expired
  <2>3. CASE codes[c].provider # job[r].provider
    BY <1>1, <1>2, <2>1, <2>2, <2>3 DEF Granted!Answer
  <2>4. CASE codes[c].provider = job[r].provider
    <3>1. Standings[c] = "spent" /\ Standings = [Standings EXCEPT ![c] = "spent"]
      <4>1. c \in forgotten \/ codes[c].spent
        BY <1>1, <1>3, <2>4 DEF Redeemable, Known
      <4>2. Standing(c) = "spent"
        BY <1>1, <4>1 DEF Standing
      <4> QED
        BY <1>1, <4>2 DEF Standings
    <3>2. "invalid" \in Granted!Truth(c)
      BY <3>1 DEF Granted!Truth
    <3>3. reply'[r] = "invalid"
      BY <2>1 DEF Inv, TypeOK
    <3> QED
      BY <1>1, <1>2, <2>1, <2>2, <2>4, <3>1, <3>2, <3>3 DEF Granted!Answer
  <2> QED
    BY <2>3, <2>4
<1>4. ASSUME Redeemable(job[r]), NEW a \in Granted!Truth(c),
             reply' = [reply EXCEPT ![r] = a],
             \A d \in Code \ {c} : codes'[d] = codes[d],
             Standing(c)' = IF a = "granted" \/ c \in AuthCode THEN "spent" ELSE Standing(c)
      PROVE  Granted!Answer(r)
  <2>1. Asked[r] = c /\ a = reply'[r]
    BY <1>1, <1>2, <1>4 DEF Redeemable, Inv, TypeOK
  <2>2. Standings' = [Standings EXCEPT ![c] = IF reply'[r] = "granted" \/ c \in AuthCode
                                              THEN "spent" ELSE Standings[c]]
    <3>1. \A d \in Code \ {c} : Standing(d)' = Standing(d)
      BY <1>1, <1>4 DEF Standing, Issued, Expired
    <3> QED
      BY <1>1, <1>4, <2>1, <3>1 DEF Standings
  <2> QED
    BY <1>1, <1>4, <2>1, <2>2 DEF Granted!Answer
<1>5. CASE Redeemable(job[r]) /\ PollDevice(r)
  <2>1. c \in DeviceCode /\ c \notin AuthCode /\ c \notin forgotten /\ ~ codes[c].spent
    BY <1>5, OAuthAssumption DEF PollDevice, Redeemable, Known
  <2>2. CASE Expired(c)
    <3>1. UNCHANGED codes /\ reply' = [reply EXCEPT ![r] = "expired"]
      BY <1>5, <2>2 DEF PollDevice, Reply
    <3>2. Standing(c) = "lapsed" /\ Standing(c)' = "lapsed" /\ "expired" \in Granted!Truth(c)
      BY <1>1, <2>1, <2>2, <3>1 DEF Standing, Issued, Expired, Granted!Truth, Standings
    <3> QED
      BY <1>4, <1>5, <2>1, <3>1, <3>2
  <2>3. CASE ~ Expired(c)
    <3> DEFINE a == Outcome(c)
    <3>1. /\ reply' = [reply EXCEPT ![r] = a]
          /\ codes' = [codes EXCEPT
                ![c].lastPoll = now, ![c].spent = a = "granted",
                ![c].interval = IF a = "slowDown" THEN @ + SlowDown ELSE @]
      BY <1>5, <2>3 DEF PollDevice, Reply
    <3>2. Standing(c) = codes[c].status
      BY <1>1, <2>1, <2>3 DEF Standing
    <3>3. a \in Granted!Truth(c)
      BY <1>1, <3>2, RowType DEF Granted!Truth, Standings, Outcome, Inv
    <3>4. /\ codes'[c].status = codes[c].status /\ codes'[c].expiresAt = codes[c].expiresAt
          /\ codes'[c].spent = (a = "granted")
          /\ \A d \in Code \ {c} : codes'[d] = codes[d]
      <4>1. codes[c] \in Row
        BY <1>1, RowType DEF Inv
      <4> HIDE DEF a
      <4> QED
        BY <1>1, <3>1, <4>1 DEF Inv, TypeOK, Row
    <3>5. Issued(c)'
      BY <1>1 DEF RowsGoOn
    <3>6. Standing(c)' = IF a = "granted" THEN "spent" ELSE codes[c].status
      <4> HIDE DEF a
      <4> QED
        BY <1>1, <2>1, <2>3, <3>4, <3>5 DEF Standing, Expired
    <3> QED
      BY <1>4, <1>5, <2>1, <3>1, <3>2, <3>3, <3>4, <3>6
  <2> QED
    BY <2>2, <2>3
<1>6. CASE Redeemable(job[r]) /\ RedeemCode(r)
  <2> DEFINE a == IF Expired(c) THEN "invalid" ELSE "granted"
  <2>1. /\ c \in AuthCode /\ c \notin forgotten /\ ~ codes[c].spent
        /\ reply' = [reply EXCEPT ![r] = a]
        /\ codes' = [codes EXCEPT ![c].spent = TRUE]
    BY <1>6 DEF RedeemCode, Redeemable, Known, Reply
  <2>2. a \in Granted!Truth(c)
    <3>1. codes[c].status = "approved"
      BY <1>1, <2>1 DEF Inv, Sound
    <3>2. Standing(c) = IF Expired(c) THEN "lapsed" ELSE "approved"
      BY <1>1, <2>1, <3>1 DEF Standing
    <3> QED
      BY <1>1, <2>1, <3>2 DEF Granted!Truth, Standings
  <2>3. codes'[c].spent /\ \A d \in Code \ {c} : codes'[d] = codes[d]
    BY <1>1, <2>1, RowType DEF Inv, TypeOK, Row
  <2>4. Standing(c)' = "spent"
    BY <1>1, <2>3 DEF Standing, RowsGoOn
  <2> QED
    BY <1>4, <1>6, <2>1, <2>2, <2>3, <2>4
<1> QED
  BY <1>3, <1>5, <1>6

\* What a request is told of its code is the truth at some moment while it
\* was asked: the flows, with a provider that may forget everything, are an
\* implementation of one-time, limited grants.
THEOREM AnswersAreTrueHolds == Spec => AnswersAreTrue
<1>1. Inv /\ [Next]_vars => [Granted!Next]_(Granted!vars)
  <2> SUFFICES ASSUME Inv, [Next]_vars PROVE [Granted!Next]_(Granted!vars)
    OBVIOUS
  <2>1. ASSUME NEW c \in Code, NEW p \in Provider,
               StartDevice(c, p) \/ \E i \in Identity : IssueCode(c, p, i)
        PROVE  Granted!Next
    <3>1. CASE StartDevice(c, p)
      <4>1. Issue(c, p, "pending", NoOne) /\ c \notin AuthCode
        BY <3>1, OAuthAssumption DEF StartDevice
      <4>2. RowsGoOn /\ Issued(c)'
        BY <4>1, IssueStep
      <4> QED
        BY <4>1, <4>2, IssueIsIssue DEF Granted!Next
    <3>2. ASSUME NEW i \in Identity, IssueCode(c, p, i)
          PROVE  Granted!Next
      <4>1. Issue(c, p, "approved", i) /\ c \in AuthCode
        BY <3>2 DEF IssueCode
      <4>2. RowsGoOn /\ Issued(c)'
        BY <4>1, IssueStep
      <4> QED
        BY <4>1, <4>2, IssueIsIssue DEF Granted!Next
    <3> QED
      BY <2>1, <3>1, <3>2
  <2>2. ASSUME NEW c \in Code, NEW status \in {"denied", "approved"},
               NEW i \in Identity \cup {NoOne}, status = "approved" => i \in Identity,
               Resolve(c, status, i)
        PROVE  Granted!Next
    BY <2>2, ResolveStep, ResolveIsApproveOrDeny DEF Granted!Next
  <2>3. ASSUME NEW r \in Req, PollDevice(r) \/ RedeemCode(r)
        PROVE  Granted!Next
    BY <2>3, RedeemStep, RedeemIsAnswer DEF Granted!Next
  <2>4. ASSUME NEW r \in Req, Receive(r) \/ FetchUserInfo(r) \/ Login(r) \/ Fail(r)
        PROVE  UNCHANGED Granted!vars
    <3>1. RowsGoOn /\ UNCHANGED <<now, store, job, reply>>
      BY <2>4, ApiStep DEF Receive, UserInfo, GetUser, GetEmails, FetchUserInfo, Login, Fail
    <3> QED
      BY <3>1, AskedStays DEF Granted!vars, store, Standings, Standing, Issued, Expired
  <2>5. ASSUME NEW r \in Req, PollAgain(r) \/ \E j \in Job : Begin(r, j)
        PROVE  Granted!Next
    BY <2>5, ClientStep, AskIsAsk DEF Granted!Next
  <2>6. CASE Restart
    BY <2>6, RestartTickStep, RestartIsForget DEF Granted!Next
  <2>7. CASE Tick
    BY <2>7, RestartTickStep, TickIsLapse DEF Granted!Next
  <2>8. CASE UNCHANGED vars
    BY <2>8 DEF vars, store, Granted!vars, Standings, Standing, Issued, Expired, Asked
  <2>9. CASE Next
    BY <2>9, <2>1, <2>2, <2>3, <2>4, <2>5, <2>6, <2>7 DEF Next, RequestStep
  <2> QED
    BY <2>8, <2>9
<1>2. Spec => Granted!Init
  BY GrantsInit DEF Spec
<1> QED
  BY <1>1, <1>2, InvHolds, PTL DEF Spec, AnswersAreTrue, Granted!Spec
=============================================================================
