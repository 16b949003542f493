-------------------------- MODULE OAuthLoginProofs --------------------------
(***************************************************************************)
(* Theorems about OAuthLogin, for any number of providers, people, codes   *)
(* and clients, any lifetimes and any pace.                                *)
(***************************************************************************)
EXTENDS OAuthLogin, TLAPS

\* A row of the store: who approved it is known, and only that is redeemed.
Sound(c) == Issued(c) =>
    /\ codes[c].status = "approved" => codes[c].identity \in Identity
    /\ codes[c].spent => codes[c].status = "approved"
    /\ c \in AuthCode => codes[c].status = "approved"
    /\ codes[c].expiresAt < MaxTime

\* A request and the code it names.
Consistent(r) ==
    /\ pc[r] = "idle" <=> job[r] = NoJob
    /\ job[r] # NoJob => Issued(job[r].code)
    /\ pc[r] \in {"idle", "ask"} => reply[r] = "none"
    /\ pc[r] = "receive" => reply[r] # "none"
    /\ pc[r] \in Again => reply[r] = pc[r]
    /\ reply[r] = "granted" =>
          /\ job[r] # NoJob
          /\ codes[job[r].code].spent
          /\ codes[job[r].code].provider = job[r].provider
    /\ pc[r] \in {"userInfo", "emails", "login", "token", "emailTaken"} => reply[r] = "granted"
    /\ pc[r] = "emails" => who[r] = codes[job[r].code].identity.person
    /\ pc[r] \in {"login", "token", "emailTaken"} =>
          codes[job[r].code].identity = [person |-> who[r], verified |-> TRUE]

Inv ==
    /\ TypeOK
    /\ \A c \in forgotten : Issued(c)
    /\ \A c \in Code : Sound(c)
    /\ \A r \in Req : Consistent(r)
    /\ OneRequestPerCode

\* What any step leaves of a row that was issued.
RowsGoOn ==
    \A c \in Code : Issued(c) =>
        /\ Issued(c)'
        /\ codes'[c].provider = codes[c].provider
        /\ codes'[c].expiresAt = codes[c].expiresAt
        /\ codes[c].spent => codes'[c].spent
        /\ codes[c].spent => codes'[c].identity = codes[c].identity

\* What is announced and what is dropped add up to the interval.
LEMMA FractionType ==
    Fraction \in Nat /\ Announced \in Nat /\ Announced + Fraction = Interval
<1>1. Second \in Nat /\ Second > 0 /\ Interval \in Nat
  BY OAuthAssumption
<1>2. Interval % Second \in Nat /\ Interval % Second <= Interval
  BY <1>1, SMT
<1> QED
  BY <1>1, <1>2 DEF Fraction, Announced

LEMMA InvInit == Init => Inv
  BY OAuthAssumption, FractionType
     DEF Init, Inv, TypeOK, Sound, Consistent, OneRequestPerCode, Issued, Time, Again

LEMMA RowType ==
    ASSUME TypeOK, NEW c \in Code, Issued(c)
    PROVE  /\ codes[c] \in Row
           /\ codes[c].provider \in Provider
           /\ codes[c].status \in {"pending", "approved", "denied"}
           /\ codes[c].identity \in Identity \cup {NoOne}
           /\ codes[c].expiresAt \in Nat /\ codes[c].interval \in Nat
           /\ codes[c].lastPoll # Never => codes[c].lastPoll \in Nat
           /\ codes[c].spent \in BOOLEAN
  BY DEF TypeOK, Issued, Row, Time

-----------------------------------------------------------------------------
(* Steps that leave all requests as they are: Issue, Resolve, Restart and  *)
(* Tick.                                                                   *)

LEMMA RequestsStay ==
    ASSUME Inv, RowsGoOn, UNCHANGED <<pc, job, reply, who>>
    PROVE  (\A r \in Req : Consistent(r)') /\ OneRequestPerCode'
<1>1. ASSUME NEW r \in Req, job[r] # NoJob
      PROVE  job[r].code \in Code
  BY <1>1 DEF Inv, TypeOK, Job
<1>2. ASSUME NEW r \in Req
      PROVE  Consistent(r)'
  BY <1>1, <1>2 DEF Inv, RowsGoOn, Consistent, Again
<1> QED
  BY <1>2 DEF Inv, OneRequestPerCode

LEMMA IssueStep ==
    ASSUME Inv, NEW c \in Code, NEW p \in Provider,
           NEW status \in {"pending", "approved"}, NEW i \in Identity \cup {NoOne},
           status = "approved" => i \in Identity, c \in AuthCode => status = "approved",
           Issue(c, p, status, i)
    PROVE  Inv' /\ RowsGoOn /\ Issued(c)'
<1> DEFINE row == [provider |-> p, status |-> status, identity |-> i, expiresAt |-> now + TTL,
                   interval |-> IF c \in DeviceCode THEN Interval ELSE 0,
                   lastPoll |-> Never, spent |-> FALSE]
<1>1. row \in Row /\ row # Unused /\ row.expiresAt < MaxTime
  <2>1. now + TTL \in Time /\ now + TTL < MaxTime
    BY OAuthAssumption DEF Issue, Inv, TypeOK, Time
  <2>2. row \in Row
    BY <2>1, OAuthAssumption DEF Row
  <2> QED
    BY <2>1, <2>2, OAuthAssumption
<1>2. codes' = [codes EXCEPT ![c] = row]
  BY DEF Issue
<1>3. RowsGoOn
  BY <1>2 DEF RowsGoOn, Issue, Issued, Inv, TypeOK
<1>4. TypeOK'
  BY <1>1, <1>2 DEF Inv, TypeOK, Issue
<1>5. \A d \in Code : Sound(d)'
  BY <1>1, <1>2 DEF Inv, TypeOK, Sound, Issued
<1>6. (\A d \in forgotten : Issued(d))' /\ Issued(c)'
  BY <1>1, <1>2, <1>3 DEF RowsGoOn, Inv, TypeOK, Issue, Issued
<1> QED
  BY <1>3, <1>4, <1>5, <1>6, RequestsStay DEF Inv, Issue

LEMMA ResolveStep ==
    ASSUME Inv, NEW c \in Code, NEW status \in {"denied", "approved"},
           NEW i \in Identity \cup {NoOne}, status = "approved" => i \in Identity,
           Resolve(c, status, i)
    PROVE  Inv' /\ RowsGoOn
<1> DEFINE row == [codes[c] EXCEPT !.status = status, !.identity = i]
<1>1. /\ codes[c] \in Row /\ Issued(c) /\ c \in DeviceCode
      /\ codes[c].status = "pending" /\ ~ codes[c].spent /\ codes[c].spent \in BOOLEAN
      /\ codes[c].expiresAt < MaxTime
  BY RowType DEF Resolve, Inv, Sound
<1>2. /\ row \in Row /\ row # Unused /\ row.status = status /\ row.identity = i
      /\ row.provider = codes[c].provider /\ row.expiresAt = codes[c].expiresAt
      /\ ~ row.spent
  BY <1>1, OAuthAssumption DEF Row
<1>3. codes' = [codes EXCEPT ![c] = row]
  BY DEF Resolve, Inv, TypeOK
<1>4. RowsGoOn
  BY <1>1, <1>2, <1>3 DEF RowsGoOn, Issued, Inv, TypeOK
<1>5. TypeOK'
  BY <1>2, <1>3 DEF Inv, TypeOK, Resolve
<1>6. \A d \in Code : Sound(d)'
  BY <1>1, <1>2, <1>3, OAuthAssumption DEF Inv, TypeOK, Sound, Issued
<1>7. (\A d \in forgotten : Issued(d))'
  BY <1>4 DEF RowsGoOn, Inv, TypeOK, Resolve
<1> QED
  BY <1>4, <1>5, <1>6, <1>7, RequestsStay DEF Inv, Resolve

LEMMA RestartTickStep ==
    ASSUME Inv, Restart \/ Tick
    PROVE  Inv' /\ RowsGoOn
<1>1. RowsGoOn
  BY DEF RowsGoOn, Restart, Tick, store, Issued
<1>2. TypeOK'
  BY OAuthAssumption DEF Inv, TypeOK, Restart, Tick, store, Time
<1>3. (\A c \in Code : Sound(c))' /\ (\A c \in forgotten : Issued(c))'
  BY DEF Inv, Sound, Issued, Restart, Tick, store
<1> QED
  BY <1>1, <1>2, <1>3, RequestsStay DEF Inv, Restart, Tick, store

-----------------------------------------------------------------------------
(* Steps of one request.                                                   *)

LEMMA OtherRequests ==
    ASSUME Inv, RowsGoOn, NEW r \in Req, NEW q \in Req, q # r,
           pc'[q] = pc[q], job'[q] = job[q], reply'[q] = reply[q], who'[q] = who[q]
    PROVE  Consistent(q)'
<1>1. job[q] # NoJob => job[q].code \in Code
  BY DEF Inv, TypeOK, Job
<1> QED
  BY <1>1 DEF Inv, RowsGoOn, Consistent, Again

\* Steps that change no row.
LEMMA StoreStays ==
    ASSUME Inv, UNCHANGED <<now, store>>
    PROVE  RowsGoOn /\ (\A c \in Code : Sound(c))' /\ (\A c \in forgotten : Issued(c))'
  BY DEF Inv, RowsGoOn, Sound, Issued, store

LEMMA ClientStep ==
    ASSUME Inv, NEW r \in Req, PollAgain(r) \/ \E j \in Job : Begin(r, j)
    PROVE  Inv' /\ RowsGoOn
<1>1. RowsGoOn /\ (\A c \in Code : Sound(c))' /\ (\A c \in forgotten : Issued(c))'
  BY StoreStays DEF PollAgain, Begin
<1>2. TypeOK'
  BY DEF Inv, TypeOK, PollAgain, Begin, Goto, Steps, store
<1>3. Consistent(r)'
  <2>1. CASE PollAgain(r)
    <3>1. pc[r] \in Again /\ job[r] # NoJob /\ pc'[r] = "ask" /\ reply'[r] = "none"
      BY <2>1 DEF PollAgain, Goto, Again, Inv, TypeOK, Consistent
    <3> QED
      BY <2>1, <3>1 DEF PollAgain, Inv, Consistent, Again, store, Issued
  <2>2. ASSUME NEW j \in Job, Begin(r, j) PROVE Consistent(r)'
    <3>1. pc[r] = "idle" /\ pc'[r] = "ask" /\ reply'[r] = "none" /\ job'[r] = j /\ j # NoJob
      BY <2>2, OAuthAssumption DEF Begin, Goto, At, Inv, TypeOK, Consistent
    <3> QED
      BY <2>2, <3>1 DEF Begin, Consistent, Again, store, Issued
  <2> QED
    BY <2>1, <2>2
<1>4. ASSUME NEW q \in Req, q # r PROVE Consistent(q)'
  BY <1>1, <1>4, OtherRequests DEF PollAgain, Begin, Goto, Inv, TypeOK
<1>5. OneRequestPerCode'
  <2>1. ASSUME NEW q \in Req, reply'[q] = "granted"
        PROVE  reply[q] = "granted" /\ job'[q] = job[q]
    <3>1. CASE PollAgain(r)
      BY <2>1, <3>1 DEF PollAgain, Inv, TypeOK
    <3>2. ASSUME NEW j \in Job, Begin(r, j)
          PROVE  reply[q] = "granted" /\ job'[q] = job[q]
      BY <2>1, <3>2 DEF Begin, At, Inv, TypeOK, Consistent
    <3> QED
      BY <3>1, <3>2
  <2> QED
    BY <2>1 DEF Inv, OneRequestPerCode
<1> QED
  BY <1>1, <1>2, <1>3, <1>4, <1>5 DEF Inv

\* Who approved a code that was granted is known.
LEMMA GrantedApprover ==
    ASSUME Inv, NEW r \in Req, reply[r] = "granted"
    PROVE  Approver(r) \in Identity
  BY DEF Inv, TypeOK, Consistent, Sound, Issued, Job, Approver

LEMMA ApiStep ==
    ASSUME Inv, NEW r \in Req, Receive(r) \/ FetchUserInfo(r) \/ Login(r) \/ Fail(r)
    PROVE  Inv' /\ RowsGoOn
<1>1. /\ RowsGoOn /\ (\A c \in Code : Sound(c))' /\ (\A c \in forgotten : Issued(c))'
      /\ UNCHANGED <<now, store, job, reply>>
  BY StoreStays DEF Receive, UserInfo, GetUser, GetEmails, FetchUserInfo, Login, Fail
<1>2. job[r] # NoJob
  BY DEF Inv, Consistent, Receive, UserInfo, GetUser, GetEmails, FetchUserInfo, Login, Fail,
         At, Steps
<1>3. TypeOK'
  <2>1. CASE Receive(r)
    <3>1. reply[r] \in Replies
      BY <2>1 DEF Receive, At, Inv, TypeOK, Consistent
    <3>2. pc' \in [Req -> {"idle"} \cup Steps \cup Again \cup Final]
      BY <2>1, <3>1 DEF Receive, Goto, Inv, TypeOK, Replies, Steps, Again, Final
    <3>3. client' \in [Req -> [interval : Nat, due : Nat]]
      <4>1. client[r].interval \in Nat /\ now \in Nat
        BY DEF Inv, TypeOK, Time
      <4>2. client[r].interval + (IF reply[r] = "slowDown" THEN SlowDown ELSE 0) \in Nat
        BY <4>1, OAuthAssumption
      <4> QED
        BY <2>1, <4>1, <4>2 DEF Receive, Inv, TypeOK
    <3> QED
      BY <2>1, <1>1, <3>2, <3>3 DEF Receive, Inv, TypeOK, store
  <2>2. CASE FetchUserInfo(r)
    <3>1. Approver(r).person \in Person
      BY <2>2, <1>2, GrantedApprover DEF Inv, Consistent, Identity, FetchUserInfo, UserInfo,
         GetUser, GetEmails, At
    <3>2. who' = who \/ who' = [who EXCEPT ![r] = Approver(r).person]
      BY <2>2 DEF FetchUserInfo, UserInfo, GetUser, GetEmails
    <3>3. /\ \E step \in {"failed", "unverified", "emails", "login"} : Goto(r, step)
          /\ UNCHANGED client
      BY <2>2 DEF FetchUserInfo, UserInfo, GetUser, GetEmails
    <3> QED
      BY <1>1, <3>1, <3>2, <3>3 DEF Goto, Inv, TypeOK, Steps, Final, store
  <2>3. CASE Login(r) \/ Fail(r)
    BY <2>3, <1>1 DEF Login, Fail, Goto, Inv, TypeOK, Final, store
  <2> QED
    BY <2>1, <2>2, <2>3
<1>4. Consistent(r)'
  <2>1. CASE Receive(r)
    <3>1. /\ reply[r] \in Replies /\ pc[r] = "receive"
          /\ pc'[r] \in {"userInfo", "failed"} \cup (Replies \ {"granted"})
          /\ pc'[r] = "userInfo" => reply[r] = "granted"
          /\ pc'[r] \notin {"userInfo", "failed"} => reply[r] = pc'[r]
      BY <2>1 DEF Receive, At, Goto, Inv, TypeOK, Consistent, Replies, Again
    <3> QED
      BY <2>1, <1>1, <1>2, <3>1 DEF Receive, Inv, Consistent, Again, Replies, store, Issued
  <2>2. CASE FetchUserInfo(r)
    <3>1. reply[r] = "granted" /\ Approver(r) \in Identity
      BY <2>2, <1>2, GrantedApprover DEF Inv, Consistent, FetchUserInfo, UserInfo,
         GetUser, GetEmails, At
    <3>2. Approver(r).verified => Approver(r) = [person |-> Approver(r).person, verified |-> TRUE]
      BY <3>1 DEF Identity
    <3>3. /\ pc'[r] \in {"failed", "unverified", "emails", "login"}
          /\ pc'[r] = "emails" => who'[r] = Approver(r).person
          /\ pc'[r] = "login" => who'[r] = Approver(r).person /\ Approver(r).verified
      BY <2>2 DEF FetchUserInfo, UserInfo, GetUser, GetEmails, At, Goto, Inv, TypeOK, Consistent,
                  Approver
    <3> QED
      BY <2>2, <1>1, <1>2, <3>1, <3>2, <3>3
         DEF Inv, Consistent, Again, store, Issued, Approver
  <2>3. CASE Login(r)
    BY <2>3, <1>1, <1>2 DEF Login, At, Goto, Inv, TypeOK, Consistent, Again, store, Issued
  <2>4. CASE Fail(r)
    BY <2>4, <1>1, <1>2 DEF Fail, Goto, Inv, TypeOK, Consistent, Again, store, Issued
  <2> QED
    BY <2>1, <2>2, <2>3, <2>4
<1>5. ASSUME NEW q \in Req, q # r PROVE Consistent(q)'
  BY <1>1, <1>5, OtherRequests
     DEF Receive, UserInfo, GetUser, GetEmails, FetchUserInfo, Login, Fail, Goto, Inv, TypeOK
<1>6. OneRequestPerCode'
  BY <1>1 DEF Inv, OneRequestPerCode
<1> QED
  BY <1>1, <1>3, <1>4, <1>5, <1>6 DEF Inv

\* The provider's answer.
LEMMA RedeemStep ==
    ASSUME Inv, NEW r \in Req, PollDevice(r) \/ RedeemCode(r)
    PROVE  Inv' /\ RowsGoOn
<1> DEFINE c == job[r].code
<1>1. /\ pc[r] = "ask" /\ reply[r] = "none" /\ job[r] # NoJob /\ job[r] \in Job
      /\ c \in Code /\ Issued(c)
      /\ UNCHANGED <<now, forgotten, job, who, client>>
  <2>1. pc[r] = "ask" /\ UNCHANGED <<now, forgotten, job, who, client>>
    BY DEF PollDevice, RedeemCode, Reply, At
  <2>2. reply[r] = "none" /\ job[r] # NoJob /\ Issued(c)
    BY <2>1 DEF Inv, Consistent
  <2> QED
    BY <2>1, <2>2 DEF Inv, TypeOK, Job
<1>2. PICK a \in Replies : Reply(r, a)
  BY <1>1, RowType DEF PollDevice, RedeemCode, Replies, Again, Outcome, Inv
<1>3. /\ pc' = [pc EXCEPT ![r] = "receive"]
      /\ reply' = [reply EXCEPT ![r] = a]
      /\ pc'[r] = "receive" /\ reply'[r] = a /\ a # "none"
  BY <1>2 DEF Reply, Goto, Inv, TypeOK, Replies, Again
<1>4. CASE UNCHANGED codes /\ a # "granted"
  <2>1. RowsGoOn /\ (\A d \in Code : Sound(d))' /\ (\A d \in forgotten : Issued(d))'
    BY <1>1, <1>4, StoreStays DEF store
  <2>2. TypeOK'
    BY <1>1, <1>2, <1>3, <1>4 DEF Inv, TypeOK, Steps
  <2>3. Consistent(r)'
    BY <1>1, <1>3, <1>4 DEF Consistent, Again, Issued
  <2>4. ASSUME NEW q \in Req, q # r PROVE Consistent(q)'
    BY <1>1, <1>3, <2>1, <2>4, OtherRequests DEF Inv, TypeOK
  <2>5. OneRequestPerCode'
    BY <1>1, <1>3, <1>4 DEF Inv, TypeOK, OneRequestPerCode
  <2> QED
    BY <2>1, <2>2, <2>3, <2>4, <2>5 DEF Inv
<1>5. CASE /\ Redeemable(job[r])
           /\ \E n \in Nat, l \in Time \cup {Never}, e \in BOOLEAN :
                 /\ codes' = [codes EXCEPT ![c] =
                       [codes[c] EXCEPT !.interval = n, !.lastPoll = l, !.spent = e]]
                 /\ a = "granted" => e
                 /\ e => codes[c].status = "approved"
  <2>1. PICK n \in Nat, l \in Time \cup {Never}, e \in BOOLEAN :
           /\ codes' = [codes EXCEPT ![c] =
                 [codes[c] EXCEPT !.interval = n, !.lastPoll = l, !.spent = e]]
           /\ a = "granted" => e
           /\ e => codes[c].status = "approved"
    BY <1>5
  <2> DEFINE row == [codes[c] EXCEPT !.interval = n, !.lastPoll = l, !.spent = e]
  <2>2. /\ codes[c] \in Row /\ ~ codes[c].spent /\ codes[c].provider = job[r].provider
        /\ Sound(c)
    BY <1>1, <1>5, RowType DEF Redeemable, Inv
  <2>3. /\ row \in Row /\ row # Unused /\ row.spent = e
        /\ row.provider = codes[c].provider /\ row.status = codes[c].status
        /\ row.identity = codes[c].identity /\ row.expiresAt = codes[c].expiresAt
    <3>1. row \in Row
      BY <2>2 DEF Row
    <3>2. row.spent = e
      BY <2>2, Zenon DEF Row
    <3>3. /\ row.provider = codes[c].provider /\ row.status = codes[c].status
          /\ row.identity = codes[c].identity /\ row.expiresAt = codes[c].expiresAt
      BY <2>2 DEF Row
    <3> QED
      BY <3>1, <3>2, <3>3, OAuthAssumption
  <2>4. codes' = [codes EXCEPT ![c] = row] /\ codes \in [Code -> Row \cup {Unused}]
    BY <2>1 DEF Inv, TypeOK
  <2> HIDE DEF row
  <2>5. RowsGoOn
    BY <1>1, <2>2, <2>3, <2>4 DEF RowsGoOn, Issued
  <2>6. \A d \in Code : Sound(d)'
    BY <1>1, <2>1, <2>2, <2>3, <2>4 DEF Inv, Sound, Issued
  <2>7. TypeOK'
    BY <1>1, <1>2, <1>3, <2>3, <2>4 DEF Inv, TypeOK, Steps
  <2>8. (\A d \in forgotten : Issued(d))'
    BY <1>1, <2>5 DEF RowsGoOn, Inv, TypeOK
  <2>9. Consistent(r)'
    BY <1>1, <1>3, <2>1, <2>2, <2>3, <2>4 DEF Consistent, Again, Issued
  <2>10. ASSUME NEW q \in Req, q # r PROVE Consistent(q)'
    BY <1>1, <1>3, <2>5, <2>10, OtherRequests DEF Inv, TypeOK
  <2>11. OneRequestPerCode'
    <3>1. \A q \in Req : reply[q] = "granted" => job[q].code # c
      BY <2>2 DEF Inv, Consistent
    <3> QED
      BY <1>1, <1>3, <3>1 DEF Inv, TypeOK, OneRequestPerCode
  <2> QED
    BY <2>5, <2>6, <2>7, <2>8, <2>9, <2>10, <2>11 DEF Inv
<1>6. CASE PollDevice(r)
  <2>1. CASE ~ Redeemable(job[r]) \/ Expired(c)
    <3>1. UNCHANGED codes /\ (Reply(r, "invalid") \/ Reply(r, "expired"))
      BY <1>6, <2>1 DEF PollDevice
    <3>2. a # "granted"
      BY <1>3, <3>1 DEF Reply, Inv, TypeOK
    <3> QED
      BY <1>4, <3>1, <3>2
  <2>2. CASE Redeemable(job[r]) /\ ~ Expired(c)
    <3> DEFINE n == IF Outcome(c) = "slowDown" THEN codes[c].interval + SlowDown
                    ELSE codes[c].interval
    <3>1. /\ Reply(r, Outcome(c))
          /\ codes' = [codes EXCEPT ![c].lastPoll = now, ![c].spent = Outcome(c) = "granted",
                                    ![c].interval = n]
      BY <1>1, <1>6, <2>2 DEF PollDevice, Inv, TypeOK
    <3>2. a = Outcome(c)
      BY <1>3, <3>1 DEF Reply, Inv, TypeOK
    <3>3. codes[c] \in Row /\ codes[c].interval \in Nat /\ n \in Nat
      BY <1>1, RowType, OAuthAssumption DEF Inv
    <3>4. codes' = [codes EXCEPT ![c] = [codes[c] EXCEPT !.interval = n, !.lastPoll = now,
                                                       !.spent = (Outcome(c) = "granted")]]
      BY <1>1, <3>1, <3>3 DEF Inv, TypeOK, Row
    <3>5. Outcome(c) = "granted" => codes[c].status = "approved"
      BY <1>1, RowType DEF Outcome, Inv
    <3>6. now \in Time
      BY DEF Inv, TypeOK
    <3> QED
      BY <1>5, <2>2, <3>2, <3>3, <3>4, <3>5, <3>6
  <2> QED
    BY <2>1, <2>2
<1>7. CASE RedeemCode(r)
  <2>1. CASE ~ Redeemable(job[r])
    <3>1. UNCHANGED codes /\ Reply(r, "invalid")
      BY <1>7, <2>1 DEF RedeemCode
    <3>2. a # "granted"
      BY <1>3, <3>1 DEF Reply, Inv, TypeOK
    <3> QED
      BY <1>4, <3>1, <3>2
  <2>2. CASE Redeemable(job[r])
    <3>1. codes' = [codes EXCEPT ![c].spent = TRUE] /\ c \in AuthCode
      BY <1>7, <2>2 DEF RedeemCode
    <3>2. /\ codes[c] \in Row /\ codes[c].interval \in Nat
          /\ codes[c].lastPoll \in Time \cup {Never}
      BY <1>1, RowType DEF Inv, Row
    <3>3. codes' = [codes EXCEPT ![c] = [codes[c] EXCEPT !.interval = codes[c].interval,
                                                       !.lastPoll = codes[c].lastPoll,
                                                       !.spent = TRUE]]
      BY <1>1, <3>1, <3>2 DEF Inv, TypeOK, Row
    <3>4. codes[c].status = "approved"
      BY <1>1, <3>1 DEF Inv, Sound
    <3> QED
      BY <1>5, <2>2, <3>2, <3>3, <3>4
  <2> QED
    BY <2>1, <2>2
<1> QED
  BY <1>6, <1>7

-----------------------------------------------------------------------------
(* The theorems.                                                           *)

LEMMA InvStep == Inv /\ [Next]_vars => Inv'
<1> SUFFICES ASSUME Inv, [Next]_vars PROVE Inv'
  OBVIOUS
<1>1. CASE \E c \in Code, p \in Provider :
              StartDevice(c, p) \/ \E i \in Identity : IssueCode(c, p, i)
  BY <1>1, IssueStep, OAuthAssumption DEF StartDevice, IssueCode
<1>2. CASE \E c \in Code : Resolve(c, "denied", NoOne)
                           \/ \E i \in Identity : Resolve(c, "approved", i)
  BY <1>2, ResolveStep
<1>3. CASE \E r \in Req : RequestStep(r) \/ PollAgain(r) \/ Fail(r)
  BY <1>3, RedeemStep, ApiStep, ClientStep DEF RequestStep
<1>4. CASE \E r \in Req, j \in Job : Begin(r, j)
  BY <1>4, ClientStep
<1>5. CASE Restart \/ Tick
  BY <1>5, RestartTickStep
<1>6. CASE UNCHANGED vars
  <2>1. TypeOK' /\ (\A c \in Code : Sound(c))' /\ (\A c \in forgotten : Issued(c))' /\ RowsGoOn
    BY <1>6 DEF vars, store, Inv, TypeOK, Sound, Issued, RowsGoOn
  <2> QED
    BY <1>6, <2>1, RequestsStay DEF Inv, vars
<1> QED
  BY <1>1, <1>2, <1>3, <1>4, <1>5, <1>6 DEF Next

LEMMA InvHolds == Spec => []Inv
<1> QED
  BY InvInit, InvStep, PTL DEF Spec

\* Every value the flows compute has its type: no step leaves a row with a
\* status the switch of the token endpoint does not know.
THEOREM OAuthTypeCorrect == Spec => []TypeOK
<1>1. Inv => TypeOK
  BY DEF Inv
<1> QED
  BY <1>1, InvHolds, PTL

\* A code, of either flow, is redeemed by one request at most, however many
\* polls or loads of the callback race for it.
THEOREM OneRequestPerCodeHolds == Spec => []OneRequestPerCode
<1>1. Inv => OneRequestPerCode
  BY DEF Inv
<1> QED
  BY <1>1, InvHolds, PTL

\* A login that gets past the provider is for the verified person who
\* approved this very code at this very provider.
THEOREM LoginIsApprovedHolds == Spec => []LoginIsApproved
<1>1. Inv => LoginIsApproved
  <2> SUFFICES ASSUME Inv, NEW r \in Req, pc[r] \in {"login", "token", "emailTaken"}
               PROVE  /\ codes[job[r].code].status = "approved"
                      /\ codes[job[r].code].provider = job[r].provider
                      /\ codes[job[r].code].identity = [person |-> who[r], verified |-> TRUE]
    BY DEF LoginIsApproved
  <2>1. job[r] # NoJob /\ job[r].code \in Code /\ Issued(job[r].code)
    BY DEF Inv, TypeOK, Consistent, Job
  <2> QED
    BY <2>1 DEF Inv, Consistent, Sound
<1> QED
  BY <1>1, InvHolds, PTL

-----------------------------------------------------------------------------
(***************************************************************************)
(* The pace of polling.  The provider and the one poller of a code count   *)
(* the same interval from different moments: the provider from when it     *)
(* answers, the poller from when the answer arrives.                       *)
(***************************************************************************)

\* The row of a code is ahead of its only poller by the fraction, and by what
\* a slow_down on its way to the poller adds.
Ahead(r) == Fraction + (IF pc[r] = "receive" /\ reply[r] = "slowDown" THEN SlowDown ELSE 0)

InStep(row, r) ==
    /\ pc[r] \in Again \cup {"ask", "receive"} => row.interval = client[r].interval + Ahead(r)
    /\ row.lastPoll # Never =>
          /\ row.lastPoll <= now
          /\ pc[r] = "ask" => row.lastPoll + client[r].interval <= now \/ now > row.expiresAt
          /\ pc[r] \in Again => row.lastPoll + client[r].interval <= client[r].due

Paced(r) ==
    /\ job[r] = NoJob => client[r].interval = Announced
    /\ job[r] # NoJob /\ Alone(r) /\ job[r].code \in DeviceCode =>
          InStep(codes[job[r].code], r)

\* Nobody has polled a code that nobody names.
Fresh(c) ==
    Issued(c) /\ (\A r \in Req : job[r] # NoJob => job[r].code # c) =>
        codes[c].interval = Interval /\ codes[c].lastPoll = Never

PaceInv ==
    /\ \A r \in Req : Paced(r)
    /\ \A c \in DeviceCode : Fresh(c)

SameRow(c) ==
    /\ codes'[c].interval = codes[c].interval
    /\ codes'[c].lastPoll = codes[c].lastPoll
    /\ codes'[c].expiresAt = codes[c].expiresAt

LEMMA JobType ==
    ASSUME Inv, NEW r \in Req, job[r] # NoJob
    PROVE  job[r].code \in Code /\ Issued(job[r].code)
  BY DEF Inv, TypeOK, Consistent, Job

\* A request that stays as it is, with its row, as time goes by.
LEMMA PacedStays ==
    ASSUME Inv, PaceInv, NEW r \in Req, now <= now', now' \in Nat,
           pc'[r] = pc[r], job'[r] = job[r], reply'[r] = reply[r], client'[r] = client[r],
           job[r] # NoJob /\ Alone(r)' => Alone(r) /\ SameRow(job[r].code)
    PROVE  Paced(r)'
<1>1. now \in Nat /\ client[r].interval \in Nat
  BY DEF Inv, TypeOK, Time
<1>2. CASE job[r] # NoJob /\ Alone(r)'
  <2> DEFINE row == codes[job[r].code]
  <2>1. /\ row.lastPoll # Never => row.lastPoll \in Nat
        /\ row.expiresAt \in Nat
    BY <1>2, JobType, RowType DEF Inv
  <2>2. job[r].code \in DeviceCode => InStep(row, r)
    BY <1>2 DEF PaceInv, Paced
  <2> QED
    BY <1>1, <1>2, <2>1, <2>2 DEF PaceInv, Paced, InStep, SameRow, Ahead
<1>3. CASE ~ (job[r] # NoJob /\ Alone(r)')
  BY <1>3 DEF PaceInv, Paced
<1> QED
  BY <1>2, <1>3

LEMMA FreshStays ==
    ASSUME Inv, PaceInv, NEW c \in DeviceCode,
           \A r \in Req : job[r] # NoJob => job'[r] = job[r],
           Issued(c)' => Issued(c),
           (\A r \in Req : job[r] # NoJob => job[r].code # c) => SameRow(c)
    PROVE  Fresh(c)'
<1> SUFFICES ASSUME Issued(c)', \A r \in Req : job'[r] # NoJob => job'[r].code # c
             PROVE  codes'[c].interval = Interval /\ codes'[c].lastPoll = Never
  BY DEF Fresh
<1>1. \A r \in Req : job[r] # NoJob => job[r].code # c
  OBVIOUS
<1>2. SameRow(c)
  BY <1>1
<1>3. codes[c].interval = Interval /\ codes[c].lastPoll = Never
  BY <1>1 DEF PaceInv, Fresh
<1> QED
  BY <1>2, <1>3 DEF SameRow

LEMMA PaceInit == Init => PaceInv
  BY DEF Init, PaceInv, Paced, Fresh, Issued, Code

LEMMA IssuePace ==
    ASSUME Inv, PaceInv, NEW c \in Code, NEW p, NEW i, NEW status, Issue(c, p, status, i)
    PROVE  PaceInv'
<1>1. /\ c \in DeviceCode => codes'[c].interval = Interval /\ codes'[c].lastPoll = Never
      /\ \A d \in Code \ {c} : codes'[d] = codes[d]
      /\ ~ Issued(c) /\ UNCHANGED <<now, pc, job, reply, client>>
  BY DEF Issue, Inv, TypeOK
<1>2. ASSUME NEW r \in Req PROVE Paced(r)'
  <2>1. job[r] # NoJob => SameRow(job[r].code)
    BY <1>1, JobType DEF SameRow
  <2> QED
    BY <1>1, <2>1, PacedStays DEF Alone, Inv, TypeOK, Time
<1>3. ASSUME NEW d \in DeviceCode PROVE Fresh(d)'
  <2>1. CASE d = c
    BY <1>1, <2>1 DEF Fresh
  <2>2. CASE d # c
    BY <1>1, <1>3, <2>2, FreshStays DEF Issued, SameRow, Code
  <2> QED
    BY <2>1, <2>2
<1> QED
  BY <1>2, <1>3 DEF PaceInv

\* A step that leaves requests, and the pace of rows, as they are.
LEMMA PaceStays ==
    ASSUME Inv, PaceInv, now <= now', now' \in Nat, UNCHANGED <<pc, job, reply, client>>,
           \A c \in Code : Issued(c)' => Issued(c),
           \A c \in Code : Issued(c) => SameRow(c)
    PROVE  PaceInv'
<1>1. ASSUME NEW r \in Req PROVE Paced(r)'
  BY JobType, PacedStays DEF Alone
<1>2. ASSUME NEW c \in DeviceCode PROVE Fresh(c)'
  <2>1. CASE Issued(c)
    BY <2>1, FreshStays DEF Code
  <2>2. CASE ~ Issued(c)
    BY <2>2 DEF Fresh, Code
  <2> QED
    BY <2>1, <2>2
<1> QED
  BY <1>1, <1>2 DEF PaceInv

LEMMA StorePace ==
    ASSUME Inv, PaceInv,
           \/ \E c \in Code, status \in {"denied", "approved"}, i \in Identity \cup {NoOne} :
                 Resolve(c, status, i)
           \/ Restart \/ Tick \/ UNCHANGED vars
    PROVE  PaceInv'
<1>1. now \in Nat
  BY DEF Inv, TypeOK, Time
<1>2. ASSUME NEW c \in Code, NEW status, NEW i, Resolve(c, status, i)
      PROVE  PaceInv'
  <2>1. /\ Issued(c) /\ SameRow(c) /\ \A d \in Code \ {c} : codes'[d] = codes[d]
        /\ UNCHANGED <<now, pc, job, reply, client>>
    BY <1>2, RowType DEF Resolve, SameRow, Inv, TypeOK, Row
  <2>2. \A d \in Code : (Issued(d)' => Issued(d)) /\ (Issued(d) => SameRow(d))
    BY <2>1 DEF Issued, SameRow
  <2> QED
    BY <1>1, <2>1, <2>2, PaceStays
<1>3. CASE Restart \/ Tick \/ UNCHANGED vars
  <2>1. now <= now' /\ now' \in Nat /\ UNCHANGED <<codes, pc, job, reply, client>>
    BY <1>1, <1>3 DEF Restart, Tick, vars, store
  <2>2. \A d \in Code : (Issued(d)' => Issued(d)) /\ SameRow(d)
    BY <2>1 DEF Issued, SameRow
  <2> QED
    BY <2>1, <2>2, PaceStays
<1> QED
  BY <1>2, <1>3

\* Steps that leave the store alone.
LEMMA RequestPace ==
    ASSUME Inv, PaceInv, NEW r \in Req, UNCHANGED <<now, store>>,
           \A q \in Req : job[q] # NoJob => job'[q] = job[q],
           \A q \in Req \ {r} : /\ pc'[q] = pc[q] /\ job'[q] = job[q]
                                /\ reply'[q] = reply[q] /\ client'[q] = client[q],
           Paced(r)'
    PROVE  PaceInv'
<1>1. now \in Nat /\ \A c \in Code : SameRow(c) /\ (Issued(c)' => Issued(c))
  BY DEF Inv, TypeOK, Time, SameRow, Issued, store
<1>2. ASSUME NEW q \in Req \ {r} PROVE Paced(q)'
  <2>1. job[q] # NoJob /\ Alone(q)' => Alone(q)
    BY DEF Alone
  <2> QED
    BY <1>1, <2>1, JobType, PacedStays
<1>3. ASSUME NEW c \in DeviceCode PROVE Fresh(c)'
  BY <1>1, FreshStays DEF Code
<1> QED
  BY <1>2, <1>3 DEF PaceInv

\* The first one to name a code finds it fresh.
LEMMA BeginPace ==
    ASSUME Inv, PaceInv, NEW r \in Req, NEW j \in Job, Begin(r, j)
    PROVE  PaceInv'
<1>1. /\ job[r] = NoJob /\ j # NoJob /\ Issued(j.code) /\ job' = [job EXCEPT ![r] = j]
      /\ pc' = [pc EXCEPT ![r] = "ask"] /\ reply[r] = "none"
      /\ UNCHANGED <<now, store, reply, client>>
  BY OAuthAssumption DEF Begin, At, Goto, Inv, Consistent
<1>2. job'[r] = j /\ \A q \in Req \ {r} : job'[q] = job[q] /\ pc'[q] = pc[q]
  BY <1>1 DEF Inv, TypeOK
<1>3. Paced(r)'
  <2>1. ASSUME Alone(r)', j.code \in DeviceCode
        PROVE  InStep(codes[j.code], r)'
    <3>1. \A q \in Req : job[q] # NoJob => job[q].code # j.code
      BY <1>1, <1>2, <2>1 DEF Alone
    <3>2. codes[j.code].interval = Interval /\ codes[j.code].lastPoll = Never
      BY <1>1, <2>1, <3>1 DEF PaceInv, Fresh
    <3>3. client[r].interval = Announced
      BY <1>1 DEF PaceInv, Paced
    <3> QED
      BY <1>1, <1>2, <3>2, <3>3, FractionType DEF InStep, Ahead, store, Inv, TypeOK
  <2> QED
    BY <1>1, <1>2, <2>1, OAuthAssumption DEF Paced, store, InStep
<1> QED
  BY <1>1, <1>2, <1>3, RequestPace

LEMMA PollAgainPace ==
    ASSUME Inv, PaceInv, NEW r \in Req, PollAgain(r)
    PROVE  PaceInv'
<1>1. /\ pc[r] \in Again /\ pc'[r] = "ask" /\ reply'[r] = "none" /\ job[r] # NoJob
      /\ now >= client[r].due \/ now = MaxTime
      /\ UNCHANGED <<now, store, job, client>>
      /\ \A q \in Req \ {r} : pc'[q] = pc[q] /\ reply'[q] = reply[q]
  BY DEF PollAgain, Goto, Inv, TypeOK, Consistent, Again
<1>2. Paced(r)'
  <2> DEFINE row == codes[job[r].code]
  <2>1. ASSUME Alone(r), job[r].code \in DeviceCode
        PROVE  InStep(row, r)'
    <3>1. InStep(row, r)
      BY <1>1, <2>1 DEF PaceInv, Paced
    <3>2. /\ row.expiresAt < MaxTime /\ row.expiresAt \in Nat
          /\ row.lastPoll # Never => row.lastPoll \in Nat
      BY <1>1, JobType, RowType DEF Inv, Sound
    <3>3. now \in Nat /\ client[r] \in [interval : Nat, due : Nat] /\ MaxTime \in Nat
      BY OAuthAssumption DEF Inv, TypeOK, Time
    <3> QED
      BY <1>1, <3>1, <3>2, <3>3 DEF InStep, Ahead, store, Again
  <2>2. Alone(r)' <=> Alone(r)
    BY <1>1 DEF Alone
  <2> QED
    BY <1>1, <2>1, <2>2 DEF Paced, InStep, store
<1> QED
  BY <1>1, <1>2, RequestPace

\* The answer arrives later than the provider gave it.
LEMMA ReceivePace ==
    ASSUME Inv, PaceInv, NEW r \in Req, Receive(r)
    PROVE  PaceInv'
<1>1. /\ job[r] # NoJob /\ UNCHANGED <<now, store, job, reply>>
      /\ \A q \in Req \ {r} : pc'[q] = pc[q] /\ client'[q] = client[q]
      /\ pc[r] = "receive" /\ pc'[r] \notin {"ask", "receive"}
      /\ pc'[r] \in Again => reply[r] \in Again
  <2>1. reply[r] \in Replies
    BY DEF Receive, At, Inv, TypeOK, Consistent
  <2> QED
    BY <2>1 DEF Receive, At, Goto, Inv, TypeOK, Consistent, Again, Replies
<1>2. Paced(r)'
  <2> DEFINE row == codes[job[r].code]
  <2>1. ASSUME Alone(r), job[r].code \in DeviceCode
        PROVE  InStep(row, r)'
    <3> DEFINE i == client[r].interval + (IF reply[r] = "slowDown" THEN SlowDown ELSE 0)
    <3>1. InStep(row, r)
      BY <1>1, <2>1 DEF PaceInv, Paced
    <3>2. row.lastPoll # Never => row.lastPoll \in Nat
      BY <1>1, JobType, RowType DEF Inv
    <3>3. now \in Nat /\ client[r].interval \in Nat /\ SlowDown \in Nat /\ i \in Nat
      BY OAuthAssumption DEF Inv, TypeOK, Time
    <3>4. reply[r] \in Again => client'[r].interval = i /\ client'[r].due = now + i
      BY DEF Receive, Inv, TypeOK
    <3>5. row.interval = i + Fraction
      BY <1>1, <3>1, <3>3, FractionType DEF InStep, Ahead
    <3> QED
      BY <1>1, <3>1, <3>2, <3>3, <3>4, <3>5, FractionType DEF InStep, Ahead, store
  <2>2. Alone(r)' <=> Alone(r)
    BY <1>1 DEF Alone
  <2> QED
    BY <1>1, <2>1, <2>2 DEF PaceInv, Paced, InStep, store
<1> QED
  BY <1>1, <1>2, RequestPace

LEMMA RestPace ==
    ASSUME Inv, PaceInv, NEW r \in Req, FetchUserInfo(r) \/ Login(r) \/ Fail(r)
    PROVE  PaceInv'
<1>1. /\ pc' = [pc EXCEPT ![r] = pc'[r]] /\ pc'[r] \notin Again \cup {"ask", "receive"}
      /\ UNCHANGED <<now, store, job, reply, client>>
  BY DEF UserInfo, GetUser, GetEmails, FetchUserInfo, Login, Fail, Goto, Again, Inv, TypeOK
<1>2. Paced(r)'
  BY <1>1 DEF PaceInv, Paced, InStep, Alone, store
<1> QED
  BY <1>1, <1>2, RequestPace DEF Inv, TypeOK

LEMMA RedeemPace ==
    ASSUME Inv, PaceInv, NEW r \in Req, PollDevice(r) \/ RedeemCode(r)
    PROVE  PaceInv'
<1> DEFINE c == job[r].code
<1>1. /\ pc[r] = "ask" /\ pc'[r] = "receive" /\ job[r] # NoJob /\ c \in Code /\ Issued(c)
      /\ UNCHANGED <<now, forgotten, job, client>>
      /\ \A q \in Req \ {r} : pc'[q] = pc[q] /\ reply'[q] = reply[q]
      /\ \A d \in Code \ {c} : codes'[d] = codes[d]
  <2>1. pc[r] = "ask" /\ UNCHANGED <<now, forgotten, job, client>>
        /\ pc' = [pc EXCEPT ![r] = "receive"]
        /\ \E a : reply' = [reply EXCEPT ![r] = a]
        /\ \A d \in Code \ {c} : codes'[d] = codes[d]
    BY DEF PollDevice, RedeemCode, Reply, At, Goto, Inv, TypeOK
  <2>2. job[r] # NoJob
    BY <2>1 DEF Inv, Consistent
  <2> QED
    BY <2>1, <2>2, JobType DEF Inv, TypeOK
<1>2. now \in Nat /\ (\A d \in Code \ {c} : SameRow(d))
  BY <1>1 DEF Inv, TypeOK, Time, SameRow
<1>3. ASSUME NEW q \in Req \ {r} PROVE Paced(q)'
  <2>1. job[q] # NoJob /\ Alone(q)' => Alone(q) /\ SameRow(job[q].code)
    BY <1>1, <1>2, JobType DEF Alone
  <2> QED
    BY <1>1, <1>2, <2>1, PacedStays
<1>4. ASSUME NEW d \in DeviceCode PROVE Fresh(d)'
  <2>1. CASE d = c
    BY <1>1, <2>1 DEF Fresh
  <2>2. CASE d # c
    BY <1>1, <1>2, <1>4, <2>2, FreshStays DEF Code, Issued
  <2> QED
    BY <2>1, <2>2
<1>5. Paced(r)'
  <2>1. Alone(r)' <=> Alone(r)
    BY <1>1 DEF Alone
  <2>2. CASE ~ Alone(r)
    BY <1>1, <2>1, <2>2 DEF PaceInv, Paced
  <2>3. CASE c \notin DeviceCode
    BY <1>1, <2>3 DEF Paced
  <2>4. CASE Alone(r) /\ c \in DeviceCode
    <3>1. PollDevice(r) /\ InStep(codes[c], r)
      BY <1>1, <2>4, OAuthAssumption DEF PaceInv, Paced, RedeemCode
    <3>2. /\ codes[c] \in Row /\ codes[c].interval \in Nat
          /\ client[r].interval \in Nat /\ SlowDown \in Nat
          /\ codes[c].interval = client[r].interval + Fraction
      BY <1>1, <3>1, RowType, FractionType, OAuthAssumption DEF Inv, TypeOK, InStep, Ahead
    <3>3. CASE UNCHANGED codes /\ (Reply(r, "invalid") \/ Reply(r, "expired"))
      <4>1. reply'[r] # "slowDown"
        BY <3>3 DEF Reply, Inv, TypeOK
      <4> QED
        BY <1>1, <3>1, <3>2, <3>3, <4>1, FractionType DEF Paced, InStep, Ahead, Again
    <3>4. CASE Redeemable(job[r]) /\ ~ Expired(c)
      <4>1. /\ reply' = [reply EXCEPT ![r] = Outcome(c)]
            /\ codes' = [codes EXCEPT ![c].lastPoll = now, ![c].spent = Outcome(c) = "granted",
                             ![c].interval = IF Outcome(c) = "slowDown" THEN @ + SlowDown ELSE @]
        BY <3>1, <3>4 DEF PollDevice, Reply
      <4>2. /\ reply'[r] = Outcome(c) /\ codes'[c].lastPoll = now
            /\ codes'[c].interval = client[r].interval + Fraction
                                    + (IF Outcome(c) = "slowDown" THEN SlowDown ELSE 0)
        BY <1>1, <3>2, <4>1, FractionType DEF Inv, TypeOK, Row
      <4> QED
        BY <1>1, <1>2, <3>2, <4>2, FractionType DEF Paced, InStep, Ahead, Again
    <3> QED
      BY <3>1, <3>3, <3>4 DEF PollDevice
  <2> QED
    BY <2>2, <2>3, <2>4
<1> QED
  BY <1>3, <1>4, <1>5 DEF PaceInv

LEMMA PaceStep == Inv /\ PaceInv /\ [Next]_vars => PaceInv'
<1> SUFFICES ASSUME Inv, PaceInv, [Next]_vars PROVE PaceInv'
  OBVIOUS
<1>1. CASE \E c \in Code, p \in Provider :
              StartDevice(c, p) \/ \E i \in Identity : IssueCode(c, p, i)
  BY <1>1, IssuePace DEF StartDevice, IssueCode
<1>2. CASE \E c \in Code : Resolve(c, "denied", NoOne)
                           \/ \E i \in Identity : Resolve(c, "approved", i)
  BY <1>2, StorePace
<1>3. CASE \E r \in Req : RequestStep(r) \/ PollAgain(r) \/ Fail(r)
  BY <1>3, RedeemPace, ReceivePace, RestPace, PollAgainPace DEF RequestStep
<1>4. CASE \E r \in Req, j \in Job : Begin(r, j)
  BY <1>4, BeginPace
<1>5. CASE Restart \/ Tick \/ UNCHANGED vars
  BY <1>5, StorePace
<1> QED
  BY <1>1, <1>2, <1>3, <1>4, <1>5 DEF Next

\* Whoever is told to slow down, alone with their code, came early by no more
\* than the fraction.
LEMMA SlowDownStep ==
    ASSUME Inv, PaceInv, [Next]_vars, NEW r \in Req,
           reply[r] = "none", reply'[r] = "slowDown", Alone(r)
    PROVE  LET due == NextPollOf(codes[job[r].code])
           IN now < due /\ due <= now + Fraction
<1> DEFINE c == job[r].code
<1>1. PollDevice(r) /\ c \in DeviceCode /\ job[r] # NoJob
  <2>1. ASSUME NEW q \in Req, RedeemCode(q) PROVE FALSE
    BY <2>1 DEF RedeemCode, Reply, Inv, TypeOK
  <2>2. ASSUME NEW q \in Req, PollDevice(q) PROVE q = r
    BY <2>2 DEF PollDevice, Reply, Inv, TypeOK
  <2>3. ASSUME UNCHANGED reply PROVE FALSE
    BY <2>3
  <2>4. ASSUME NEW q \in Req, PollAgain(q) PROVE FALSE
    BY <2>4 DEF PollAgain, Inv, TypeOK
  <2>5. \E q \in Req : PollDevice(q)
    BY <2>1, <2>3, <2>4
       DEF Next, RequestStep, FetchUserInfo, StartDevice, IssueCode, Issue, Resolve, Begin,
           Receive, UserInfo, GetUser, GetEmails, Login, Fail, Restart, Tick, vars
  <2> QED
    BY <2>2, <2>5 DEF PollDevice, At, Inv, Consistent
<1>2. InStep(codes[c], r) /\ pc[r] = "ask"
  BY <1>1 DEF PaceInv, Paced, PollDevice, At
<1>3. /\ now \in Nat /\ client[r].interval \in Nat
      /\ codes[c].interval = client[r].interval + Fraction /\ codes[c].expiresAt \in Nat
      /\ codes[c].lastPoll # Never => codes[c].lastPoll \in Nat
  BY <1>1, <1>2, JobType, RowType, FractionType DEF Inv, TypeOK, Time, InStep, Ahead
<1>4. ~ Expired(c) /\ Outcome(c) = "slowDown"
  BY <1>1 DEF PollDevice, Reply, Inv, TypeOK
<1>5. TooFast(c)
  <2>1. codes[c].status \in {"pending", "approved", "denied"}
    BY <1>1, JobType, RowType DEF Inv
  <2> QED
    BY <1>4, <2>1 DEF Outcome
<1> QED
  BY <1>2, <1>3, <1>4, <1>5, FractionType DEF TooFast, Expired, InStep, NextPollOf

\* A poller that is alone with its code, keeps to the interval it is told and
\* adds what slow_down asks for, is told to slow down only for the fraction of
\* a second that the announcement drops, and never when that is none: however
\* long the answers take, and whatever the lifetimes.
THEOREM SlowDownOnlyForTheFractionHolds == Spec => SlowDownOnlyForTheFraction
<1> DEFINE SlowDownAllowed ==
        \A r \in Req : reply[r] = "none" /\ reply'[r] = "slowDown" /\ Alone(r) =>
          LET due == NextPollOf(codes[job[r].code])
          IN now < due /\ due <= now + Fraction
<1>1. Inv /\ PaceInv /\ [Next]_vars => [SlowDownAllowed]_vars
  BY SlowDownStep
<1>2. Spec => [][SlowDownAllowed]_vars
  BY <1>1, InvHolds, PaceInit, PaceStep, PTL DEF Spec
<1> QED
  BY <1>2 DEF SlowDownOnlyForTheFraction
=============================================================================
