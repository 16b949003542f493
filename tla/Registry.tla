------------------------------ MODULE Registry ------------------------------
(***************************************************************************)
(* What the accounts promise a client: one registry of accounts and keys,  *)
(* in which a request takes effect at one moment between the question and  *)
(* the answer, or not at all.  A token says who somebody was and in which  *)
(* role at such a moment.                                                  *)
(***************************************************************************)

CONSTANTS
    UserId,
    PatId,
    AdminEmail,
    Unused, Gone,   \* an id that is not given out, or was deleted
    Req,
    Job, NoJob,     \* what is asked for
    Nobody          \* no claims

VARIABLES
    account,    \* the account of each id: its identity, email and role
    key,        \* the key (PAT) of each id: its owner and when it expires
    asked,      \* what a request asks for
    stage,      \* how far it is, or its answer
    claims      \* who it has been found to speak for
vars == <<account, key, asked, stage, claims>>

Init ==
    /\ account = [u \in UserId |-> Unused]
    /\ key = [p \in PatId |-> Unused]
    /\ asked = [r \in Req |-> NoJob]
    /\ stage = [r \in Req |-> "idle"]
    /\ claims = [r \in Req |-> Nobody]

Live == {u \in UserId : account[u] \notin {Unused, Gone}}
Stored == {p \in PatId : key[p] \notin {Unused, Gone}}

UnderWay == {r \in Req : stage[r] \in {"asked", "refused", "keyed", "known"}}
Asks(r, op) == stage[r] = "asked" /\ asked[r].op = op

Becomes(r, s) == stage' = [stage EXCEPT ![r] = s]
SpeaksFor(r, u, role) == claims' = [claims EXCEPT ![r] = [user |-> u, role |-> role]]

\* A change was made, which the client is told, or never learns.
Changed(r) == \E a \in {"ok", "failed"} : Becomes(r, a)

Ask(r) ==
    /\ stage[r] = "idle"
    /\ \E j \in Job : asked' = [asked EXCEPT ![r] = j]
    /\ Becomes(r, "asked")
    /\ UNCHANGED <<account, key, claims>>

\* The account of the identity gets the email, or there is a new one; the
\* email and the identity are nobody else's.
SignIn(r) ==
    /\ Asks(r, "login")
    /\ \E u \in UserId :
          /\ \A v \in Live \ {u} : /\ account[v].email # asked[r].email
                                   /\ account[v].identity # asked[r].identity
          /\ \/ /\ u \in Live /\ account[u].identity = asked[r].identity
                /\ account' = [account EXCEPT ![u].email = asked[r].email]
                /\ SpeaksFor(r, u, account[u].role)
             \/ /\ account[u] = Unused
                /\ account' = [account EXCEPT ![u] = [identity |-> asked[r].identity,
                                                      email |-> asked[r].email,
                                                      role |-> "user"]]
                /\ SpeaksFor(r, u, "user")
    /\ Becomes(r, "known")
    /\ UNCHANGED <<key, asked>>

\* Somebody has the email; the client is told so later.
Refuse(r) ==
    /\ Asks(r, "login")
    /\ \E v \in Live : account[v].email = asked[r].email
    /\ Becomes(r, "refused")
    /\ UNCHANGED <<account, key, asked, claims>>

TellRefused(r) ==
    /\ stage[r] = "refused"
    /\ Becomes(r, "emailTaken")
    /\ UNCHANGED <<account, key, asked, claims>>

\* A key is good for a request if it was at some moment of it.
Present(r) ==
    /\ Asks(r, "exchangePAT")
    /\ LET p == asked[r].pat
           good == p \in Stored /\ key[p].expires # "past"
       IN \/ /\ good
             /\ claims' = [claims EXCEPT ![r].user = key[p].owner]
             /\ Becomes(r, "keyed")
          \/ ~ good /\ Becomes(r, "rejected") /\ UNCHANGED claims
    /\ UNCHANGED <<account, key, asked>>

\* The role is that of the account at one moment.
Look(r) ==
    /\ Asks(r, "refresh") \/ stage[r] = "keyed"
    /\ LET u == IF stage[r] = "keyed" THEN claims[r].user ELSE asked[r].user
       IN \/ u \in Live /\ SpeaksFor(r, u, account[u].role) /\ Becomes(r, "known")
          \/ /\ u \notin Live
             /\ claims' = [claims EXCEPT ![r] = Nobody]
             /\ Becomes(r, "rejected")
    /\ UNCHANGED <<account, key, asked>>

Grant(r) ==
    /\ stage[r] = "known"
    /\ Becomes(r, "token")
    /\ UNCHANGED <<account, key, asked, claims>>

SetRole(r) ==
    /\ Asks(r, "updateRole")
    /\ asked[r].user \in Live
    /\ account' = [account EXCEPT ![asked[r].user].role = asked[r].role]
    /\ Changed(r)
    /\ UNCHANGED <<key, asked, claims>>

NewKey(p, u, expires) ==
    /\ u \in Live /\ key[p] = Unused
    /\ key' = [key EXCEPT ![p] = [owner |-> u, expires |-> expires]]

CreateKey(r) ==
    /\ Asks(r, "createPAT")
    /\ \E p \in PatId : NewKey(p, asked[r].user, asked[r].expires)
    /\ Changed(r)
    /\ UNCHANGED <<account, asked, claims>>

RevokeKey(r) ==
    /\ Asks(r, "revokePAT")
    /\ asked[r].pat \in Stored
    /\ key' = [key EXCEPT ![asked[r].pat] = Gone]
    /\ Changed(r)
    /\ UNCHANGED <<account, asked, claims>>

\* The keys of an account go with it.
Remove(r) ==
    /\ Asks(r, "deleteUser")
    /\ LET u == asked[r].user
       IN /\ u \in Live
          /\ account' = [account EXCEPT ![u] = Gone]
          /\ key' = [p \in PatId |-> IF p \in Stored /\ key[p].owner = u THEN Gone ELSE key[p]]
    /\ Changed(r)
    /\ UNCHANGED <<asked, claims>>

\* There is no such key or account at the moment.
Reject(r) ==
    /\ \/ Asks(r, "revokePAT") /\ asked[r].pat \notin Stored
       \/ (Asks(r, "deleteUser") \/ Asks(r, "createPAT")) /\ asked[r].user \notin Live
    /\ Becomes(r, "rejected")
    /\ UNCHANGED <<account, key, asked, claims>>

\* Servers and databases fail.  A login that took effect may be among them.
Fail(S) ==
    /\ S \subseteq UnderWay
    /\ stage' = [r \in Req |-> IF r \in S THEN "failed" ELSE stage[r]]
    /\ claims' = [r \in Req |-> IF r \in S THEN Nobody ELSE claims[r]]
    /\ UNCHANGED <<account, key, asked>>

Expire(p) ==
    /\ p \in Stored /\ key[p].expires = "later"
    /\ key' = [key EXCEPT ![p].expires = "past"]
    /\ UNCHANGED <<account, asked, stage, claims>>

\* The bootstrap: an admin whose identity is its own, on an empty registry
\* unless somebody was deleted, and a key for it.
Found(u) ==
    /\ account[u] = Unused
    /\ Live = {} \/ \E v \in UserId : account[v] = Gone
    /\ \A v \in Live : account[v].email # AdminEmail
    /\ account' = [account EXCEPT ![u] = [identity |-> u, email |-> AdminEmail,
                                          role |-> "admin"]]
    /\ UNCHANGED <<key, asked, stage, claims>>

FoundKey(p, u) ==
    /\ u \in Live /\ account[u].identity = u
    /\ NewKey(p, u, "never")
    /\ UNCHANGED <<account, asked, stage, claims>>

Next ==
    \/ \E r \in Req :
          \/ Ask(r)
          \/ SignIn(r) \/ Refuse(r) \/ TellRefused(r)
          \/ Present(r) \/ Look(r) \/ Grant(r)
          \/ SetRole(r) \/ CreateKey(r) \/ RevokeKey(r) \/ Remove(r) \/ Reject(r)
    \/ \E S \in SUBSET UnderWay : Fail(S)
    \/ \E p \in PatId : Expire(p) \/ \E u \in UserId : FoundKey(p, u)
    \/ \E u \in UserId : Found(u)

Spec == Init /\ [][Next]_vars
=============================================================================
