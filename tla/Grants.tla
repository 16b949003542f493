------------------------------- MODULE Grants -------------------------------
(***************************************************************************)
(* What an authorization code or a device code promises (RFC 6749, RFC     *)
(* 8628): one grant, approved or denied once, for a limited time, that one *)
(* request at most is given.  Every answer is the truth about the code at  *)
(* some moment between the question and its arrival.                       *)
(***************************************************************************)

CONSTANTS
    Code,
    OneTry,     \* codes that are approved when issued, and good for one try
    Req,
    Foreign,    \* what is asked with a code of another provider
    NoOne

VARIABLES
    grant,      \* the state of each code
    asked,      \* the code a request asks about
    told        \* the answer to it
vars == <<grant, asked, told>>

Init ==
    /\ grant = [c \in Code |-> "none"]
    /\ asked = [r \in Req |-> NoOne]
    /\ told = [r \in Req |-> "none"]

Becomes(c, from, to) ==
    /\ grant[c] \in from
    /\ grant' = [grant EXCEPT ![c] = to]
    /\ UNCHANGED <<asked, told>>

Issue(c)   == Becomes(c, {"none"}, IF c \in OneTry THEN "approved" ELSE "pending")
Approve(c) == Becomes(c, {"pending"}, "approved")
Deny(c)    == Becomes(c, {"pending"}, "denied")

\* Their time is over, or the provider has lost its memory.
Lapse(S) ==
    /\ \A c \in S : grant[c] \in {"pending", "approved", "denied"}
    /\ grant' = [c \in Code |-> IF c \in S THEN "lapsed" ELSE grant[c]]
    /\ UNCHANGED <<asked, told>>

Forget ==
    /\ grant' = [c \in Code |-> IF grant[c] = "none" THEN "none" ELSE "spent"]
    /\ UNCHANGED <<asked, told>>

Ask(r, c) ==
    /\ asked[r] \in {NoOne, c}
    /\ told[r] \in {"none", "pending", "slowDown"}
    /\ asked' = [asked EXCEPT ![r] = c]
    /\ told' = [told EXCEPT ![r] = "none"]
    /\ UNCHANGED grant

Truth(c) ==
    CASE grant[c] = "pending"  -> {"pending", "slowDown"}
      [] grant[c] = "denied"   -> {"denied"}
      [] grant[c] = "approved" -> {"granted"}
      [] grant[c] = "lapsed"   -> IF c \in OneTry THEN {"invalid"} ELSE {"expired"}
      [] grant[c] \in {"none", "spent"} -> {"invalid"}

Answer(r) ==
    /\ told[r] = "none"
    /\ \/ /\ asked[r] = Foreign
          /\ told' = [told EXCEPT ![r] = "invalid"]
          /\ UNCHANGED grant
       \/ \E c \in Code :
             /\ asked[r] = c
             /\ \E a \in Truth(c) : told' = [told EXCEPT ![r] = a]
             /\ grant' = [grant EXCEPT ![c] = IF told'[r] = "granted" \/ c \in OneTry
                                              THEN "spent" ELSE grant[c]]
    /\ UNCHANGED asked

Next ==
    \/ \E c \in Code : Issue(c) \/ Approve(c) \/ Deny(c)
    \/ \E S \in SUBSET Code : Lapse(S)
    \/ Forget
    \/ \E r \in Req, c \in Code \cup {Foreign} : Ask(r, c)
    \/ \E r \in Req : Answer(r)

Spec == Init /\ [][Next]_vars
=============================================================================
