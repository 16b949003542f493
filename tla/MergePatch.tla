----------------------------- MODULE MergePatch -----------------------------
(***************************************************************************)
(* What PATCH /users/me/profile promises of the profile of one user (RFC   *)
(* 7396, ADR-015): a document with optional members, to which every        *)
(* request applies its whole patch in one step, or nothing.  An update     *)
(* never rests on an older state of the document, with one liberty: when   *)
(* the patch has a country and no region, the region may be cleared.       *)
(***************************************************************************)

CONSTANTS
    Member,     \* members of a profile, among them "country" and "region"
    Pref,       \* those inside "preferences"
    Value,
    Null,       \* a member without a value; in a patch, one to be cleared
    Absent,     \* in a patch, a member to be left alone
    New,        \* the profile a user gets
    NoProfile,  \* the user has no profile yet
    Deleted,    \* the user and the profile were deleted
    Req,
    Patches     \* the patches clients may send: [member, clear]

Profile == [Member -> Value \cup {Null}]

VARIABLES profile, patch, status, response
vars == <<profile, patch, status, response>>

\* "clear" is "preferences": null.
Merge(doc, p) ==
    [m \in Member |-> IF p.member[m] # Absent THEN p.member[m]
                      ELSE IF p.clear /\ m \in Pref THEN Null
                      ELSE doc[m]]

MayClearRegion(p) == p.member["country"] # Absent /\ p.member["region"] = Absent

Results(doc, p) ==
    {Merge(doc, p)} \cup
    {[Merge(doc, p) EXCEPT !["region"] = Null] : x \in {y \in {p} : MayClearRegion(y)}}

Init ==
    /\ profile \in {NoProfile, New}
    /\ patch \in [Req -> Patches]
    /\ status = [r \in Req |-> "open"]
    /\ response = [r \in Req |-> NoProfile]

Answer(r, s) ==
    /\ status[r] = "open"
    /\ status' = [status EXCEPT ![r] = s]

\* The response is the document with the patch applied.
Apply(r) ==
    /\ Answer(r, "applied")
    /\ profile \in Profile
    /\ profile' \in Results(profile, patch[r])
    /\ response' = [response EXCEPT ![r] = profile']
    /\ UNCHANGED patch

Refuse(r) ==
    /\ Answer(r, "refused")
    /\ UNCHANGED <<profile, patch, response>>

\* The client does not learn whether the patch was applied.
LoseAnswer(r) ==
    /\ Answer(r, "unknown")
    /\ \/ UNCHANGED profile
       \/ profile \in Profile /\ profile' \in Results(profile, patch[r])
    /\ UNCHANGED <<patch, response>>

Create ==
    /\ profile = NoProfile
    /\ profile' = New
    /\ UNCHANGED <<patch, status, response>>

Delete ==
    /\ profile # Deleted
    /\ profile' = Deleted
    /\ UNCHANGED <<patch, status, response>>

Next ==
    \/ \E r \in Req : Apply(r) \/ Refuse(r) \/ LoseAnswer(r)
    \/ Create
    \/ Delete

Spec == Init /\ [][Next]_vars
=============================================================================
