------------------------- MODULE ProfilePatchProofs -------------------------
(***************************************************************************)
(* Theorems about ProfilePatch, for any number of concurrent requests, any *)
(* patches and any set of countries and regions.                           *)
(***************************************************************************)
EXTENDS ProfilePatch, TLAPS

\* What a request that is about to read, or about to write, has established.
Prepared(r) ==
    /\ pc[r] \in {"read", "write"} => Accepted(patch[r])
    /\ pc[r] = "write" =>
          /\ seen[r] \in Profile
          /\ ValidateLocation(seen[r]["country"], seen[r]["region"])
          /\ ValidAfterRules(seen[r], patch[r])
          /\ todo[r] = ApplyLocationRules(seen[r], patch[r])

Inv ==
    /\ TypeOK
    /\ LocationConsistent
    /\ \A r \in Req : Prepared(r)

-----------------------------------------------------------------------------
(* Operators.                                                              *)

LEMMA PatchFacts ==
    ASSUME NEW p \in Patches, Accepted(p)
    PROVE  /\ p \in Patch
           /\ p.member \in [Member -> Value \cup {Null, Absent}]
           /\ p.member["country"] \in Country \cup {Null, Absent}
           /\ p.member["region"] \in Region \cup {Null, Absent}
  BY ProfileAssumption DEF Accepted, Patch

LEMMA RulesKeepTheRest ==
    ASSUME NEW p \in Patches, Accepted(p), NEW stored \in Profile
    PROVE  LET t == ApplyLocationRules(stored, p)
           IN /\ t \in Patch /\ t.clear = p.clear
              /\ t.member \in [Member -> Value \cup {Null, Absent}]
              /\ \A m \in Member \ {"region"} : t.member[m] = p.member[m]
              /\ t.member["region"] = IF ImpliedClear(stored, p) THEN Null ELSE p.member["region"]
<1>1. "region" \in Member
  BY ProfileAssumption
<1> QED
  BY <1>1, PatchFacts DEF ApplyLocationRules, Patch

LEMMA UpdatedType ==
    ASSUME NEW row \in Profile, NEW t \in Patch,
           t.member \in [Member -> Value \cup {Null, Absent}]
    PROVE  /\ Updated(row, t) \in Profile
           /\ \A m \in Member \ Pref :
                 Updated(row, t)[m] = IF IsSet(t, m) THEN t.member[m] ELSE row[m]
           /\ \A m \in Pref : m \in Member =>
                 Updated(row, t)[m] = IF IsSet(t, m) THEN t.member[m]
                                      ELSE IF t.clear THEN Null ELSE row[m]
<1>1. \A m \in Pref : m \in Member =>
         MergePreferences(row, t)[m] = IF IsSet(t, m) THEN t.member[m]
                                       ELSE IF t.clear THEN Null ELSE row[m]
  BY ProfileAssumption DEF MergePreferences, HasValue, IsSet
<1>2. \A m \in Member :
         Updated(row, t)[m] = IF m \in Pref THEN MergePreferences(row, t)[m]
                              ELSE IF IsSet(t, m) THEN t.member[m] ELSE row[m]
  BY DEF Updated
<1>3. \A m \in Member : Updated(row, t)[m] \in Value \cup {Null}
  BY <1>1, <1>2 DEF IsSet, Profile
<1>4. Updated(row, t) \in Profile
  BY <1>3 DEF Updated, Profile
<1> QED
  BY <1>1, <1>2, <1>4

\* The location of the row that an UPDATE prepared from `stored' writes.
LEMMA UpdatedLocation ==
    ASSUME NEW p \in Patches, Accepted(p), NEW stored \in Profile, NEW row \in Profile
    PROVE  LET new == Updated(row, ApplyLocationRules(stored, p))
           IN /\ new \in Profile
              /\ new["country"] = IF IsSet(p, "country") THEN p.member["country"] ELSE row["country"]
              /\ new["region"] = IF ImpliedClear(stored, p) THEN Null
                                 ELSE IF IsSet(p, "region") THEN p.member["region"] ELSE row["region"]
<1>1. {"country", "region"} \subseteq Member \ Pref /\ Null # Absent
  BY ProfileAssumption
<1>2. ImpliedClear(stored, p) => ~ IsSet(p, "region")
  BY DEF ImpliedClear
<1> QED
  BY <1>1, <1>2, RulesKeepTheRest, UpdatedType DEF IsSet

\* The rules leave nothing for the CHECK constraint to refuse, as long as
\* the location is the one they were applied to.
LEMMA RulesImplyCheck ==
    ASSUME NEW p \in Patches, Accepted(p), NEW stored \in Profile, NEW row \in Profile,
           ValidateLocation(stored["country"], stored["region"]),
           ValidAfterRules(stored, p),
           row["country"] = stored["country"], row["region"] = stored["region"]
    PROVE  Check(Updated(row, ApplyLocationRules(stored, p)))
<1>1. p.member["country"] \in Country \cup {Null, Absent}
      /\ p.member["region"] \in Region \cup {Null, Absent}
  BY PatchFacts
<1>2. Null # Absent
  BY ProfileAssumption
<1> QED
  BY <1>1, <1>2, UpdatedLocation
     DEF Check, ValidateLocation, ValidAfterRules, ImpliedClear, IsSet, HasValue

\* Whatever the row has become meanwhile: if it passes the CHECK constraint,
\* its location is valid.
LEMMA CheckedIsValid ==
    ASSUME NEW p \in Patches, Accepted(p), NEW stored \in Profile, NEW row \in Profile,
           ValidateLocation(row["country"], row["region"]),
           ValidAfterRules(stored, p),
           Check(Updated(row, ApplyLocationRules(stored, p)))
    PROVE  LET new == Updated(row, ApplyLocationRules(stored, p))
           IN ValidateLocation(new["country"], new["region"])
<1> DEFINE new == Updated(row, ApplyLocationRules(stored, p))
<1>1. new["country"] # Null => new["country"] \in ISOCountry
  BY UpdatedLocation, PatchFacts DEF ValidateLocation, ValidAfterRules, IsSet, HasValue
<1>2. new["region"] # Null => new["region"] \in ISORegion
  BY UpdatedLocation, PatchFacts DEF ValidateLocation, ValidAfterRules, IsSet, HasValue
<1> QED
  BY <1>1, <1>2 DEF Check, ValidateLocation

-----------------------------------------------------------------------------
(* The invariant.                                                          *)

LEMMA BlankRow == Blank \in Profile /\ ValidateLocation(Blank["country"], Blank["region"])
  BY ProfileAssumption DEF Blank, Profile, Value, ValidateLocation

LEMMA InvInit == Init => Inv
<1> SUFFICES ASSUME Init PROVE Inv
  OBVIOUS
<1>1. TypeOK
  BY BlankRow, ProfileAssumption DEF Init, TypeOK, Row, Steps
<1>2. LocationConsistent
  BY BlankRow, ProfileAssumption DEF Init, LocationConsistent
<1>3. \A r \in Req : Prepared(r)
  BY DEF Init, Prepared
<1> QED
  BY <1>1, <1>2, <1>3 DEF Inv

\* A step of one request leaves what the others have established.
LEMMA OthersPrepared ==
    ASSUME Inv, NEW r \in Req, NEW step, pc' = [pc EXCEPT ![r] = step],
           patch' = patch,
           \A q \in Req \ {r} : seen'[q] = seen[q] /\ todo'[q] = todo[q],
           Prepared(r)'
    PROVE  \A q \in Req : Prepared(q)'
  BY DEF Inv, Prepared, TypeOK

LEMMA InvParse ==
    ASSUME Inv, NEW r \in Req, Parse(r)
    PROVE  Inv'
<1>1. TypeOK' /\ LocationConsistent'
  BY DEF Inv, TypeOK, LocationConsistent, Parse, Goto, Steps, Answers
<1>2. Prepared(r)'
  BY DEF Inv, TypeOK, Parse, Goto, Prepared
<1> QED
  BY <1>1, <1>2, OthersPrepared DEF Parse, Goto, Inv

LEMMA InvReadStored ==
    ASSUME Inv, NEW r \in Req, ReadStored(r)
    PROVE  Inv'
<1>1. patch[r] \in Patches /\ Accepted(patch[r])
  BY DEF Inv, TypeOK, Prepared, ReadStored, At
<1>2. profile \in Profile => ApplyLocationRules(profile, patch[r]) \in Patch
  BY <1>1, RulesKeepTheRest
<1>3. TypeOK' /\ LocationConsistent'
  BY <1>2 DEF Inv, TypeOK, LocationConsistent, ReadStored, Goto, Steps, Answers
<1>4. Prepared(r)'
  BY <1>1 DEF Inv, TypeOK, LocationConsistent, ReadStored, Goto, Prepared
<1> QED
  BY <1>3, <1>4, OthersPrepared DEF ReadStored, Goto, Inv, TypeOK

LEMMA InvUpdate ==
    ASSUME Inv, NEW r \in Req, Update(r)
    PROVE  Inv'
<1>1. patch[r] \in Patches /\ Accepted(patch[r]) /\ Prepared(r) /\ At(r, "write")
  BY DEF Inv, TypeOK, Prepared, Update, At
<1>2. ASSUME profile \in Profile, Check(Updated(profile, todo[r]))
      PROVE  /\ Updated(profile, todo[r]) \in Profile
             /\ ValidateLocation(Updated(profile, todo[r])["country"],
                                 Updated(profile, todo[r])["region"])
  BY <1>1, <1>2, CheckedIsValid, UpdatedLocation DEF Prepared, At, Inv, LocationConsistent
<1>3. TypeOK' /\ LocationConsistent'
  BY <1>2 DEF Inv, TypeOK, Row, LocationConsistent, Update, Goto, Steps, Answers
<1>4. Prepared(r)'
  BY DEF Inv, TypeOK, Update, Goto, Prepared
<1> QED
  BY <1>3, <1>4, OthersPrepared DEF Update, Goto, Inv, TypeOK

LEMMA InvStep == Inv /\ [Next]_vars => Inv'
<1> SUFFICES ASSUME Inv, [Next]_vars PROVE Inv'
  OBVIOUS
<1>1. ASSUME NEW r \in Req, Fail(r) PROVE Inv'
  <2>1. TypeOK' /\ LocationConsistent'
    BY <1>1 DEF Inv, TypeOK, LocationConsistent, Fail, Goto, Answers
  <2>2. Prepared(r)'
    BY <1>1 DEF Inv, TypeOK, Fail, Goto, Prepared
  <2> QED
    BY <1>1, <2>1, <2>2, OthersPrepared DEF Fail, Goto, Inv
<1>2. CASE EnsureExists \/ DeleteUser
  BY <1>2, BlankRow, ProfileAssumption
     DEF EnsureExists, DeleteUser, Inv, TypeOK, Row, LocationConsistent, Prepared
<1>3. CASE UNCHANGED vars
  BY <1>3 DEF Inv, TypeOK, LocationConsistent, Prepared, vars
<1> QED
  BY <1>1, <1>2, <1>3, InvParse, InvReadStored, InvUpdate DEF Next

LEMMA InvHolds == Spec => []Inv
  BY InvInit, InvStep, PTL DEF Spec

\* Every row, patch and response has its type.
THEOREM ProfileTypeCorrect == Spec => []TypeOK
<1>1. Inv => TypeOK
  BY DEF Inv
<1> QED
  BY <1>1, InvHolds, PTL

\* The stored country and region are valid and belong together, although
\* each request validates them against a row that others may change before
\* it writes (applyLocationRules, migration 005).
THEOREM LocationConsistentHolds == Spec => []LocationConsistent
<1>1. Inv => LocationConsistent
  BY DEF Inv
<1> QED
  BY <1>1, InvHolds, PTL

\* A request is refused with 409 only if another one has changed the country
\* or the region since it read them (Update of the repository).
THEOREM ConflictOnlyAfterChangeHolds == Spec => ConflictOnlyAfterChange
<1>1. Inv /\ [Next]_vars =>
        [\A r \in Req : At(r, "write") /\ pc'[r] = "conflict" =>
            \E m \in {"country", "region"} : profile[m] # seen[r][m]]_vars
  <2> SUFFICES ASSUME Inv, Next, NEW r \in Req, At(r, "write"), pc'[r] = "conflict",
                      \A m \in {"country", "region"} : profile[m] = seen[r][m]
               PROVE  FALSE
    OBVIOUS
  <2>1. Update(r)
    BY DEF Next, Parse, ReadStored, Update, Fail, EnsureExists, DeleteUser, At, Goto, Inv, TypeOK
  <2>2. profile \in Profile /\ ~ Check(Updated(profile, todo[r]))
    BY <2>1 DEF Update, Goto, Inv, TypeOK
  <2>3. patch[r] \in Patches /\ Prepared(r)
    BY DEF Inv, TypeOK
  <2> QED
    BY <2>2, <2>3, RulesImplyCheck DEF Prepared, At
<1> QED
  BY <1>1, InvHolds, PTL DEF Spec, ConflictOnlyAfterChange

-----------------------------------------------------------------------------
(* Refinement of MergePatch.                                               *)

\* An UPDATE merges the patch as the client sent it, and at most clears the
\* region besides.
LEMMA UpdatedIsAResult ==
    ASSUME NEW p \in Patches, Accepted(p), NEW stored \in Profile, NEW row \in Profile
    PROVE  Updated(row, ApplyLocationRules(stored, p)) \in Atomic!Results(row, p)
<1> DEFINE t == ApplyLocationRules(stored, p)
           new == Updated(row, t)
           merged == Atomic!Merge(row, p)
<1>1. /\ new \in Profile /\ merged = [m \in Member |-> merged[m]]
      /\ new = [m \in Member |-> new[m]]
  BY UpdatedLocation DEF Profile, Atomic!Merge
<1>2. \A m \in Member \ {"region"} : new[m] = merged[m]
  BY RulesKeepTheRest, UpdatedType, ProfileAssumption DEF Atomic!Merge, IsSet
<1>3. {"country", "region"} \subseteq Member \ Pref
  BY ProfileAssumption
<1>4. CASE ~ ImpliedClear(stored, p)
  <2>1. new["region"] = merged["region"]
    BY <1>3, <1>4, UpdatedLocation DEF Atomic!Merge, IsSet
  <2>2. new = merged
    BY <1>1, <1>2, <2>1
  <2> QED
    BY <2>2 DEF Atomic!Results
<1>5. CASE ImpliedClear(stored, p)
  <2>1. new["region"] = Null
    BY <1>5, UpdatedLocation
  <2>2. new = [merged EXCEPT !["region"] = Null]
    BY <1>1, <1>2, <1>3, <2>1
  <2>3. Atomic!MayClearRegion(p)
    BY <1>5 DEF ImpliedClear, IsSet, Atomic!MayClearRegion
  <2> QED
    BY <2>2, <2>3 DEF Atomic!Results
<1> QED
  BY <1>4, <1>5

LEMMA EmptyPatchIsAResult ==
    ASSUME NEW p \in Patches, IsEmpty(p), NEW row \in Profile
    PROVE  row \in Atomic!Results(row, p)
<1>1. row = [m \in Member |-> row[m]]
  BY DEF Profile
<1>2. Atomic!Merge(row, p) = row
  BY <1>1 DEF IsEmpty, Atomic!Merge
<1> QED
  BY <1>2 DEF Atomic!Results

\* What a step of request r shows of it.
LEMMA StatusOf ==
    ASSUME Inv, NEW r \in Req, pc[r] \in Steps, NEW step \in Steps \cup Answers,
           pc' = [pc EXCEPT ![r] = step], \A q \in Req \ {r} : seen'[q] = seen[q]
    PROVE  /\ Status[r] = "open"
           /\ Status' = [Status EXCEPT ![r] = Outcome(step)]
           /\ step # "ok" => Response' = Response
           /\ step = "ok" => Response' = [Response EXCEPT ![r] = seen'[r]]
<1>1. \A q \in Req : pc'[q] = IF q = r THEN step ELSE pc[q]
  BY DEF Inv, TypeOK
<1>2. Status[r] = "open"
  BY DEF Status, Outcome
<1>3. Status' = [Status EXCEPT ![r] = Outcome(step)]
  BY <1>1 DEF Status, Outcome
<1>4. pc[r] # "ok"
  BY DEF Steps
<1>5. Response = [q \in Req |-> IF pc[q] = "ok" THEN seen[q] ELSE NoProfile]
      /\ Response' = [q \in Req |-> IF pc'[q] = "ok" THEN seen'[q] ELSE NoProfile]
  BY DEF Response
<1>6. CASE step # "ok"
  <2>1. \A q \in Req : (IF pc'[q] = "ok" THEN seen'[q] ELSE NoProfile)
                     = (IF pc[q] = "ok" THEN seen[q] ELSE NoProfile)
    BY <1>1, <1>4, <1>6
  <2> QED
    BY <1>2, <1>3, <1>5, <1>6, <2>1
<1>7. CASE step = "ok"
  <2>1. Response' = [Response EXCEPT ![r] = seen'[r]]
    BY <1>1, <1>5, <1>7
  <2> QED
    BY <1>2, <1>3, <1>7, <2>1
<1> QED
  BY <1>6, <1>7

LEMMA Outcomes ==
    /\ Outcome("read") = "open" /\ Outcome("write") = "open"
    /\ Outcome("ok") = "applied" /\ Outcome("failed") = "unknown"
    /\ Outcome("badRequest") = "refused" /\ Outcome("notFound") = "refused"
    /\ Outcome("conflict") = "refused"
    /\ {"read", "write", "ok", "failed", "badRequest", "notFound", "conflict"}
          \subseteq Steps \cup Answers
  BY DEF Outcome, Steps, Answers

LEMMA ReadStep ==
    ASSUME Inv, NEW r \in Req, ReadStored(r)
    PROVE  [Atomic!Next]_Atomic!vars
<1>1. pc[r] \in Steps /\ patch[r] \in Patches
  BY DEF ReadStored, At, Steps, Inv, TypeOK
<1>2. CASE Goto(r, "write") /\ \A q \in Req \ {r} : seen'[q] = seen[q]
  <2>1. Status' = [Status EXCEPT ![r] = "open"] /\ Status[r] = "open" /\ Response' = Response
    BY <1>1, <1>2, StatusOf, Outcomes DEF Goto
  <2>2. Status' = Status
    BY <2>1 DEF Status
  <2> QED
    BY <2>1, <2>2 DEF ReadStored, Atomic!vars
<1>3. CASE (Goto(r, "notFound") \/ Goto(r, "badRequest")) /\ \A q \in Req \ {r} : seen'[q] = seen[q]
  <2>1. Status' = [Status EXCEPT ![r] = "refused"] /\ Status[r] = "open" /\ Response' = Response
    BY <1>1, <1>3, StatusOf, Outcomes DEF Goto
  <2>2. Atomic!Refuse(r)
    BY <2>1 DEF ReadStored, Atomic!Refuse, Atomic!Answer
  <2> QED
    BY <2>2 DEF Atomic!Next
<1>4. CASE profile \in Profile /\ IsEmpty(patch[r]) /\ Goto(r, "ok")
           /\ seen' = [seen EXCEPT ![r] = profile]
  <2>1. seen'[r] = profile /\ \A q \in Req \ {r} : seen'[q] = seen[q]
    BY <1>4 DEF Inv, TypeOK
  <2>2. Status' = [Status EXCEPT ![r] = "applied"] /\ Status[r] = "open"
        /\ Response' = [Response EXCEPT ![r] = profile]
    BY <1>1, <1>4, <2>1, StatusOf, Outcomes DEF Goto
  <2>3. profile \in Atomic!Results(profile, patch[r])
    BY <1>1, <1>4, EmptyPatchIsAResult
  <2>4. Atomic!Apply(r)
    BY <1>4, <2>2, <2>3 DEF ReadStored, Atomic!Apply, Atomic!Answer, Profile, Atomic!Profile
  <2> QED
    BY <2>4 DEF Atomic!Next
<1>5. \A q \in Req \ {r} : seen'[q] = seen[q]
  BY DEF ReadStored, Inv, TypeOK
<1> QED
  BY <1>2, <1>3, <1>4, <1>5 DEF ReadStored

LEMMA UpdateStep ==
    ASSUME Inv, NEW r \in Req, Update(r)
    PROVE  [Atomic!Next]_Atomic!vars
<1>1. pc[r] \in Steps /\ patch[r] \in Patches /\ pc[r] = "write" /\ Prepared(r)
  BY DEF Update, At, Steps, Inv, TypeOK
<1>2. \A q \in Req \ {r} : seen'[q] = seen[q]
  BY DEF Update, Inv, TypeOK
<1>3. CASE (Goto(r, "notFound") \/ Goto(r, "conflict")) /\ UNCHANGED profile
  <2>1. Status' = [Status EXCEPT ![r] = "refused"] /\ Status[r] = "open" /\ Response' = Response
    BY <1>1, <1>2, <1>3, StatusOf, Outcomes DEF Goto
  <2>2. Atomic!Refuse(r)
    BY <1>3, <2>1 DEF Update, Atomic!Refuse, Atomic!Answer
  <2> QED
    BY <2>2 DEF Atomic!Next
<1>4. ASSUME profile \in Profile PROVE Updated(profile, todo[r]) \in Atomic!Results(profile, patch[r])
  BY <1>1, <1>4, UpdatedIsAResult DEF Prepared
<1>5. CASE profile \in Profile /\ profile' = Updated(profile, todo[r])
           /\ Goto(r, "ok") /\ seen' = [seen EXCEPT ![r] = profile']
  <2>1. seen'[r] = profile'
    BY <1>5 DEF Inv, TypeOK
  <2>2. Status' = [Status EXCEPT ![r] = "applied"] /\ Status[r] = "open"
        /\ Response' = [Response EXCEPT ![r] = profile']
    BY <1>1, <1>2, <1>5, <2>1, StatusOf, Outcomes DEF Goto
  <2>3. Atomic!Apply(r)
    BY <1>4, <1>5, <2>2 DEF Update, Atomic!Apply, Atomic!Answer, Profile, Atomic!Profile
  <2> QED
    BY <2>3 DEF Atomic!Next
<1>6. CASE profile \in Profile /\ profile' = Updated(profile, todo[r]) /\ Goto(r, "failed")
  <2>1. Status' = [Status EXCEPT ![r] = "unknown"] /\ Status[r] = "open" /\ Response' = Response
    BY <1>1, <1>2, <1>6, StatusOf, Outcomes DEF Goto
  <2>2. Atomic!LoseAnswer(r)
    BY <1>4, <1>6, <2>1 DEF Update, Atomic!LoseAnswer, Atomic!Answer, Profile, Atomic!Profile
  <2> QED
    BY <2>2 DEF Atomic!Next
<1> QED
  BY <1>3, <1>5, <1>6 DEF Update

LEMMA RefinementStep ==
    ASSUME Inv, [Next]_vars
    PROVE  [Atomic!Next]_Atomic!vars
<1>1. ASSUME NEW r \in Req, Parse(r) PROVE [Atomic!Next]_Atomic!vars
  <2>1. pc[r] \in Steps
    BY <1>1 DEF Parse, At, Steps
  <2>2. UNCHANGED <<profile, patch, seen>> /\ \A q \in Req \ {r} : seen'[q] = seen[q]
    BY <1>1 DEF Parse
  <2>3. CASE Goto(r, "read")
    <3>1. Status' = [Status EXCEPT ![r] = "open"] /\ Status[r] = "open" /\ Response' = Response
      BY <2>2, <2>1, <2>3, StatusOf, Outcomes DEF Goto
    <3>2. Status' = Status
      BY <3>1 DEF Status
    <3> QED
      BY <2>2, <3>1, <3>2 DEF Atomic!vars
  <2>4. CASE Goto(r, "badRequest")
    <3>1. Status' = [Status EXCEPT ![r] = "refused"] /\ Status[r] = "open" /\ Response' = Response
      BY <2>2, <2>1, <2>4, StatusOf, Outcomes DEF Goto
    <3>2. Atomic!Refuse(r)
      BY <2>2, <3>1 DEF Atomic!Refuse, Atomic!Answer
    <3> QED
      BY <3>2 DEF Atomic!Next
  <2> QED
    BY <1>1, <2>3, <2>4 DEF Parse
<1>2. ASSUME NEW r \in Req, Fail(r) PROVE [Atomic!Next]_Atomic!vars
  <2>1. pc[r] \in Steps
    BY <1>2 DEF Fail, Steps
  <2>2. Status' = [Status EXCEPT ![r] = "unknown"] /\ Status[r] = "open" /\ Response' = Response
    BY <1>2, <2>1, StatusOf, Outcomes DEF Fail, Goto
  <2>3. Atomic!LoseAnswer(r)
    BY <1>2, <2>2 DEF Fail, Atomic!LoseAnswer, Atomic!Answer
  <2> QED
    BY <2>3 DEF Atomic!Next
<1>3. CASE EnsureExists
  <2>1. Atomic!Create
    BY <1>3 DEF EnsureExists, Atomic!Create, Status, Response
  <2> QED
    BY <2>1 DEF Atomic!Next
<1>4. CASE DeleteUser
  <2>1. Atomic!Delete
    BY <1>4 DEF DeleteUser, Atomic!Delete, Status, Response
  <2> QED
    BY <2>1 DEF Atomic!Next
<1>5. CASE UNCHANGED vars
  BY <1>5 DEF vars, Atomic!vars, Status, Response
<1> QED
  BY <1>1, <1>2, <1>3, <1>4, <1>5, ReadStep, UpdateStep DEF Next

\* Concurrent updates of one profile behave as atomic merge patches, applied
\* in the order of their UPDATE statements (ADR-015).
THEOREM MergesAtomicallyHolds == Spec => MergesAtomically
<1>1. Init => Atomic!Init
  BY DEF Init, Atomic!Init, Status, Outcome, Response, Steps
<1> QED
  BY <1>1, InvHolds, RefinementStep, PTL DEF Spec, MergesAtomically, Atomic!Spec
=============================================================================
