---------------------------- MODULE ProfilePatch ----------------------------
(***************************************************************************)
(* PATCH /users/me/profile on the profile of one user, by several requests *)
(* at once.  The handler parses the patch, the manager reads the stored    *)
(* profile and applies the location rules to what it read, and only then   *)
(* does one UPDATE statement merge the patch into the row there is by now. *)
(* The row's CHECK constraint is what keeps the location consistent.       *)
(***************************************************************************)

CONSTANTS
    Member,       \* columns and preferences of a profile
    Pref,         \* the members of "preferences"
    Mandatory,    \* members that cannot be cleared: display_name
    Country,      \* values sent as a country
    ISOCountry,   \* those that are ISO 3166-1 codes
    Region,       \* values sent as a region
    ISORegion,    \* those that are ISO 3166-2 codes
    CountryOf,    \* the country a region code starts with
    Text,         \* values of the other members
    NewName,      \* the display_name of a new profile
    Null,         \* NULL, or a preference that is not stored; null in a patch
    Absent,       \* a member that is not in a patch
    Malformed,    \* a member the parser refuses
    NoProfile, Deleted,
    Req,
    Patches       \* the patches clients may send

Value == Country \cup Region \cup Text
Profile == [Member -> Value \cup {Null}]
Patch == [member : [Member -> Value \cup {Null, Absent, Malformed}], clear : BOOLEAN]

ASSUME ProfileAssumption ==
    /\ {"country", "region"} \subseteq Member \ (Pref \cup Mandatory)
    /\ Pref \subseteq Member
    /\ ISOCountry \subseteq Country /\ ISORegion \subseteq Region
    /\ CountryOf \in [Region -> Country]
    /\ {CountryOf[g] : g \in ISORegion} \subseteq ISOCountry
    /\ Patches \subseteq Patch
    /\ \A p \in Patches :
          /\ p.member["country"] \in Country \cup {Null, Absent, Malformed}
          /\ p.member["region"] \in Region \cup {Null, Absent, Malformed}
    /\ {Null, Absent, Malformed} \cap Value = {}
    /\ Null # Absent /\ Null # Malformed /\ Absent # Malformed
    /\ NoProfile # Deleted /\ NoProfile \notin Profile /\ Deleted \notin Profile
    /\ NewName \in Text

VARIABLES
    profile,    \* the row of user_profiles, or why there is none
    pc,         \* the next step of a request, or how it was answered
    patch,      \* the patch as the client sent it
    todo,       \* the patch as the location rules left it
    seen        \* the row a request has read; in the end, its response

vars == <<profile, pc, patch, todo, seen>>

Steps == {"parse", "read", "write"}
Answers == {"ok", "badRequest", "notFound", "conflict", "failed"}

Row == Profile \cup {NoProfile, Deleted}

TypeOK ==
    /\ profile \in Row
    /\ pc \in [Req -> Steps \cup Answers]
    /\ patch \in [Req -> Patches]
    /\ todo \in [Req -> Patch]
    /\ seen \in [Req -> Profile \cup {NoProfile}]

Blank == [m \in Member |-> IF m \in Mandatory THEN NewName ELSE Null]

Init ==
    /\ profile \in {NoProfile, Blank}
    /\ pc = [r \in Req |-> "parse"]
    /\ patch \in [Req -> Patches]
    /\ todo = patch
    /\ seen = [r \in Req |-> NoProfile]

-----------------------------------------------------------------------------
(* The patch: what the parser accepts, the location rules, the UPDATE.     *)

Accepted(p) ==
    /\ \A m \in Member : p.member[m] # Malformed
    /\ \A m \in Mandatory : p.member[m] # Null

IsEmpty(p) == ~ p.clear /\ \A m \in Member : p.member[m] = Absent

IsSet(p, m) == p.member[m] # Absent
HasValue(p, m) == p.member[m] \notin {Absent, Null}

ValidateLocation(country, region) ==
    /\ region # Null => country # Null
    /\ country # Null => country \in ISOCountry
    /\ region # Null => region \in ISORegion /\ CountryOf[region] = country

\* Fault: the region is checked against the country of the patch alone.
ValidAfterRulesPatchOnly(stored, p) ==
    /\ HasValue(p, "region") /\ HasValue(p, "country") =>
          ValidateLocation(p.member["country"], p.member["region"])
    /\ ~ HasValue(p, "region") /\ HasValue(p, "country") =>
          ValidateLocation(p.member["country"], Null)

ValidAfterRules(stored, p) ==
    LET country == IF IsSet(p, "country") THEN p.member["country"] ELSE stored["country"]
    IN /\ HasValue(p, "region") => ValidateLocation(country, p.member["region"])
       /\ ~ HasValue(p, "region") /\ HasValue(p, "country") =>
             ValidateLocation(p.member["country"], Null)

\* Rule 2: another country, or none, clears the region it does not set.
ImpliedClear(stored, p) ==
    /\ IsSet(p, "country") /\ ~ IsSet(p, "region")
    /\ p.member["country"] # stored["country"]

ApplyLocationRules(stored, p) ==
    IF ImpliedClear(stored, p) THEN [p EXCEPT !.member["region"] = Null] ELSE p

\* ((CASE WHEN clear THEN '{}' ELSE preferences END) || set) - remove
MergePreferences(row, p) ==
    LET start == IF p.clear THEN [m \in Pref |-> Null] ELSE [m \in Pref |-> row[m]]
        added == [m \in Pref |-> IF HasValue(p, m) THEN p.member[m] ELSE start[m]]
    IN [m \in Pref |-> IF p.member[m] = Null THEN Null ELSE added[m]]

Updated(row, p) ==
    LET prefs == MergePreferences(row, p)
    IN [m \in Member |-> IF m \in Pref THEN prefs[m]
                         ELSE IF IsSet(p, m) THEN p.member[m] ELSE row[m]]

\* Fault: no CHECK constraint.
NoCheck(row) == TRUE

\* CHECK (region IS NULL OR country IS NOT NULL AND region LIKE country || '-%')
Check(row) ==
    row["region"] # Null =>
        row["country"] # Null /\ CountryOf[row["region"]] = row["country"]

-----------------------------------------------------------------------------
(* The handler, the manager and the repository.                            *)

Goto(r, step) == pc' = [pc EXCEPT ![r] = step]
At(r, step) == pc[r] = step

\* updateMyProfile up to the manager: DecodeMergePatch, parseProfilePatch.
Parse(r) ==
    /\ At(r, "parse")
    /\ Goto(r, IF Accepted(patch[r]) THEN "read" ELSE "badRequest")
    /\ UNCHANGED <<profile, patch, todo, seen>>

\* Fault: the profile is taken to exist.
ReadStoredUnchecked(r) ==
    /\ At(r, "read")
    /\ seen' = [seen EXCEPT ![r] = profile]
    /\ Goto(r, "write")
    /\ UNCHANGED <<profile, patch, todo>>

\* FindByUserID, the empty patch, applyLocationRules.
ReadStored(r) ==
    /\ At(r, "read")
    /\ \/ /\ profile \notin Profile
          /\ Goto(r, "notFound")
          /\ UNCHANGED <<todo, seen>>
       \/ /\ profile \in Profile
          /\ seen' = [seen EXCEPT ![r] = profile]
          /\ \/ IsEmpty(patch[r]) /\ Goto(r, "ok") /\ UNCHANGED todo
             \/ /\ ~ IsEmpty(patch[r])
                /\ ~ ValidAfterRules(profile, patch[r])
                /\ Goto(r, "badRequest")
                /\ UNCHANGED todo
             \/ /\ ~ IsEmpty(patch[r])
                /\ ValidAfterRules(profile, patch[r])
                /\ todo' = [todo EXCEPT ![r] = ApplyLocationRules(profile, patch[r])]
                /\ Goto(r, "write")
    /\ UNCHANGED <<profile, patch>>

\* Fault: the row is rewritten from the one that was read.
UpdateFromSeen(r) ==
    /\ At(r, "write")
    /\ profile \in Profile
    /\ profile' = Updated(seen[r], todo[r])
    /\ seen' = [seen EXCEPT ![r] = profile']
    /\ Goto(r, "ok")
    /\ UNCHANGED <<patch, todo>>

\* One statement, which waits for the row: WHERE and SET see the row as it
\* is now.  Its answer can be lost.
Update(r) ==
    /\ At(r, "write")
    /\ \/ /\ profile \notin Profile
          /\ Goto(r, "notFound")
          /\ UNCHANGED <<profile, seen>>
       \/ /\ profile \in Profile /\ ~ Check(Updated(profile, todo[r]))
          /\ Goto(r, "conflict")
          /\ UNCHANGED <<profile, seen>>
       \/ /\ profile \in Profile /\ Check(Updated(profile, todo[r]))
          /\ profile' = Updated(profile, todo[r])
          /\ \/ seen' = [seen EXCEPT ![r] = profile'] /\ Goto(r, "ok")
             \/ UNCHANGED seen /\ Goto(r, "failed")
    /\ UNCHANGED <<patch, todo>>

\* A database error, or a cancelled request.
Fail(r) ==
    /\ pc[r] \in {"read", "write"}
    /\ Goto(r, "failed")
    /\ UNCHANGED <<profile, patch, todo, seen>>

\* EnsureExists of a login: display_name alone is set.
EnsureExists ==
    /\ profile = NoProfile
    /\ profile' = Blank
    /\ UNCHANGED <<pc, patch, todo, seen>>

\* The user is deleted, and with it the profile (ON DELETE CASCADE).
DeleteUser ==
    /\ profile # Deleted
    /\ profile' = Deleted
    /\ UNCHANGED <<pc, patch, todo, seen>>

Next ==
    \/ \E r \in Req : Parse(r) \/ ReadStored(r) \/ Update(r) \/ Fail(r)
    \/ EnsureExists
    \/ DeleteUser

Spec == Init /\ [][Next]_vars

-----------------------------------------------------------------------------
(* Properties.                                                             *)

\* The stored country is an ISO code, and the stored region an ISO code of
\* that very country, although each was validated against a profile that
\* may have changed before the UPDATE.
LocationConsistent ==
    profile \in Profile => ValidateLocation(profile["country"], profile["region"])

\* 409 "profile changed concurrently" is answered only when country or region
\* did change since the request read them: the location rules leave nothing
\* for the CHECK constraint to refuse when there is one writer.
ConflictOnlyAfterChange ==
    [][\A r \in Req : At(r, "write") /\ pc'[r] = "conflict" =>
         \E m \in {"country", "region"} : profile[m] # seen[r][m]]_vars

\* The update implements the atomic merge patch: whatever the interleaving,
\* a request that is answered "ok" has merged its own members, and no others,
\* into the profile as it was at that moment, and returns the result; one
\* that is answered with 4xx has changed nothing (ADR-015).
Outcome(step) == IF step \in Steps THEN "open"
                 ELSE IF step = "ok" THEN "applied"
                 ELSE IF step = "failed" THEN "unknown" ELSE "refused"
Status == [r \in Req |-> Outcome(pc[r])]
Response == [r \in Req |-> IF pc[r] = "ok" THEN seen[r] ELSE NoProfile]

Atomic == INSTANCE MergePatch WITH
    status <- Status,
    New <- Blank,
    response <- Response

MergesAtomically == Atomic!Spec

(* What the documentation says, and the code does not do.                  *)

\* FEATURE_clearable_profile_fields, 02_architecture.md: the region is
\* cleared only when the country changes or is cleared (or by a patch that
\* names it).
RegionClearedOnlyByCountryChange ==
    [][\A r \in Req :
         /\ At(r, "write") /\ pc'[r] = "ok"
         /\ ~ IsSet(patch[r], "region")
         /\ profile["region"] # Null /\ profile'["region"] = Null
         => profile'["country"] # profile["country"]]_vars
=============================================================================
