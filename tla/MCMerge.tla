------------------------------ MODULE MCMerge -------------------------------
(***************************************************************************)
(* Concurrent patches of all kinds of members, in pairs: a country with a  *)
(* region, each null, valid, unknown to ISO or malformed; a mandatory      *)
(* member, preferences and a country, each with a clearable member.        *)
(***************************************************************************)
EXTENDS ProfilePatch, FiniteSets, TLC

Members == {"display_name", "city", "country", "region", "court_side", "handedness"}

CountryOfRegion == "ES-MD" :> "ES" @@ "ES-ZZ" :> "ES" @@ "FR-IDF" :> "FR"

Sent(m) == CASE m = "country" -> {Null, Absent} \cup Country
             [] m = "region" -> {Null, Absent, Malformed} \cup Region
             [] m = "display_name" -> {Null, Absent, Malformed, "x"}
             [] OTHER -> {Null, Absent, "both"}

Pairs == {<<"country", "region">>, <<"country", "city">>, <<"display_name", "city">>,
          <<"city", "court_side">>, <<"court_side", "handedness">>}

Only(m, v, n, w, clear) ==
    [member |-> [k \in Members |-> IF k = m THEN v ELSE IF k = n THEN w ELSE Absent],
     clear |-> clear]

\* "preferences" is null or an object, so "clear" excludes its members.
MergePatches ==
    UNION {{Only(p[1], v, p[2], w, FALSE) : v \in Sent(p[1]), w \in Sent(p[2])} : p \in Pairs}
    \cup {Only("city", v, "country", w, TRUE) : v \in Sent("city"), w \in {Null, Absent}}

Symmetry == Permutations(Req)
=============================================================================
