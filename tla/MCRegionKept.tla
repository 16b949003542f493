---------------------------- MODULE MCRegionKept ----------------------------
(***************************************************************************)
(* Concurrent patches of country and region, each member absent, null,     *)
(* valid or malformed.                                                     *)
(***************************************************************************)
EXTENDS ProfilePatch, TLC

Location == {"country", "region"}

CountryOfTwo == "ES-MD" :> "ES" @@ "FR-IDF" :> "FR"

LocationPatches ==
    {[member |-> ("country" :> c @@ "region" :> g), clear |-> FALSE] :
        c \in Country \cup {Null, Absent}, g \in Region \cup {Null, Absent, Malformed}}
=============================================================================
