------------------------------ MODULE MCListing -----------------------------
(***************************************************************************)
(* Users of which all but the first have the same name, listed up to three *)
(* at a time; ints end at 7, so that page 7 has an offset that does not    *)
(* fit.                                                                    *)
(***************************************************************************)
EXTENDS Listing

Names == [u \in UserId |-> IF u = 1 THEN 2 ELSE 1]
=============================================================================
