----------------------------- MODULE MCCallback -----------------------------
(***************************************************************************)
(* The redirect flow: loads of the callback with codes of either provider, *)
(* the same code twice among them.                                         *)
(***************************************************************************)
EXTENDS OAuthLogin, TLC

Symmetry == Permutations(Req) \cup Permutations(Person) \cup Permutations(AuthCode)
=============================================================================
