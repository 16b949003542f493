------------------------------- MODULE MCTokens -----------------------------
(***************************************************************************)
(* Tokens of two users, signed and presented at two replicas whose clocks  *)
(* differ, while roles change, users are deleted and time passes.  It      *)
(* starts as an installation does: with one admin and one user.            *)
(***************************************************************************)
EXTENDS Tokens, TLC

CONSTANTS s1, s2

Clocks == s1 :> 0 @@ s2 :> 1

MCInit == Init /\ {record[u] : u \in User} = Role
MCSpec == MCInit /\ [][Next]_vars

Symmetry == Permutations(User) \cup Permutations(Req)
=============================================================================
