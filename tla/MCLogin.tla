------------------------------- MODULE MCLogin -------------------------------
(***************************************************************************)
(* OAuth logins, every identity with every email, on an empty database     *)
(* whose bootstrap admin owns one of the emails; the users log in again,   *)
(* refresh their JWTs, are promoted, demoted and deleted.                  *)
(***************************************************************************)
EXTENDS Accounts, TLC

AccountJobs == LoginJob \cup RoleJob \cup UserJob
Symmetry == Permutations(UserId) \cup Permutations(Req)
=============================================================================
