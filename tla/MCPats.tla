------------------------------- MODULE MCPats -------------------------------
(***************************************************************************)
(* PATs: the bootstrap admin's, and those created for it, exchanged,       *)
(* revoked, expiring and deleted with their user, all at the same time.    *)
(***************************************************************************)
EXTENDS Accounts, TLC

PatJobs == PatJob \cup {j \in NewPatJob : j.expires = "later"}
                  \cup {j \in UserJob : j.op = "deleteUser"}
Symmetry == Permutations(PatId) \cup Permutations(Req)
=============================================================================
