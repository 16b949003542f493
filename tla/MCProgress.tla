----------------------------- MODULE MCProgress -----------------------------
(***************************************************************************)
(* Two replicas that start together on an empty database, of which one may *)
(* stop at any step and start again, logins on the ones that serve, and a  *)
(* deletion that races both; progress is under the fairness of FairSpec.   *)
(***************************************************************************)
EXTENDS Accounts

CONSTANT Deletable      \* the users the operator may delete

ProgressJobs == LoginJob \cup {j \in UserJob : j.op = "deleteUser" /\ j.user \in Deletable}
=============================================================================
