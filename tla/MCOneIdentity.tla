---------------------------- MODULE MCOneIdentity ---------------------------
(***************************************************************************)
(* The first logins of one user, on a system that no one else uses.        *)
(***************************************************************************)
EXTENDS Accounts

Logins == LoginJob
=============================================================================
