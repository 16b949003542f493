------------------------------ MODULE MCDevice ------------------------------
(***************************************************************************)
(* The device flow: two pollers of one code, which may name the wrong      *)
(* provider, while a person resolves the code, time passes and the         *)
(* provider restarts.  The run checks liveness too, so without symmetry;   *)
(* that a login is for the right one of several people is in MCCallback.   *)
(***************************************************************************)
EXTENDS OAuthLogin
=============================================================================
