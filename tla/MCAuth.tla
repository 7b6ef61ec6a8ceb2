------------------------------- MODULE MCAuth -------------------------------
(***************************************************************************)
(* Model-checking instances of Auth: the three accounts of                 *)
(* AuthService.Start and one client of the hub.                            *)
(***************************************************************************)
EXTENDS Auth
=============================================================================
