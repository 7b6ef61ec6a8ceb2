----------------------------- MODULE MCHubCore ------------------------------
(***************************************************************************)
(* Model-checking instance of HubCore: one user, one service that          *)
(* registers capabilities, three processes of which two may crash.         *)
(***************************************************************************)
EXTENDS HubCore
=============================================================================
