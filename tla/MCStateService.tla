--------------------------- MODULE MCStateService ---------------------------
(* StateService with two clients that use the same two keys.                 *)
EXTENDS StateService

=============================================================================
