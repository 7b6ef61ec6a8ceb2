---------------------------- MODULE MCWebSession ----------------------------
(***************************************************************************)
(* Two requests and a browser tab, with two connections to the hub: a      *)
(* session that is closed or replaced while its tab receives an event.     *)
(***************************************************************************)
EXTENDS WebSession, TLC

Symmetry == Permutations(Reqs)

=============================================================================
