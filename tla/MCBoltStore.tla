---------------------------- MODULE MCBoltStore -----------------------------
(* BoltStore with two goroutines on one bucket: one writes while the other   *)
(* reads or keeps a cursor.  A liveness property is checked, so there is no  *)
(* symmetry.                                                                 *)
EXTENDS BoltStore

=============================================================================
