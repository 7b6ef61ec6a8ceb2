---------------------------- MODULE MCDirectory -----------------------------
(* Directory with two documents and one client, which may open a second      *)
(* cursor after it has lost the first.                                       *)
EXTENDS Directory

=============================================================================
