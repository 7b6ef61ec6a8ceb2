---------------------------- MODULE AuthContract ----------------------------
(***************************************************************************)
(* What the authentication service promises about the message server: the  *)
(* server's users and nkeys are those of some client list, and whenever     *)
(* they change it is to the current content of the password file, or to    *)
(* nothing because the hub is started again.                               *)
(***************************************************************************)

CONSTANT Nothing   \* the content of an empty store

VARIABLES
    store,    \* the content of the password file
    server    \* the client lists the server authenticates with

vars == <<store, server>>

Knows(list) == [users |-> list, nkeys |-> list]

Init == store = Nothing /\ server = Knows(Nothing)

Change == store' # store /\ UNCHANGED server

Apply == server' = Knows(store) /\ UNCHANGED store

Restart == server' = Knows(Nothing) /\ UNCHANGED store

Next == Change \/ Apply \/ Restart

Safe == Init /\ [][Next]_vars

\* A change reaches the server, unless another change comes in between.
Spec == Safe /\ WF_vars(Apply)
=============================================================================
