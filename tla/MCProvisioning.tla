--------------------------- MODULE MCProvisioning ---------------------------
(* Provisioning with one device, which may present a key and a MAC address   *)
(* or leave either out; handlers of one device only share the mutex with     *)
(* those of another.                                                         *)
EXTENDS Provisioning

=============================================================================
