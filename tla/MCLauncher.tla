----------------------------- MODULE MCLauncher -----------------------------
(* Launcher with a core and one plugin, which is installed while the         *)
(* launcher runs, and one request handler: the requests of a service arrive  *)
(* on one subscription, one at a time.                                       *)
EXTENDS Launcher

CONSTANTS core, a

OnePlugin  == {core, a}
AutostartA == <<a>>
=============================================================================
