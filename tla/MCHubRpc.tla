------------------------------ MODULE MCHubRpc ------------------------------
(* A service with two capabilities, as the auth, directory and history       *)
(* services have.                                                            *)
EXTENDS HubRpc

CONSTANTS cap1, cap2

TwoCaps == <<cap1, cap2>>

=============================================================================
