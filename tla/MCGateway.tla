----------------------------- MODULE MCGateway -----------------------------
(***************************************************************************)
(* One sandbox, one client and two pod addresses, so that the address of a *)
(* pod that is gone may be given to the next one, or not.                  *)
(***************************************************************************)
EXTENDS Gateway

=============================================================================
