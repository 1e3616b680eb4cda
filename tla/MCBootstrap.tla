---------------------------- MODULE MCBootstrap -----------------------------
(***************************************************************************)
(* Bootstrap with a sandbox of one of two users.                            *)
(***************************************************************************)
EXTENDS Bootstrap, TLC

CONSTANT s1

MCowner == s1 :> "ann"

=============================================================================
