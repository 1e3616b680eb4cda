------------------------------- MODULE MCCLI -------------------------------
(***************************************************************************)
(* Three runs of the commands: one may generate the key pair, one sign     *)
(* in, one connect, in any order and overlapping.                          *)
(***************************************************************************)
EXTENDS CLI

=============================================================================
