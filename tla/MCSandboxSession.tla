------------------------- MODULE MCSandboxSession -------------------------
(***************************************************************************)
(* Instances of SandboxSession for TLC.                                    *)
(***************************************************************************)
EXTENDS SandboxSession, TLC

ConnSymmetry == Permutations(Conns)
=============================================================================
