------------------------ MODULE MCSandboxController ------------------------
(***************************************************************************)
(* SandboxController on small instances.  Pod IPs are interchangeable; the *)
(* safety runs use that, the liveness runs do not.                         *)
(***************************************************************************)
EXTENDS SandboxController, TLC

IPSymmetry == Permutations(IPs)

=============================================================================
