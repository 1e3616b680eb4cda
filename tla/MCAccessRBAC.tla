---------------------------- MODULE MCAccessRBAC ----------------------------
(***************************************************************************)
(* AccessRBAC on two namespaces.  The grants differ in their namespaces,   *)
(* and in the rules of one.                                                *)
(***************************************************************************)
EXTENDS AccessRBAC, TLC

CONSTANTS a, b, r1, r2

MCGrants == {(a :> {r1}) @@ (b :> {}), (a :> {r2}) @@ (b :> {r1})}

=============================================================================
