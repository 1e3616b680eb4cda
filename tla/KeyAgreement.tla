---------------------------- MODULE KeyAgreement ----------------------------
(***************************************************************************)
(* What the bootstrap of a key promises: one key is chosen, for good, and  *)
(* whoever uses a key uses that one.                                       *)
(***************************************************************************)
CONSTANTS Keys, NoKey, Users

VARIABLES
    chosen,   \* the key, or NoKey
    uses      \* [Users -> the key in use, or NoKey]

Init == chosen = NoKey /\ uses = [u \in Users |-> NoKey]

Choose == chosen = NoKey /\ chosen' \in Keys /\ UNCHANGED uses

Use(u) == /\ chosen # NoKey
          /\ uses' = [uses EXCEPT ![u] = chosen]
          /\ UNCHANGED chosen

Drop(u) == uses' = [uses EXCEPT ![u] = NoKey] /\ UNCHANGED chosen

Next == Choose \/ \E u \in Users : Use(u) \/ Drop(u)

Spec == Init /\ [][Next]_<<chosen, uses>>

=============================================================================
