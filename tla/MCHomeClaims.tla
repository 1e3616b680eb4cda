---------------------------- MODULE MCHomeClaims ----------------------------
(***************************************************************************)
(* Two sandboxes on one claim.  In half of the initial states the claim is *)
(* there already; one that sandbox 1 generates is not.                     *)
(***************************************************************************)
EXTENDS HomeClaims

MCInit == Init /\ (owner # 0 => ~claim)

MCSpec == MCInit /\ [][Next]_vars /\ Fairness

=============================================================================
