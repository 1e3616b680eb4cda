----------------------------- MODULE MCWebProxy -----------------------------
(***************************************************************************)
(* One user, one exposed port, one tab.                                    *)
(***************************************************************************)
EXTENDS WebProxy

=============================================================================
