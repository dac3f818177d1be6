----------------------------- MODULE MCLifecycle ----------------------------
(***************************************************************************)
(* Lifecycle for TLC: one session of each kind.                            *)
(***************************************************************************)
EXTENDS Lifecycle
=============================================================================
