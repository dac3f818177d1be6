---------------------------- MODULE MCRunControl ----------------------------
(***************************************************************************)
(* Instances of RunControl for TLC.                                        *)
(***************************************************************************)
EXTENDS RunControl, TLC

\* Threads are interchangeable (used without liveness properties only).
Threads == Permutations(Thread)
=============================================================================
