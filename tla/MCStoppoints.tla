---------------------------- MODULE MCStoppoints ----------------------------
(***************************************************************************)
(* Instances of Stoppoints for TLC: the requests of each run.              *)
(***************************************************************************)
EXTENDS Stoppoints, TLC

\* Software sites beside one hardware site, on two words.
SoftwareSites == {<<0, FALSE>>, <<4, FALSE>>, <<4, TRUE>>}
NoRequests == {}

\* Hardware sites and watchpoints that compete for the registers: the execute
\* watchpoint shares the breakpoint registers with the two sites, and the other
\* watchpoint guards the upper end of a doubleword.
HardwareSites == {<<0, TRUE>>, <<4, TRUE>>}
Watchpoints == {<<0, "execute", 4>>, <<6, "read_write", 2>>}

\* Threads are interchangeable.
Threads == Permutations(Thread)
=============================================================================
