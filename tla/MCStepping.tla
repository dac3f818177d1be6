----------------------------- MODULE MCStepping -----------------------------
(***************************************************************************)
(* A program for Stepping: main calls f and the library function at 13,    *)
(* and contains two nested inlined calls that start together; f is         *)
(* recursive, and both its recursive call and its end are on the last line.*)
(***************************************************************************)
EXTENDS Stepping

Op == [op |-> "op", to |-> 0]
Ret == [op |-> "ret", to |-> 0]
Bl(a) == [op |-> "bl", to |-> a]
Cbz(a) == [op |-> "cbz", to |-> a]

MCCode == <<Op, Bl(8), Op, Op, Op, Bl(13), Ret,     \* main
            Op, Op, Cbz(12), Bl(8), Ret,            \* f
            Ret>>                                   \* the library

Row(a, l) == [address |-> a, line |-> l, end_sequence |-> FALSE]
MCRows == <<Row(1, 1), Row(2, 2), Row(4, 3), Row(7, 4),
            Row(8, 10), Row(9, 11), Row(11, 12), Row(12, 12),
            [address |-> 13, line |-> 12, end_sequence |-> TRUE]>>

Die(l, h, d) == [low |-> l, high |-> h, depth |-> d]
MCDies == {Die(1, 8, 0), Die(4, 6, 1), Die(4, 5, 2), Die(8, 13, 0), Die(9, 10, 1)}

Functions == {FunctionAt(a) : a \in Address}

\* What the theorems assume of a program is so in this one.
ASSUME MCSteppingAssumption ==
    WellDescribed /\ Separate /\ \E rank \in [Functions -> 0 .. 1] : DirectRecursion(rank)
=============================================================================
