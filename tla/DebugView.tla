----------------------------- MODULE DebugView ------------------------------
(***************************************************************************)
(* What breakpoint sites promise about memory.  view is the program's      *)
(* memory as read_memory_without_traps shows it (disassembly; the command  *)
(* memory read shows the raw words, traps included), planted               *)
(* the cells that hold a trap.  Planting and lifting traps is invisible;   *)
(* a word changes by a write to a cell that has no trap.                   *)
(***************************************************************************)
CONSTANTS Cell, ProgramWord
VARIABLES view, planted

Init ==
    /\ view \in [Cell -> ProgramWord]
    /\ planted = {}

\* Enabling, disabling, lifting or removing sites, or all of them at once.
MoveTraps ==
    /\ planted' \subseteq Cell
    /\ UNCHANGED view

\* A write by the user or by the program itself.
Write(c, w) ==
    /\ c \notin planted
    /\ view' = [view EXCEPT ![c] = w]
    /\ UNCHANGED planted

Next == MoveTraps \/ \E c \in Cell, w \in ProgramWord : Write(c, w)

Spec == Init /\ [][Next]_<<view, planted>>
=============================================================================
