---------------------------- MODULE MCBreakpoints ---------------------------
(***************************************************************************)
(* Instances of Breakpoints for TLC.  Addresses 1 and 2 are in the         *)
(* executable, 3 and 4 in a library.  f is a function with a copy in each, *)
(* g a hardware breakpoint on a line of the executable and of the library  *)
(* that f also resolves to, p an address breakpoint in the library.        *)
(***************************************************************************)
EXTENDS Breakpoints

MCAddress == 1 .. 4
MCImageOf == [a \in MCAddress |-> IF a <= 2 THEN "exe" ELSE "lib"]
MCTargets == [b \in Breakpoint |-> CASE b = "f" -> {1, 3} [] b = "g" -> {2, 3, 4} [] b = "p" -> {4}]
=============================================================================
