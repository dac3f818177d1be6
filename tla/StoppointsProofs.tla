-------------------------- MODULE StoppointsProofs --------------------------
(***************************************************************************)
(* Proofs about Stoppoints, for every set of addresses, threads and words  *)
(* and any number of debug registers: that memory reads as the program's,  *)
(* that the registers stay in step with the enabled hardware stoppoints    *)
(* and with the threads, and that a detach leaves nothing behind.          *)
(***************************************************************************)
EXTENDS Stoppoints, TLAPS

\* The values the debug registers are given are register values.
LEMMA RegisterForType ==
    ASSUME NEW a \in Address, NEW mode \in Access, NEW size \in Nat
    PROVE  RegisterFor(a, mode, size) \in RegisterValue
<1>1. a \in Nat /\ a % 8 \in 0 .. 7 /\ a % 8 <= a
  BY StoppointsAssumption
<1>2. a .. a + 3 \subseteq Nat
  BY <1>1
<1>3. ASSUME NEW b \in ByteSelect(a, size)
      PROVE  (a - (a % 8)) + b \in Nat
  BY <1>1 DEF ByteSelect
<1>4. QED
  BY <1>2, <1>3 DEF RegisterFor, RegisterValue

\* So is a cleared register pair.
LEMMA UnarmedType == Unarmed \in RegisterValue /\ ClearRegisters \in [Slot -> RegisterValue]
BY DEF Unarmed, RegisterValue, ClearRegisters

\* A stoppoint's mode and size, by its type.
LEMMA KeyFacts ==
    ASSUME TypeOK, NEW k \in Stoppoint
    PROVE  k[2] \in Address /\ ModeOf(k) \in Access /\ SizeOf(k) \in Nat
BY DEF TypeOK, Stoppoint, ModeOf, SizeOf, Access

\* Each register pair belongs to one bank.
LEMMA BankSlots ==
    ASSUME NEW mode, NEW i \in BankOf(mode)
    PROVE  i \in Slot /\ i \in Int
BY StoppointsAssumption DEF BankOf, Bank, Slot

\* Enabling a stoppoint keeps the types of what it changes.
LEMMA EnableStepType ==
    ASSUME TypeOK, NEW k \in created, NEW known, EnableStep(k, known)
    PROVE  /\ mem' \in [Cell -> Word] /\ saved' \in [Address -> Word]
           /\ slotOf' \in [Stoppoint -> Slot \cup {NoSlot}]
           /\ debug_state' \in [Slot -> RegisterValue]
           /\ thread_debug' \in [Thread -> [Slot -> RegisterValue]]
           /\ enabled' = enabled \cup {k} /\ overwritten' \subseteq Cell
<1> USE DEF TypeOK
<1>1. k \in Stoppoint /\ k[2] \in Address
  BY KeyFacts
<1>2. CASE EnableHardware(k, known)
  <2>1. PICK i \in FreeSlots(ModeOf(k)) :
          /\ slotOf' = [slotOf EXCEPT ![k] = i]
          /\ debug_state' = [debug_state EXCEPT ![i] = RegisterFor(k[2], ModeOf(k), SizeOf(k))]
          /\ WriteThreads(known, debug_state')
    BY <1>2 DEF EnableHardware, set_hardware_stoppoint
  <2>2. i \in Slot
    BY BankSlots DEF FreeSlots
  <2>3. debug_state' \in [Slot -> RegisterValue]
    BY <2>1, <2>2, KeyFacts, RegisterForType
  <2>4. thread_debug' \in [Thread -> [Slot -> RegisterValue]]
    BY <2>1, <2>3 DEF WriteThreads
  <2>5. slotOf' \in [Stoppoint -> Slot \cup {NoSlot}]
    BY <2>1, <2>2
  <2> QED
    BY <1>2, <2>3, <2>4, <2>5 DEF EnableHardware
<1>3. CASE EnableSoftware(k)
  BY <1>1, <1>3 DEF EnableSoftware, Word, Cell
<1> QED
  BY <1>2, <1>3 DEF EnableStep

\* Disabling a stoppoint keeps the types of what it changes.
LEMMA DisableStepType ==
    ASSUME TypeOK, NEW k \in created, DisableStep(k)
    PROVE  /\ mem' \in [Cell -> Word] /\ saved' = saved /\ slotOf' = slotOf
           /\ debug_state' \in [Slot -> RegisterValue]
           /\ thread_debug' \in [Thread -> [Slot -> RegisterValue]]
           /\ enabled' \in {enabled, enabled \ {k}} /\ overwritten' \subseteq Cell
<1> USE DEF TypeOK
<1>1. k \in Stoppoint /\ k[2] \in Address
  BY KeyFacts
<1>2. CASE DisableHardware(k)
  <2>1. debug_state' \in [Slot -> RegisterValue]
    BY <1>2, UnarmedType DEF DisableHardware, clear_hardware_stoppoint
  <2>2. thread_debug' \in [Thread -> [Slot -> RegisterValue]]
    BY <1>2, <2>1 DEF DisableHardware, clear_hardware_stoppoint, WriteThreads
  <2> QED
    BY <1>2, <2>1, <2>2 DEF DisableHardware, DisableStep
<1>3. CASE DisableSoftware(k)
  BY <1>1, <1>3 DEF DisableSoftware, DisableStep, Cell
<1> QED
  BY <1>2, <1>3 DEF DisableStep

\* Every address names a site and a watchpoint.
LEMMA StoppointOfSite ==
    ASSUME NEW a \in Address
    PROVE  Site(a) \in Stoppoint /\ Watch(a) \in Stoppoint
BY DEF Site, Watch, Stoppoint

\* What a detach that disabled the stoppoints D leaves behind.
DetachEffect(D) ==
    LET cleared == {k \in D : IsHardware(k)}
    IN  /\ enabled' = enabled \ D
        /\ mem' = [c \in Cell |-> IF Site(c) \in D \ cleared THEN saved[c] ELSE mem[c]]
        /\ debug_state' = [i \in Slot |-> IF \E k \in cleared : slotOf[k] = i
                                           THEN Unarmed ELSE debug_state[i]]
        /\ IF cleared = {} THEN UNCHANGED thread_debug
           ELSE WriteThreads(ports, debug_state')

\* A detach disables all the enabled stoppoints, or those before the one that
\* could not be disabled.
LEMMA DetachReaches ==
    ASSUME Detach
    PROVE  \E D \in SUBSET enabled :
             /\ DetachEffect(D)
             /\ D # enabled => \E k \in enabled \ D : ~IsHardware(k) /\ ~CanAccess({k[2]})
<1> DEFINE stuck == {k \in enabled : ~IsHardware(k) /\ ~CanAccess({k[2]})}
<1>1. CASE stuck = {}
  <2>1. DetachEffect(enabled)
    BY <1>1 DEF Detach, DetachEffect
  <2>2. QED
    BY <2>1
<1>2. CASE stuck # {}
  <2>1. PICK D \in SUBSET {k \in enabled \ stuck : k[1] = "site"} : DetachEffect(D)
    BY <1>2 DEF Detach, DetachEffect
  <2>2. D \in SUBSET enabled /\ D \cap stuck = {}
    BY <2>1
  <2>3. QED
    BY <1>2, <2>1, <2>2
<1>3. QED
  BY <1>1, <1>2

\* A site is out only during a step.
NothingLifted == phase \in {"prompt", "running"} => lifted = {}

\* Every command and every step of the inferior keeps every variable in its
\* type, for all instances; in particular a stoppoint that is still enabled is
\* never erased from its collection.
THEOREM TypeCorrect == Spec => [](TypeOK /\ NothingLifted)
<1> DEFINE TypeInv == TypeOK /\ NothingLifted
<1>1. Init => TypeInv
  BY UnarmedType, StoppointsAssumption
  DEF Init, NothingLifted, TypeOK, Phase, Word, Stoppoint, NoWatch, Access
<1>2. TypeInv /\ [Next]_vars => TypeInv'
  <2> SUFFICES ASSUME TypeInv, [Next]_vars
               PROVE  TypeInv'
    OBVIOUS
  <2> USE DEF NothingLifted, inferiorVars, pointVars, registerVars
  <2>1. ASSUME NEW r \in SiteRequests, CreateSite(r[1], r[2])
        PROVE  TypeInv'
    <3>1. r[1] \in Address
      BY StoppointsAssumption
    <3>2. QED
      BY <2>1, <3>1, StoppointOfSite DEF CreateSite, TypeOK, Word
  <2>2. ASSUME NEW r \in WatchRequests, CreateWatch(r[1], r[2], r[3])
        PROVE  TypeInv'
    <3>1. r[1] \in Address /\ r[2] \in Access /\ r[3] \in Nat
      BY StoppointsAssumption
    <3>2. QED
      BY <2>2, <3>1, StoppointOfSite DEF CreateWatch, TypeOK
  <2>3. ASSUME NEW k \in Stoppoint, Enable(k)
        PROVE  TypeInv'
    BY <2>3, EnableStepType DEF Enable, TypeOK
  <2>4. ASSUME NEW k \in Stoppoint, Disable(k)
        PROVE  TypeInv'
    BY <2>4, DisableStepType DEF Disable, TypeOK
  <2>5. ASSUME NEW k \in Stoppoint, Remove(k)
        PROVE  TypeInv'
    <3>0. k \in created /\ lifted = lifted' /\ phase = "prompt"
      BY <2>5 DEF Remove
    <3>1. CASE DisableStep(k)
      BY <2>5, <3>0, <3>1, DisableStepType DEF Remove, TypeOK
    <3>2. CASE ~DisableStep(k)
      BY <2>5, <3>2 DEF Remove, TypeOK
    <3>3. QED
      BY <3>1, <3>2
  <2>6. ASSUME NEW c \in Cell, NEW w \in ProgramWord, WriteMemory(c, w)
        PROVE  TypeInv'
    BY <2>6 DEF WriteMemory, TypeOK, Word
  <2>7. CASE Resume
    BY <2>7 DEF Resume, TypeOK, Phase
  <2>8. CASE Detach
    <3>1. PICK D \in SUBSET enabled : DetachEffect(D)
      BY <2>8, DetachReaches
    <3>2. mem' \in [Cell -> Word]
      BY <3>1 DEF TypeOK, Cell, DetachEffect
    <3>3. debug_state' \in [Slot -> RegisterValue]
      BY <3>1, UnarmedType DEF TypeOK, DetachEffect
    <3>4. thread_debug' \in [Thread -> [Slot -> RegisterValue]]
      BY <3>1, <3>3 DEF TypeOK, WriteThreads, DetachEffect
    <3>5. QED
      BY <2>8, <3>1, <3>2, <3>3, <3>4 DEF Detach, DetachEffect, TypeOK, Phase
  <2>9. CASE Terminate
    BY <2>9 DEF Terminate, TypeOK, Phase
  <2>10. ASSUME NEW a \in Address, LiftSite(a)
         PROVE  TypeInv'
    BY <2>10, DisableStepType DEF LiftSite, TypeOK, Phase
  <2>11. ASSUME NEW t \in Thread, StartStep(t)
         PROVE  TypeInv'
    BY <2>11 DEF StartStep, TypeOK, Phase
  <2>12. CASE AbortStep
    BY <2>12 DEF AbortStep, TypeOK, Phase
  <2>13. CASE EndStep
    <3>1. ASSUME NEW k \in lifted, EnableStep(k, ports')
          PROVE  TypeInv'
      BY <2>13, <3>1, EnableStepType DEF EndStep, populate_existing_threads, TypeOK, Phase
    <3>2. CASE \A k \in lifted : ~EnableStep(k, ports')
      BY <2>13, <3>2 DEF EndStep, populate_existing_threads, TypeOK, Phase
    <3>3. QED
      BY <3>1, <3>2
  <2>14. ASSUME NEW t \in Thread, ThreadStart(t)
         PROVE  TypeInv'
    BY <2>14, UnarmedType DEF ThreadStart, TypeOK
  <2>15. ASSUME NEW t \in Thread, ThreadExit(t)
         PROVE  TypeInv'
    BY <2>15 DEF ThreadExit, TypeOK
  <2>16. ASSUME NEW c \in Cell, Unmap(c)
         PROVE  TypeInv'
    BY <2>16 DEF Unmap, TypeOK
  <2>17. ASSUME NEW c \in Cell, NEW w \in ProgramWord, Store(c, w)
         PROVE  TypeInv'
    BY <2>17 DEF Store, TypeOK, Word
  <2>18. CASE Die
    BY <2>18 DEF Die, TypeOK
  <2>19. CASE Stop
    BY <2>19 DEF Stop, populate_existing_threads, TypeOK, Phase
  <2>20. CASE ObserveExit
    BY <2>20 DEF ObserveExit, TypeOK, Phase
  <2>21. CASE UNCHANGED vars
    BY <2>21 DEF vars, TypeOK
  <2>22. QED
    BY <2>1, <2>2, <2>3, <2>4, <2>5, <2>6, <2>7, <2>8, <2>9, <2>10, <2>11, <2>12,
       <2>13, <2>14, <2>15, <2>16, <2>17, <2>18, <2>19, <2>20, <2>21
       DEF Next, Command, Stepping, Inferior
<1>3. QED
  BY <1>1, <1>2, PTL DEF Spec

-----------------------------------------------------------------------------
(* What read_memory_without_traps shows of memory. *)

\* A software stoppoint is the site at its address.
LEMMA SoftwareIsSite ==
    ASSUME NEW k \in Stoppoint, ~IsHardware(k)
    PROVE  k = Site(k[2]) /\ k[2] \in Address /\ k[2] \notin hardware
BY DEF Stoppoint, IsHardware, Site

\* Enabling hides its trap from the view: planting saves what was shown.
LEMMA EnableStepView ==
    ASSUME TypeOK, NEW k \in created, NEW known, EnableStep(k, known), hardware' = hardware
    PROVE  \A c \in Cell : /\ View(c)' = View(c)
                           /\ TrapsPlanted => (c \notin overwritten' /\ Planted(c)' => mem'[c] = Trap)
<1> USE DEF TypeOK
<1> SUFFICES ASSUME NEW c \in Cell
             PROVE  /\ View(c)' = View(c)
                    /\ TrapsPlanted => (c \notin overwritten' /\ Planted(c)' => mem'[c] = Trap)
  OBVIOUS
<1>1. CASE EnableHardware(k, known)
  <2>1. mem' = mem /\ saved' = saved /\ overwritten' = overwritten /\ enabled' = enabled \cup {k}
    BY <1>1 DEF EnableHardware
  <2>2. Planted(c)' <=> Planted(c)
    BY <1>1, <2>1 DEF EnableHardware, IsHardware, Planted, Site
  <2>3. QED
    BY <2>1, <2>2 DEF View, TrapsPlanted
<1>2. CASE EnableSoftware(k)
  <2>1. k = Site(k[2]) /\ k[2] \in Address /\ k[2] \notin hardware /\ k[2] \in Cell
    BY <1>2, SoftwareIsSite DEF EnableSoftware, Cell
  <2>2. /\ mem' = [mem EXCEPT ![k[2]] = Trap] /\ saved' = [saved EXCEPT ![k[2]] = mem[k[2]]]
        /\ enabled' = enabled \cup {k} /\ overwritten' = overwritten \ {k[2]}
    BY <1>2 DEF EnableSoftware
  <2>3. CASE c = k[2]
    <3>1. Planted(c)' /\ ~Planted(c)
      BY <2>1, <2>2, <2>3 DEF Planted, EnableStep
    <3>2. QED
      BY <2>1, <2>2, <2>3, <3>1 DEF View
  <2>4. CASE c # k[2]
    <3>1. Planted(c)' <=> Planted(c)
      BY <2>1, <2>2, <2>4 DEF Planted, Site
    <3>2. mem'[c] = mem[c] /\ saved'[c] = saved[c]
      BY <2>1, <2>2, <2>4 DEF Cell
    <3>3. QED
      BY <2>2, <2>4, <3>1, <3>2 DEF View, TrapsPlanted
  <2>5. QED
    BY <2>3, <2>4
<1>3. QED
  BY <1>1, <1>2 DEF EnableStep

\* Disabling shows again what the view showed: the saved word goes back.
LEMMA DisableStepView ==
    ASSUME TypeOK, NEW k \in created, DisableStep(k), hardware' = hardware
    PROVE  \A c \in Cell : /\ View(c)' = View(c)
                           /\ TrapsPlanted => (c \notin overwritten' /\ Planted(c)' => mem'[c] = Trap)
<1> USE DEF TypeOK
<1> SUFFICES ASSUME NEW c \in Cell
             PROVE  /\ View(c)' = View(c)
                    /\ TrapsPlanted => (c \notin overwritten' /\ Planted(c)' => mem'[c] = Trap)
  OBVIOUS
<1>1. CASE DisableHardware(k)
  <2>1. mem' = mem /\ saved' = saved /\ overwritten' = overwritten
        /\ enabled' \in {enabled, enabled \ {k}}
    BY <1>1 DEF DisableHardware
  <2>2. Planted(c)' <=> Planted(c)
    BY <1>1, <2>1 DEF DisableHardware, IsHardware, Planted, Site
  <2>3. QED
    BY <2>1, <2>2 DEF View, TrapsPlanted
<1>2. CASE DisableSoftware(k)
  <2>1. k = Site(k[2]) /\ k[2] \in Address /\ k[2] \notin hardware
    BY <1>2, SoftwareIsSite DEF DisableSoftware
  <2>2. /\ mem' = [mem EXCEPT ![k[2]] = saved[k[2]]] /\ saved' = saved
        /\ enabled' = enabled \ {k} /\ overwritten' = overwritten \ {k[2]}
    BY <1>2 DEF DisableSoftware
  <2>3. CASE c = k[2]
    <3>1. ~Planted(c)' /\ Planted(c)
      BY <2>1, <2>2, <2>3 DEF Planted, DisableStep
    <3>2. QED
      BY <2>1, <2>2, <2>3, <3>1 DEF View
  <2>4. CASE c # k[2]
    <3>1. Planted(c)' <=> Planted(c)
      BY <2>1, <2>2, <2>4 DEF Planted, Site
    <3>2. mem'[c] = mem[c] /\ saved'[c] = saved[c]
      BY <2>1, <2>2, <2>4 DEF Cell
    <3>3. QED
      BY <2>2, <2>4, <3>1, <3>2 DEF View, TrapsPlanted
  <2>5. QED
    BY <2>3, <2>4
<1>3. QED
  BY <1>1, <1>2 DEF DisableStep

\* Every step either leaves the whole view alone, or is a write of a program
\* word to one cell that has no trap; and no step loses a planted trap that
\* nobody wrote over.
LEMMA StepView ==
    ASSUME TypeOK, TypeOK', [Next]_vars
    PROVE  /\ \/ \A c \in Cell : View(c)' = View(c)
              \/ \E c \in Cell, w \in ProgramWord :
                   /\ ~Planted(c)
                   /\ \A d \in Cell : /\ Planted(d)' <=> Planted(d)
                                      /\ View(d)' = IF d = c THEN w ELSE View(d)
           /\ TrapsPlanted => TrapsPlanted'
<1> DEFINE Shown == /\ \A c \in Cell : View(c)' = View(c)
                    /\ TrapsPlanted => TrapsPlanted'
<1> USE DEF inferiorVars, pointVars, registerVars
<1>0. ASSUME mem' = mem, saved' = saved, enabled' = enabled, overwritten' = overwritten,
             \A c \in Cell : Planted(c)' <=> Planted(c)
      PROVE  Shown
  BY <1>0 DEF View, TrapsPlanted
<1>1. ASSUME NEW k \in created, NEW known, EnableStep(k, known), hardware' = hardware
      PROVE  Shown
  BY <1>1, EnableStepView DEF TrapsPlanted
<1>2. ASSUME NEW k \in created, DisableStep(k), hardware' = hardware
      PROVE  Shown
  BY <1>2, DisableStepView DEF TrapsPlanted
<1>3. ASSUME NEW c \in Cell, NEW w \in ProgramWord,
             mem' = [mem EXCEPT ![c] = w], UNCHANGED pointVars,
             overwritten' = IF Planted(c) THEN overwritten \cup {c} ELSE overwritten
      PROVE  /\ Shown \/ /\ ~Planted(c)
                         /\ \A d \in Cell : /\ Planted(d)' <=> Planted(d)
                                            /\ View(d)' = IF d = c THEN w ELSE View(d)
             /\ TrapsPlanted => TrapsPlanted'
  <2>1. \A d \in Cell : Planted(d)' <=> Planted(d)
    BY <1>3 DEF Planted
  <2>2. \A d \in Cell : mem'[d] = IF d = c THEN w ELSE mem[d]
    BY <1>3 DEF TypeOK
  <2>3. TrapsPlanted => TrapsPlanted'
    BY <1>3, <2>1, <2>2 DEF TrapsPlanted
  <2>4. QED
    BY <1>3, <2>1, <2>2, <2>3 DEF View
<1>4. ASSUME NEW r \in SiteRequests, CreateSite(r[1], r[2])
      PROVE  Shown
  <2>1. \A c \in Cell : /\ Planted(c)' <=> Planted(c)
                        /\ Planted(c) => saved'[c] = saved[c]
    BY <1>4, StoppointsAssumption DEF CreateSite, Planted, TypeOK, Site, Cell
  <2>2. QED
    BY <1>4, <2>1 DEF CreateSite, View, TrapsPlanted
<1>5. ASSUME NEW r \in WatchRequests, CreateWatch(r[1], r[2], r[3])
      PROVE  Shown
  BY <1>0, <1>5 DEF CreateWatch, Planted
<1>6. ASSUME NEW k \in Stoppoint, Enable(k)
      PROVE  Shown
  BY <1>1, <1>6 DEF Enable
<1>7. ASSUME NEW k \in Stoppoint, Disable(k)
      PROVE  Shown
  BY <1>2, <1>7 DEF Disable
<1>8. ASSUME NEW k \in Stoppoint, Remove(k)
      PROVE  Shown
  <2>1. CASE DisableStep(k)
    BY <1>2, <1>8, <2>1 DEF Remove
  <2>2. CASE ~DisableStep(k)
    BY <1>0, <1>8, <2>2 DEF Remove, Planted
  <2>3. QED
    BY <2>1, <2>2
<1>9. ASSUME NEW a \in Address, LiftSite(a)
      PROVE  Shown
  BY <1>2, <1>9 DEF LiftSite
<1>10. CASE EndStep
  <2>1. ASSUME NEW k \in lifted, EnableStep(k, ports')
        PROVE  Shown
    <3>1. k \in created /\ hardware' = hardware
      BY <1>10 DEF EndStep, TypeOK
    <3>2. QED
      BY <1>1, <2>1, <3>1
  <2>2. CASE \A k \in lifted : ~EnableStep(k, ports')
    BY <1>0, <1>10, <2>2 DEF EndStep, Planted
  <2>3. QED
    BY <2>1, <2>2
<1>11. CASE Detach
  <2>1. PICK D \in SUBSET enabled : DetachEffect(D)
    BY <1>11, DetachReaches
  <2>2. saved' = saved /\ hardware' = hardware /\ overwritten' = overwritten
    BY <1>11 DEF Detach
  <2>3. \A c \in Cell : IsHardware(Site(c)) <=> c \in hardware
    BY DEF IsHardware, Site
  <2>4. QED
    <3>1. ASSUME NEW c \in Cell
          PROVE  View(c)' = View(c) /\ (Planted(c)' => Planted(c) /\ mem'[c] = mem[c])
      <4>1. CASE Site(c) \in D
        BY <2>1, <2>2, <2>3, <4>1 DEF View, Planted, DetachEffect
      <4>2. CASE Site(c) \notin D
        BY <2>1, <2>2, <2>3, <4>2 DEF View, Planted, DetachEffect
      <4>3. QED
        BY <4>1, <4>2
    <3>2. QED
      BY <2>2, <3>1 DEF TrapsPlanted
<1>12. ASSUME \/ Resume \/ Terminate \/ AbortStep \/ Die \/ Stop \/ ObserveExit
              \/ \E t \in Thread : StartStep(t) \/ ThreadStart(t) \/ ThreadExit(t)
              \/ \E c \in Cell : Unmap(c)
              \/ UNCHANGED vars
       PROVE  Shown
  BY <1>0, <1>12
  DEF Resume, Terminate, AbortStep, Die, Stop, ObserveExit, StartStep, ThreadStart,
      ThreadExit, Unmap, vars, Planted
<1>13. ASSUME NEW c \in Cell, NEW w \in ProgramWord, WriteMemory(c, w) \/ Store(c, w)
       PROVE  /\ Shown \/ /\ ~Planted(c)
                          /\ \A d \in Cell : /\ Planted(d)' <=> Planted(d)
                                             /\ View(d)' = IF d = c THEN w ELSE View(d)
              /\ TrapsPlanted => TrapsPlanted'
  <2>1. /\ mem' = [mem EXCEPT ![c] = w] /\ UNCHANGED pointVars
        /\ overwritten' = IF Planted(c) THEN overwritten \cup {c} ELSE overwritten
    BY <1>13 DEF WriteMemory, Store
  <2>2. QED
    BY <1>3, <2>1
<1>14. QED
  BY <1>4, <1>5, <1>6, <1>7, <1>8, <1>9, <1>10, <1>11, <1>12, <1>13
  DEF Next, Command, Stepping, Inferior

\* Over every history of commands, steps, writes and unmapped pages, a planted
\* trap stays planted and read_memory_without_traps shows only program words.
THEOREM MemoryCorrect == Spec => [](TrapsPlanted /\ ProgramShown)
<1>1. Init => TrapsPlanted /\ ProgramShown
  BY DEF Init, TrapsPlanted, ProgramShown, Planted, View
<1>2. /\ TypeOK /\ TypeOK' /\ TrapsPlanted /\ ProgramShown /\ [Next]_vars
      => (TrapsPlanted /\ ProgramShown)'
  BY StepView DEF ProgramShown
<1>3. QED
  BY <1>1, <1>2, TypeCorrect, PTL DEF Spec

\* A trap that enable() planted is in memory until disable() takes it out,
\* unless the user or the inferior wrote over it.
THEOREM TrapsStayPlanted == Spec => []TrapsPlanted
BY MemoryCorrect, PTL

\* The stoppoints implement DebugView: every command maps to a move of traps
\* that is invisible in the view, or to a write where no trap is planted.
THEOREM ViewRefined == Spec => ViewPreserved
<1> DEFINE view == [c \in Cell |-> View(c)]
           planted == {c \in Cell : Planted(c)}
<1>1. Init => Memory!Init
  BY DEF Init, Memory!Init, Planted, View
<1>2. TypeOK /\ TypeOK' /\ [Next]_vars => [Memory!Next]_<<view, planted>>
  <2> SUFFICES ASSUME TypeOK, TypeOK', [Next]_vars
               PROVE  [Memory!Next]_<<view, planted>>
    OBVIOUS
  <2>1. CASE \A c \in Cell : View(c)' = View(c)
    <3>1. view' = view /\ planted' \subseteq Cell
      BY <2>1
    <3>2. QED
      BY <3>1 DEF Memory!Next, Memory!MoveTraps
  <2>2. ASSUME NEW c \in Cell, NEW w \in ProgramWord, ~Planted(c),
               \A d \in Cell : /\ Planted(d)' <=> Planted(d)
                              /\ View(d)' = IF d = c THEN w ELSE View(d)
        PROVE  [Memory!Next]_<<view, planted>>
    <3>1. planted' = planted /\ c \notin planted
      BY <2>2
    <3>2. view' = [view EXCEPT ![c] = w]
      BY <2>2
    <3>3. QED
      BY <3>1, <3>2 DEF Memory!Next, Memory!Write
  <2>3. QED
    BY <2>1, <2>2, StepView
<1>3. QED
  BY <1>1, <1>2, TypeCorrect, PTL DEF Spec, ViewPreserved, Memory!Spec

-----------------------------------------------------------------------------
(* The value given to a register pair. *)

\* An object of a legal size at a multiple of its size does not cross the end
\* of its doubleword, so that the byte select covers all of it.
LEMMA InDoubleword ==
    ASSUME NEW a \in Nat, NEW size \in {1, 2, 4, 8}, a % size = 0
    PROVE  (a % 8) + size <= 8
<1>1. CASE size = 1
  BY <1>1
<1>2. CASE size = 2
  BY <1>2
<1>3. CASE size = 4
  BY <1>3
<1>4. CASE size = 8
  BY <1>4
<1>5. QED
  BY <1>1, <1>2, <1>3, <1>4

\* Value register and byte select together name exactly the watched bytes.
LEMMA SelectedBytes ==
    ASSUME NEW a \in Nat, NEW size \in {1, 2, 4, 8}, a % size = 0
    PROVE  {(a - (a % 8)) + b : b \in ByteSelect(a, size)} = a .. a + size - 1
<1>1. a % 8 \in Nat /\ (a % 8) + size <= 8 /\ size \in Nat
  BY InDoubleword
<1>2. ByteSelect(a, size) = (a % 8) .. ((a % 8) + size - 1)
  BY <1>1 DEF ByteSelect
<1>3. ASSUME NEW x \in a .. a + size - 1
      PROVE  x \in {(a - (a % 8)) + b : b \in ByteSelect(a, size)}
  <2>1. x - (a - (a % 8)) \in (a % 8) .. ((a % 8) + size - 1)
    BY <1>1
  <2>2. x = (a - (a % 8)) + (x - (a - (a % 8)))
    BY <1>1
  <2>3. QED
    BY <1>2, <2>1, <2>2
<1>4. ASSUME NEW b \in ByteSelect(a, size)
      PROVE  (a - (a % 8)) + b \in a .. a + size - 1
  BY <1>1, <1>2
<1>5. QED
  BY <1>3, <1>4

\* A register pair guards the bytes its stoppoint was asked to guard.
LEMMA RegisterGuards ==
    ASSUME TypeOK, NEW k \in Stoppoint, Encodable(k[2], ModeOf(k), SizeOf(k))
    PROVE  RegisterFor(k[2], ModeOf(k), SizeOf(k)) = [access |-> ModeOf(k), bytes |-> Guarded(k)]
<1>1. k[2] \in Nat
  BY KeyFacts, StoppointsAssumption
<1>2. CASE ModeOf(k) = "execute"
  BY <1>2 DEF RegisterFor, Guarded
<1>3. CASE ModeOf(k) # "execute"
  <2>1. SizeOf(k) \in {1, 2, 4, 8} /\ k[2] % SizeOf(k) = 0
    BY <1>3 DEF Encodable
  <2>2. QED
    BY <1>1, <1>3, <2>1, SelectedBytes DEF RegisterFor, Guarded
<1>4. QED
  BY <1>2, <1>3

-----------------------------------------------------------------------------
(* The inductive invariant. *)

\* The debugger knows every thread of a process that is stopped.
ThreadsKnown == alive /\ phase \in {"prompt", "lifting"} => live \subseteq ports

\* Only an aligned address can hold a trap.
SoftwareAligned == \A k \in enabled : ~IsHardware(k) => k[2] \in Cell

RegisterInv == RegistersOwned /\ NoStrayArming /\ ThreadsKnown /\ SoftwareAligned

\* A pair with its enable bit clear belongs to nobody and is all clear.
LEMMA FreeIsUnarmed ==
    ASSUME TypeOK, RegistersOwned, alive, NEW i \in Slot, debug_state[i].access = "none"
    PROVE  debug_state[i] = Unarmed /\ \A k \in Armed : slotOf[k] # i
<1>1. ASSUME NEW k \in Armed
      PROVE  slotOf[k] # i
  <2>1. k \in Stoppoint
    BY DEF Armed, TypeOK
  <2>2. ModeOf(k) # "none"
    BY <2>1, KeyFacts DEF Access
  <2>3. debug_state[slotOf[k]] = [access |-> ModeOf(k), bytes |-> Guarded(k)]
    BY DEF RegistersOwned
  <2>4. QED
    BY <2>2, <2>3
<1>2. QED
  BY <1>1 DEF RegistersOwned

\* What does not touch the stoppoints or their pairs keeps the correspondence.
LEMMA OwnedFrame ==
    ASSUME RegistersOwned, alive' => alive,
           UNCHANGED <<enabled, hardware, watch, slotOf, debug_state>>
    PROVE  RegistersOwned'
BY DEF RegistersOwned, Armed, IsHardware, ModeOf, SizeOf, Guarded, BankOf

\* Neither a thread that ends nor the end of the process arms anything.
LEMMA StrayFrame ==
    ASSUME NoStrayArming, alive' => alive, live' \subseteq live,
           UNCHANGED <<debug_state, thread_debug>>
    PROVE  NoStrayArming'
BY DEF NoStrayArming

\* Disabling keeps the other sites where they are.
LEMMA AlignedFrame ==
    ASSUME SoftwareAligned, enabled' \subseteq enabled, hardware' = hardware
    PROVE  SoftwareAligned'
BY DEF SoftwareAligned, IsHardware

\* Enabling takes a free pair, or none.
LEMMA EnableRegisters ==
    ASSUME TypeOK, RegistersOwned, NoStrayArming, SoftwareAligned,
           NEW k \in created, NEW known, EnableStep(k, known),
           UNCHANGED <<alive, live, hardware, watch>>
    PROVE  RegistersOwned' /\ NoStrayArming' /\ SoftwareAligned'
<1> USE DEF TypeOK
<1>0. k \in Stoppoint /\ k \notin enabled /\ enabled' = enabled \cup {k}
  BY EnableStepType DEF EnableStep
<1>1. CASE EnableHardware(k, known)
  <2>1. /\ IsHardware(k) /\ alive
        /\ Encodable(k[2], ModeOf(k), SizeOf(k))
    BY <1>1 DEF EnableHardware, set_hardware_stoppoint
  <2>2. PICK i \in FreeSlots(ModeOf(k)) :
          /\ slotOf' = [slotOf EXCEPT ![k] = i]
          /\ debug_state' = [debug_state EXCEPT ![i] = RegisterFor(k[2], ModeOf(k), SizeOf(k))]
          /\ WriteThreads(known, debug_state')
    BY <1>1 DEF EnableHardware, set_hardware_stoppoint
  <2>3. i \in Slot /\ i \in BankOf(ModeOf(k)) /\ debug_state[i].access = "none"
    BY <2>2, BankSlots DEF FreeSlots
  <2>4. debug_state[i] = Unarmed /\ \A l \in Armed : slotOf[l] # i
    BY <2>1, <2>3, FreeIsUnarmed
  <2>5. debug_state'[i] = [access |-> ModeOf(k), bytes |-> Guarded(k)]
    BY <1>0, <2>1, <2>2, <2>3, RegisterGuards
  <2>6. Armed' = Armed \cup {k} /\ k \notin Armed
    BY <1>0, <2>1 DEF Armed, IsHardware
  <2>7. \A l \in Stoppoint : ModeOf(l)' = ModeOf(l) /\ SizeOf(l)' = SizeOf(l) /\ Guarded(l)' = Guarded(l)
    BY DEF ModeOf, SizeOf, Guarded
  <2>8. Armed \subseteq Stoppoint
    BY DEF Armed
  <2>9. /\ slotOf'[k] = i
        /\ \A l \in Armed : slotOf'[l] = slotOf[l] /\ debug_state'[slotOf[l]] = debug_state[slotOf[l]]
    <3>1. \A l \in Armed : slotOf[l] \in Slot
      BY <2>1, <2>8, BankSlots DEF RegistersOwned
    <3>2. QED
      BY <1>0, <2>2, <2>3, <2>4, <2>6, <2>8, <3>1
  <2>10. RegistersOwned'
    <3>1. ASSUME NEW l \in Armed'
          PROVE  /\ slotOf'[l] \in BankOf(ModeOf(l)')
                 /\ debug_state'[slotOf'[l]] = [access |-> ModeOf(l)', bytes |-> Guarded(l)']
      <4>1. CASE l = k
        BY <1>0, <2>3, <2>5, <2>7, <2>9, <4>1
      <4>2. CASE l \in Armed
        BY <2>1, <2>7, <2>8, <2>9, <4>2 DEF RegistersOwned
      <4>3. QED
        BY <2>6, <4>1, <4>2
    <3>2. \A l, n \in Armed' : slotOf'[l] = slotOf'[n] => l = n
      BY <2>1, <2>4, <2>6, <2>9 DEF RegistersOwned
    <3>3. ASSUME NEW j \in Slot, debug_state'[j] # Unarmed
          PROVE  \E l \in Armed' : slotOf'[l] = j
      <4>1. CASE j = i
        BY <2>6, <2>9, <4>1
      <4>2. CASE j # i
        <5>1. debug_state[j] # Unarmed
          BY <2>2, <3>3, <4>2
        <5>2. PICK l \in Armed : slotOf[l] = j
          BY <2>1, <5>1 DEF RegistersOwned
        <5>3. QED
          BY <2>6, <2>9, <5>2
      <4>3. QED
        BY <4>1, <4>2
    <3>4. QED
      BY <3>1, <3>2, <3>3 DEF RegistersOwned, BankOf
  <2>11. NoStrayArming'
    <3>1. ASSUME NEW t \in live, NEW j \in Slot
          PROVE  thread_debug'[t][j] \in {Unarmed, debug_state'[j]}
      <4>1. CASE t \in known
        BY <2>2, <4>1 DEF WriteThreads
      <4>2. CASE t \notin known
        <5>1. thread_debug'[t] = thread_debug[t]
          BY <2>2, <4>2 DEF WriteThreads
        <5>2. thread_debug[t][j] \in {Unarmed, debug_state[j]}
          BY <2>1 DEF NoStrayArming
        <5>3. QED
          BY <2>2, <2>4, <5>1, <5>2
      <4>3. QED
        BY <4>1, <4>2
    <3>2. QED
      BY <3>1 DEF NoStrayArming
  <2>12. SoftwareAligned'
    BY <1>0, <2>1 DEF SoftwareAligned, IsHardware
  <2>13. QED
    BY <2>10, <2>11, <2>12
<1>2. CASE EnableSoftware(k)
  <2>1. ~IsHardware(k) /\ k[2] \in Cell /\ UNCHANGED <<slotOf, debug_state, thread_debug>>
    BY <1>0, <1>2, KeyFacts DEF EnableSoftware, Cell
  <2>2. Armed' = Armed
    BY <1>0, <2>1 DEF Armed, IsHardware
  <2>3. RegistersOwned'
    BY <2>1, <2>2 DEF RegistersOwned, ModeOf, SizeOf, Guarded, BankOf
  <2>4. SoftwareAligned'
    BY <1>0, <2>1 DEF SoftwareAligned, IsHardware
  <2>5. QED
    BY <2>1, <2>3, <2>4, StrayFrame
<1>3. QED
  BY <1>1, <1>2 DEF EnableStep

\* Disabling gives back the pair of the stoppoint, in the threads too: the
\* debugger knows all of them.
LEMMA DisableRegisters ==
    ASSUME TypeOK, RegistersOwned, NoStrayArming, SoftwareAligned,
           NEW k \in created, DisableStep(k), alive => live \subseteq ports,
           UNCHANGED <<alive, live, hardware, watch>>
    PROVE  RegistersOwned' /\ NoStrayArming' /\ SoftwareAligned'
<1> USE DEF TypeOK
<1>0. /\ k \in Stoppoint /\ k \in enabled /\ slotOf' = slotOf
      /\ enabled' \subseteq enabled
  BY DisableStepType DEF DisableStep
<1>1. SoftwareAligned'
  BY <1>0, AlignedFrame
<1>2. CASE ~alive
  BY <1>1, <1>2 DEF RegistersOwned, NoStrayArming
<1>3. CASE alive /\ DisableHardware(k)
  <2>1. /\ enabled' = enabled \ {k} /\ k \in Armed
        /\ debug_state' = [debug_state EXCEPT ![slotOf[k]] = Unarmed]
        /\ WriteThreads(ports, debug_state')
    BY <1>0, <1>3 DEF DisableHardware, clear_hardware_stoppoint, Armed
  <2>2. Armed' = Armed \ {k} /\ Armed \subseteq Stoppoint
    BY <2>1 DEF Armed, IsHardware
  <2>3. \A l \in Stoppoint : ModeOf(l)' = ModeOf(l) /\ Guarded(l)' = Guarded(l)
    BY DEF ModeOf, SizeOf, Guarded
  <2>4. \A l \in Armed' : slotOf[l] # slotOf[k] /\ debug_state'[slotOf[l]] = debug_state[slotOf[l]]
    <3>1. \A l \in Armed : slotOf[l] \in Slot
      BY <1>3, <2>2, BankSlots DEF RegistersOwned
    <3>2. \A l \in Armed' : slotOf[l] # slotOf[k]
      BY <1>3, <2>1, <2>2 DEF RegistersOwned
    <3>3. QED
      BY <2>1, <2>2, <3>1, <3>2
  <2>5. RegistersOwned'
    <3>1. ASSUME NEW l \in Armed'
          PROVE  /\ slotOf'[l] \in BankOf(ModeOf(l)')
                 /\ debug_state'[slotOf'[l]] = [access |-> ModeOf(l)', bytes |-> Guarded(l)']
      BY <1>0, <1>3, <2>2, <2>3, <2>4 DEF RegistersOwned
    <3>2. \A l, n \in Armed' : slotOf'[l] = slotOf'[n] => l = n
      BY <1>0, <1>3, <2>2 DEF RegistersOwned
    <3>3. ASSUME NEW j \in Slot, debug_state'[j] # Unarmed
          PROVE  \E l \in Armed' : slotOf'[l] = j
      <4>1. j # slotOf[k] /\ debug_state[j] # Unarmed
        BY <2>1, <3>3
      <4>2. PICK l \in Armed : slotOf[l] = j
        BY <1>3, <4>1 DEF RegistersOwned
      <4>3. QED
        BY <1>0, <2>2, <4>1, <4>2
    <3>4. QED
      BY <3>1, <3>2, <3>3 DEF RegistersOwned, BankOf
  <2>6. NoStrayArming'
    BY <1>3, <2>1 DEF NoStrayArming, WriteThreads
  <2>7. QED
    BY <1>1, <2>5, <2>6
<1>4. CASE alive /\ DisableSoftware(k)
  <2>1. /\ ~IsHardware(k) /\ enabled' = enabled \ {k}
        /\ UNCHANGED <<debug_state, thread_debug>>
    BY <1>4 DEF DisableSoftware
  <2>2. Armed' = Armed
    BY <2>1 DEF Armed, IsHardware
  <2>3. RegistersOwned'
    BY <1>0, <2>1, <2>2 DEF RegistersOwned, ModeOf, SizeOf, Guarded, BankOf
  <2>4. QED
    BY <1>1, <2>1, <2>3, StrayFrame
<1>5. QED
  BY <1>2, <1>3, <1>4 DEF DisableStep

\* Creating a stoppoint touches no enabled one.
LEMMA CreateRegisters ==
    ASSUME TypeOK, RegistersOwned, SoftwareAligned,
           NEW n \in Stoppoint, n \notin enabled, enabled' = enabled,
           \A k \in enabled : /\ IsHardware(k)' <=> IsHardware(k)
                              /\ ModeOf(k)' = ModeOf(k) /\ Guarded(k)' = Guarded(k),
           slotOf' = [slotOf EXCEPT ![n] = NoSlot],
           UNCHANGED <<alive, debug_state>>
    PROVE  RegistersOwned' /\ SoftwareAligned'
<1>1. Armed' = Armed /\ Armed \subseteq enabled /\ enabled \subseteq Stoppoint
  BY DEF Armed, TypeOK
<1>2. \A k \in Armed : slotOf'[k] = slotOf[k]
  BY <1>1 DEF TypeOK
<1>3. RegistersOwned'
  BY <1>1, <1>2 DEF RegistersOwned, BankOf
<1>4. SoftwareAligned'
  BY DEF SoftwareAligned
<1>5. QED
  BY <1>3, <1>4

\* A detach gives back the pairs of the stoppoints it reached, and no others.
LEMMA DetachRegisters ==
    ASSUME TypeOK, RegistersOwned, NoStrayArming, alive, live \subseteq ports,
           NEW D \in SUBSET enabled, DetachEffect(D),
           UNCHANGED <<alive, live, hardware, watch, slotOf>>
    PROVE  RegistersOwned' /\ NoStrayArming'
<1> DEFINE cleared == {k \in D : IsHardware(k)}
<1> USE DEF TypeOK
<1>1. /\ enabled' = enabled \ D
      /\ debug_state' = [i \in Slot |-> IF \E k \in cleared : slotOf[k] = i
                                         THEN Unarmed ELSE debug_state[i]]
      /\ IF cleared = {} THEN UNCHANGED thread_debug ELSE WriteThreads(ports, debug_state')
  BY DEF DetachEffect
<1>2. Armed' = Armed \ cleared /\ cleared \subseteq Armed /\ Armed \subseteq Stoppoint
  BY <1>1 DEF Armed, IsHardware
<1> HIDE DEF cleared
<1>3. \A l \in Stoppoint : ModeOf(l)' = ModeOf(l) /\ Guarded(l)' = Guarded(l)
  BY DEF ModeOf, SizeOf, Guarded
<1>4. \A l \in Armed : slotOf[l] \in Slot
  BY <1>2, BankSlots DEF RegistersOwned
<1>5. \A l \in Armed' : debug_state'[slotOf[l]] = debug_state[slotOf[l]]
  BY <1>1, <1>2, <1>4 DEF RegistersOwned
<1>6. RegistersOwned'
  <2>1. ASSUME NEW l \in Armed'
        PROVE  /\ slotOf'[l] \in BankOf(ModeOf(l)')
               /\ debug_state'[slotOf'[l]] = [access |-> ModeOf(l)', bytes |-> Guarded(l)']
    BY <1>2, <1>3, <1>5 DEF RegistersOwned
  <2>2. \A l, n \in Armed' : slotOf'[l] = slotOf'[n] => l = n
    BY <1>2 DEF RegistersOwned
  <2>3. ASSUME NEW j \in Slot, debug_state'[j] # Unarmed
        PROVE  \E l \in Armed' : slotOf'[l] = j
    <3>1. debug_state[j] # Unarmed /\ ~\E k \in cleared : slotOf[k] = j
      BY <1>1, <2>3
    <3>2. PICK l \in Armed : slotOf[l] = j
      BY <3>1 DEF RegistersOwned
    <3>3. QED
      BY <1>2, <3>1, <3>2
  <2>4. QED
    BY <2>1, <2>2, <2>3 DEF RegistersOwned, BankOf
<1>7. NoStrayArming'
  <2>1. CASE cleared = {}
    <3>1. thread_debug' = thread_debug /\ \A i \in Slot : debug_state'[i] = debug_state[i]
      BY <1>1, <2>1
    <3>2. QED
      BY <3>1 DEF NoStrayArming
  <2>2. CASE cleared # {}
    BY <1>1, <2>2 DEF NoStrayArming, WriteThreads
  <2>3. QED
    BY <2>1, <2>2
<1>8. QED
  BY <1>6, <1>7

-----------------------------------------------------------------------------
\* One step, whoever takes it, keeps the registers in step with the stoppoints.
LEMMA StepRegisters ==
    ASSUME TypeOK, RegisterInv, [Next]_vars
    PROVE  RegisterInv'
<1> USE DEF RegisterInv, inferiorVars, pointVars, registerVars
<1>1. ASSUME NEW r \in SiteRequests, CreateSite(r[1], r[2])
      PROVE  RegisterInv'
  <2>1. r[1] \in Address /\ Site(r[1]) \in Stoppoint /\ Site(r[1]) \notin enabled
    BY <1>1, StoppointsAssumption, StoppointOfSite DEF CreateSite, TypeOK
  <2>2. ASSUME NEW k \in enabled
        PROVE  /\ IsHardware(k)' <=> IsHardware(k)
               /\ ModeOf(k)' = ModeOf(k) /\ Guarded(k)' = Guarded(k)
    <3>1. k \in Stoppoint /\ k # Site(r[1])
      BY <2>1 DEF TypeOK
    <3>2. k[1] = "watch" \/ k[2] # r[1]
      BY <3>1 DEF Stoppoint, Site
    <3>3. QED
      BY <1>1, <3>2 DEF CreateSite, IsHardware, ModeOf, SizeOf, Guarded
  <2>3. RegistersOwned' /\ SoftwareAligned'
    BY <1>1, <2>1, <2>2, CreateRegisters DEF CreateSite
  <2>4. NoStrayArming' /\ ThreadsKnown'
    BY <1>1, StrayFrame DEF CreateSite, ThreadsKnown
  <2>5. QED
    BY <2>3, <2>4
<1>2. ASSUME NEW r \in WatchRequests, CreateWatch(r[1], r[2], r[3])
      PROVE  RegisterInv'
  <2>1. r[1] \in Address /\ Watch(r[1]) \in Stoppoint /\ Watch(r[1]) \notin enabled
    BY <1>2, StoppointsAssumption, StoppointOfSite DEF CreateWatch, TypeOK
  <2>2. ASSUME NEW k \in enabled
        PROVE  /\ IsHardware(k)' <=> IsHardware(k)
               /\ ModeOf(k)' = ModeOf(k) /\ Guarded(k)' = Guarded(k)
    <3>1. k \in Stoppoint /\ k # Watch(r[1])
      BY <2>1 DEF TypeOK
    <3>2. k[1] = "site" \/ (k[2] \in Address /\ k[2] # r[1])
      BY <3>1 DEF Stoppoint, Watch
    <3>3. k[1] = "site" \/ watch'[k[2]] = watch[k[2]]
      BY <1>2, <2>1, <3>2 DEF CreateWatch, TypeOK
    <3>4. QED
      BY <1>2, <3>3 DEF CreateWatch, IsHardware, ModeOf, SizeOf, Guarded
  <2>3. RegistersOwned' /\ SoftwareAligned'
    BY <1>2, <2>1, <2>2, CreateRegisters DEF CreateWatch
  <2>4. NoStrayArming' /\ ThreadsKnown'
    BY <1>2, StrayFrame DEF CreateWatch, ThreadsKnown
  <2>5. QED
    BY <2>3, <2>4
<1>3. ASSUME NEW k \in Stoppoint, Enable(k)
      PROVE  RegisterInv'
  BY <1>3, EnableRegisters DEF Enable, ThreadsKnown
<1>4. ASSUME NEW k \in Stoppoint, Disable(k)
      PROVE  RegisterInv'
  BY <1>4, DisableRegisters DEF Disable, ThreadsKnown
<1>5. ASSUME NEW k \in Stoppoint, Remove(k)
      PROVE  RegisterInv'
  <2>1. ThreadsKnown' /\ (alive => live \subseteq ports)
    BY <1>5 DEF Remove, ThreadsKnown
  <2>2. CASE DisableStep(k)
    BY <1>5, <2>1, <2>2, DisableRegisters DEF Remove
  <2>3. CASE ~DisableStep(k)
    BY <1>5, <2>1, <2>3, OwnedFrame, StrayFrame, AlignedFrame DEF Remove
  <2>4. QED
    BY <2>2, <2>3
<1>6. ASSUME NEW a \in Address, LiftSite(a)
      PROVE  RegisterInv'
  BY <1>6, DisableRegisters DEF LiftSite, ThreadsKnown
<1>7. CASE EndStep
  <2>1. ThreadsKnown'
    BY <1>7 DEF EndStep, populate_existing_threads, ThreadsKnown
  <2>2. ASSUME NEW k \in lifted, EnableStep(k, ports')
        PROVE  RegisterInv'
    <3>1. k \in created /\ UNCHANGED <<alive, live, hardware, watch>>
      BY <1>7 DEF EndStep, TypeOK
    <3>2. QED
      BY <2>1, <2>2, <3>1, EnableRegisters
  <2>3. CASE \A k \in lifted : ~EnableStep(k, ports')
    BY <1>7, <2>1, <2>3, OwnedFrame, StrayFrame, AlignedFrame DEF EndStep
  <2>4. QED
    BY <2>2, <2>3
<1>8. CASE Detach
  <2>1. PICK D \in SUBSET enabled : DetachEffect(D)
    BY <1>8, DetachReaches
  <2>2. alive /\ live \subseteq ports /\ UNCHANGED <<alive, live, hardware, watch, slotOf>>
    BY <1>8 DEF Detach, ThreadsKnown
  <2>3. RegistersOwned' /\ NoStrayArming'
    BY <2>1, <2>2, DetachRegisters
  <2>4. ThreadsKnown'
    BY <1>8 DEF Detach, ThreadsKnown
  <2>5. SoftwareAligned'
    BY <2>1, <2>2, AlignedFrame DEF DetachEffect
  <2>6. QED
    BY <2>3, <2>4, <2>5
<1>9. ASSUME NEW t \in Thread, StartStep(t)
      PROVE  RegisterInv'
  <2>1. RegistersOwned' /\ ThreadsKnown' /\ SoftwareAligned'
    BY <1>9, OwnedFrame, AlignedFrame DEF StartStep, ThreadsKnown
  <2>2. NoStrayArming'
    BY <1>9 DEF StartStep, NoStrayArming, TypeOK
  <2>3. QED
    BY <2>1, <2>2
<1>10. ASSUME NEW t \in Thread, ThreadStart(t)
       PROVE  RegisterInv'
  <2>1. RegistersOwned' /\ ThreadsKnown' /\ SoftwareAligned'
    BY <1>10, OwnedFrame, AlignedFrame DEF ThreadStart, Executing, ThreadsKnown
  <2>2. NoStrayArming'
    BY <1>10 DEF ThreadStart, NoStrayArming, TypeOK, ClearRegisters
  <2>3. QED
    BY <2>1, <2>2
<1>11. CASE Stop
  <2>1. ThreadsKnown'
    BY <1>11 DEF Stop, populate_existing_threads, ThreadsKnown
  <2>2. QED
    BY <1>11, <2>1, OwnedFrame, StrayFrame, AlignedFrame DEF Stop
<1>12. ASSUME \/ \E c \in Cell, w \in ProgramWord : WriteMemory(c, w) \/ Store(c, w)
              \/ \E c \in Cell : Unmap(c)
              \/ \E t \in Thread : ThreadExit(t)
              \/ Resume \/ Terminate \/ AbortStep \/ Die \/ ObserveExit \/ UNCHANGED vars
       PROVE  RegisterInv'
  <2>1. /\ UNCHANGED <<enabled, hardware, watch, slotOf, debug_state, thread_debug, ports>>
        /\ live' \subseteq live
        /\ alive' \in {alive, FALSE}
    BY <1>12
    DEF WriteMemory, Store, Unmap, ThreadExit, Resume, Terminate, AbortStep, Die,
        ObserveExit, vars
  <2>2. alive' /\ phase' \in {"prompt", "lifting"} => phase' = phase
    BY <1>12
    DEF WriteMemory, Store, Unmap, ThreadExit, Resume, Terminate, AbortStep, Die,
        ObserveExit, vars
  <2>3. ThreadsKnown'
    BY <2>1, <2>2 DEF ThreadsKnown
  <2>4. alive' => alive
    BY <2>1, Zenon
  <2>5. RegistersOwned'
    BY <2>1, <2>4, OwnedFrame
  <2>6. NoStrayArming' /\ SoftwareAligned'
    BY <2>1, <2>4, StrayFrame, AlignedFrame
  <2>7. QED
    BY <2>3, <2>5, <2>6
<1>13. QED
  BY <1>1, <1>2, <1>3, <1>4, <1>5, <1>6, <1>7, <1>8, <1>9, <1>10, <1>11, <1>12
  DEF Next, Command, Stepping, Inferior

\* A process just attached to has no stoppoint and all its pairs are clear.
LEMMA InitRegisters == Init => RegisterInv
BY DEF Init, RegisterInv, RegistersOwned, NoStrayArming, ThreadsKnown, SoftwareAligned,
       Armed, ClearRegisters

\* The inductive invariant holds in every reachable state.
LEMMA RegisterInvHolds == Spec => []RegisterInv
<1>1. TypeOK /\ RegisterInv /\ [Next]_vars => RegisterInv'
  BY StepRegisters
<1>2. QED
  BY <1>1, InitRegisters, TypeCorrect, PTL DEF Spec

\* For any number of register pairs and threads, and any order of enables,
\* disables, steps, detaches and thread starts: every enabled hardware
\* stoppoint owns one pair of its bank that guards exactly its bytes, every
\* other pair is clear, and no thread is armed with anything else.
THEOREM RegistersCorrect == Spec => [](RegistersOwned /\ NoStrayArming)
<1>1. RegisterInv => RegistersOwned /\ NoStrayArming
  BY DEF RegisterInv
<1>2. QED
  BY <1>1, RegisterInvHolds, PTL

\* No thread keeps trapping on a stoppoint that was disabled, or on an old use
\* of a register pair.
THEOREM ThreadsNotStray == Spec => []NoStrayArming
BY RegistersCorrect, PTL

-----------------------------------------------------------------------------
(* Detaching. *)

\* A detach that was not stopped by a page that has gone disables everything.
LEMMA DetachLeavesNothing ==
    ASSUME TypeOK, RegisterInv, ProgramShown, Detach,
           (\A c \in Cell : Planted(c) => c \in mapped)'
    PROVE  /\ \A c \in Cell : mem'[c] \in ProgramWord
           /\ \A t \in live' : thread_debug'[t] = ClearRegisters
<1> USE DEF TypeOK
<1>1. PICK D \in SUBSET enabled :
        /\ DetachEffect(D)
        /\ D # enabled => \E k \in enabled \ D : ~IsHardware(k) /\ ~CanAccess({k[2]})
  BY DetachReaches
<1>2. /\ alive /\ live \subseteq ports
      /\ UNCHANGED <<alive, mapped, live, hardware, saved, slotOf>>
  BY DEF Detach, RegisterInv, ThreadsKnown
<1>3. D = enabled
  <2>1. SUFFICES ASSUME NEW k \in enabled \ D, ~IsHardware(k), ~CanAccess({k[2]})
                 PROVE  FALSE
    BY <1>1
  <2>2. k = Site(k[2]) /\ k[2] \in Cell /\ k[2] \notin hardware
    BY <2>1, SoftwareIsSite DEF RegisterInv, SoftwareAligned
  <2>3. Planted(k[2])'
    BY <1>1, <1>2, <2>1, <2>2 DEF DetachEffect, Planted
  <2>4. k[2] \notin mapped
    BY <1>2, <2>1 DEF CanAccess
  <2>5. QED
    BY <1>2, <2>2, <2>3, <2>4
<1>4. ASSUME NEW c \in Cell
      PROVE  mem'[c] \in ProgramWord
  <2>1. mem'[c] = IF Planted(c) THEN saved[c] ELSE mem[c]
    BY <1>1, <1>3 DEF DetachEffect, Planted, IsHardware, Site
  <2>2. QED
    BY <2>1 DEF ProgramShown, View
<1>5. debug_state' = ClearRegisters
  <2>1. ASSUME NEW i \in Slot
        PROVE  debug_state'[i] = Unarmed
    <3>1. debug_state[i] # Unarmed => \E k \in Armed : slotOf[k] = i
      BY <1>2 DEF RegisterInv, RegistersOwned
    <3>2. QED
      BY <1>1, <1>3, <3>1 DEF DetachEffect, Armed
  <2>2. QED
    BY <1>1, <2>1 DEF DetachEffect, ClearRegisters
<1>6. ASSUME NEW t \in live
      PROVE  thread_debug'[t] = ClearRegisters
  <2>1. t \in Thread /\ t \in ports
    BY <1>2
  <2>2. CASE Armed = {}
    <3>1. thread_debug' = thread_debug
      BY <1>1, <1>3, <2>2 DEF DetachEffect, Armed
    <3>2. \A i \in Slot : debug_state[i] = Unarmed
      BY <1>2, <2>2 DEF RegisterInv, RegistersOwned
    <3>3. \A i \in Slot : thread_debug[t][i] = Unarmed
      BY <1>2, <3>2 DEF RegisterInv, NoStrayArming
    <3>4. thread_debug[t] \in [Slot -> RegisterValue]
      BY <2>1
    <3>5. QED
      BY <3>1, <3>3, <3>4 DEF ClearRegisters
  <2>3. CASE Armed # {}
    BY <1>1, <1>3, <1>5, <2>1, <2>3 DEF DetachEffect, Armed, WriteThreads
  <2>4. QED
    BY <2>2, <2>3
<1>7. QED
  BY <1>2, <1>4, <1>6

\* Whatever was created, enabled, lifted and written before, ~process of an
\* attached process leaves neither a trap nor an armed register in it, unless
\* the page of an enabled software site had been unmapped.
THEOREM DetachCorrect == Spec => []DetachClean
<1>1. Init => DetachClean
  BY DEF Init, DetachClean
<1>2. TypeOK /\ RegisterInv /\ ProgramShown /\ DetachClean /\ [Next]_vars => DetachClean'
  <2> SUFFICES ASSUME TypeOK, RegisterInv, ProgramShown, DetachClean, [Next]_vars,
                      phase' = "detached", (\A c \in Cell : Planted(c) => c \in mapped)'
               PROVE  /\ \A c \in Cell : mem'[c] \in ProgramWord
                      /\ alive' => \A t \in live' : thread_debug'[t] = ClearRegisters
    BY DEF DetachClean
  <2>1. CASE Detach
    BY <2>1, DetachLeavesNothing
  <2>2. CASE ~Detach
    <3>1. phase = "detached" /\ (Die \/ UNCHANGED vars)
      BY <2>2
      DEF Next, Command, Stepping, Inferior, vars, CreateSite, CreateWatch, Enable,
          Disable, Remove, WriteMemory, Resume, Terminate, LiftSite, StartStep, AbortStep,
          EndStep, ThreadStart, ThreadExit, Unmap, Store, Executing, Die, Stop, ObserveExit
    <3>2. /\ UNCHANGED <<mem, mapped, live, enabled, hardware, thread_debug>>
          /\ alive' => alive
      BY <3>1 DEF Die, vars, inferiorVars, pointVars, registerVars
    <3>3. QED
      BY <3>1, <3>2 DEF DetachClean, Planted
  <2>3. QED
    BY <2>1, <2>2
<1>3. QED
  BY <1>1, <1>2, TypeCorrect, RegisterInvHolds, MemoryCorrect, PTL DEF Spec
=============================================================================
