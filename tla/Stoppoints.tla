----------------------------- MODULE Stoppoints -----------------------------
(***************************************************************************)
(* The stoppoints of one debugged process: software and hardware           *)
(* breakpoint sites, watchpoints, the trap words planted in the inferior's *)
(* memory, the ARM64 debug registers shared by hardware sites and          *)
(* watchpoints, and the copy of those registers that every thread holds.   *)
(*                                                                         *)
(* A stoppoint is named by its collection and its address: the two         *)
(* collections of sdb::process refuse a second entry at an address.  The   *)
(* order of the vectors behind the collections is left out: any order of   *)
(* creation is possible, so for_each may visit the entries in any order.   *)
(*                                                                         *)
(* A command that throws before it changed anything is a stuttering step.  *)
(***************************************************************************)
EXTENDS Integers, FiniteSets

CONSTANTS
    Address,       \* addresses a stoppoint may be asked for
    Thread,        \* threads the inferior may have
    NumSlots,      \* breakpoint registers, and as many watchpoint registers (16)
    ProgramWord,   \* instruction and data words of the program
    Trap,          \* brk #0
    Zero,          \* saved_data_ of a site that was never enabled
    SiteRequests,  \* <<address, is_hardware>>: the sites a user creates
    WatchRequests, \* <<address, mode, size>>: the watchpoints a user creates
    Volatile       \* the cells whose pages the inferior unmaps and writes

Access == {"execute", "write", "read_write"}

ASSUME StoppointsAssumption ==
    /\ Address \subseteq Nat
    /\ \A a \in Address : a - (a % 4) \in Address
    /\ NumSlots \in Nat \ {0}
    /\ Trap \notin ProgramWord
    /\ Zero \notin ProgramWord /\ Zero # Trap
    /\ Thread # {}
    /\ SiteRequests \subseteq Address \X BOOLEAN
    /\ Volatile \subseteq Address
    /\ WatchRequests \subseteq Address \X Access \X Nat

Word == ProgramWord \cup {Trap, Zero}
Cell == {a \in Address : a % 4 = 0}
Bank == [execute |-> 0 .. NumSlots - 1, watch |-> NumSlots .. 2 * NumSlots - 1]
Slot == 0 .. 2 * NumSlots - 1
NoSlot == -1

\* What one debug register pair makes the core trap on.
RegisterValue == [access : Access \cup {"none"}, bytes : SUBSET Nat]
Unarmed == [access |-> "none", bytes |-> {}]
ClearRegisters == [i \in Slot |-> Unarmed]

Site(a) == <<"site", a>>
Watch(a) == <<"watch", a>>
Stoppoint == {"site", "watch"} \X Address
NoWatch == [mode |-> "write", size |-> 0]

VARIABLES
    phase,         \* what the debugger is doing
    alive,         \* the inferior's task still exists
    mem,           \* the words in the inferior's memory
    mapped,        \* the cells that are mapped
    live,          \* the threads the inferior has
    ports,         \* ports_: the threads the debugger knows
    created,       \* breakpoint_sites_ and watchpoints_
    enabled,       \* the stoppoints with is_enabled_
    hardware,      \* the sites with is_hardware_
    saved,         \* saved_data_ of the site at an address
    watch,         \* mode_ and size_ of the watchpoint at an address
    slotOf,        \* hardware_register_index_
    debug_state,   \* debug_state_
    thread_debug,  \* the debug registers of each thread
    lifted,        \* the sites step_instruction has taken out for its step
    overwritten    \* history: cells written while their trap was planted

inferiorVars == <<alive, mem, mapped, live, overwritten>>
pointVars == <<created, enabled, hardware, saved, watch, slotOf>>
registerVars == <<debug_state, thread_debug>>
vars == <<phase, inferiorVars, ports, pointVars, registerVars, lifted>>

-----------------------------------------------------------------------------
(* Reading the state. *)

IsHardware(k) == k[1] = "watch" \/ k[2] \in hardware
ModeOf(k) == IF k[1] = "site" THEN "execute" ELSE watch[k[2]].mode
SizeOf(k) == IF k[1] = "site" THEN 4 ELSE watch[k[2]].size

Planted(c) == Site(c) \in enabled /\ c \notin hardware

\* read_memory_without_traps: the saved word stands in for a planted trap.
View(c) == IF Planted(c) THEN saved[c] ELSE mem[c]

CanAccess(cells) == alive /\ cells \subseteq mapped
CellsOf(a, n) == {c \in Cell : c < a + n /\ a < c + 4}

-----------------------------------------------------------------------------
(* The debug registers. *)

\* The checks at the head of set_hardware_stoppoint.
Encodable(a, mode, size) ==
    /\ size \in {1, 2, 4, 8}
    /\ IF mode = "execute" THEN a % 4 = 0 ELSE a % size = 0

\* The bytes a register pair selects: a value register that drops the low
\* three bits and an eight-bit byte select relative to it.
ByteSelect(a, size) == ((a % 8) .. ((a % 8) + size - 1)) \cap (0 .. 7)

RegisterFor(a, mode, size) ==
    IF mode = "execute"
    THEN [access |-> mode, bytes |-> a .. a + 3]
    ELSE [access |-> mode, bytes |-> {(a - (a % 8)) + b : b \in ByteSelect(a, size)}]

BankOf(mode) == IF mode = "execute" THEN Bank.execute ELSE Bank.watch
\* Mutant: the enable bit of the control register is not looked at.
FreeSlotsUnchecked(mode) == BankOf(mode)

FreeSlots(mode) == {i \in BankOf(mode) : debug_state[i].access = "none"}

\* thread_set_state on every thread the debugger knows.
WriteThreads(known, registers) ==
    thread_debug' = [t \in Thread |-> IF t \in known THEN registers ELSE thread_debug[t]]

\* The first free register pair is taken; when a thread refuses the new
\* registers everything is put back, which leaves no change to model.
set_hardware_stoppoint(k, known) ==
    LET a == k[2]
        mode == ModeOf(k)
    IN  /\ alive
        /\ Encodable(a, mode, SizeOf(k))
        /\ \E i \in FreeSlots(mode) :
             /\ \A j \in FreeSlots(mode) : i <= j
             /\ slotOf' = [slotOf EXCEPT ![k] = i]
             /\ debug_state' = [debug_state EXCEPT ![i] = RegisterFor(a, mode, SizeOf(k))]
             /\ WriteThreads(known, debug_state')

\* Mutant: debug_state_ is cleared, the threads are not told.
ClearStateOnly(i) ==
    /\ debug_state' = [debug_state EXCEPT ![i] = Unarmed]
    /\ UNCHANGED thread_debug

clear_hardware_stoppoint(i) ==
    /\ debug_state' = [debug_state EXCEPT ![i] = Unarmed]
    /\ IF alive THEN WriteThreads(ports, debug_state') ELSE UNCHANGED thread_debug

-----------------------------------------------------------------------------
(* Enabling and disabling one stoppoint. *)

EnableHardware(k, known) ==
    /\ IsHardware(k)
    /\ set_hardware_stoppoint(k, known)
    /\ enabled' = enabled \cup {k}
    /\ UNCHANGED <<mem, saved, overwritten>>

\* Mutant: the word is read only the first time the site is enabled.
EnableSoftwareSavedOnce(k) ==
    LET a == k[2]
    IN  /\ ~IsHardware(k)
        /\ a % 4 = 0
        /\ CanAccess({a})
        /\ saved' = [saved EXCEPT ![a] = IF @ = Zero THEN mem[a] ELSE @]
        /\ mem' = [mem EXCEPT ![a] = Trap]
        /\ enabled' = enabled \cup {k}
        /\ overwritten' = overwritten \ {a}
        /\ UNCHANGED <<slotOf, debug_state, thread_debug>>

EnableSoftware(k) ==
    LET a == k[2]
    IN  /\ ~IsHardware(k)
        /\ a % 4 = 0
        /\ CanAccess({a})
        /\ saved' = [saved EXCEPT ![a] = mem[a]]
        /\ mem' = [mem EXCEPT ![a] = Trap]
        /\ enabled' = enabled \cup {k}
        /\ overwritten' = overwritten \ {a}
        /\ UNCHANGED <<slotOf, debug_state, thread_debug>>

\* Mutant: enable() without its early return.
EnableStepTwice(k, known) == EnableHardware(k, known) \/ EnableSoftware(k)

EnableStep(k, known) ==
    /\ k \notin enabled
    /\ EnableHardware(k, known) \/ EnableSoftware(k)

\* A hardware stoppoint gives its register up before the threads are told; if
\* they cannot be told, the exception leaves is_enabled_ set.
DisableHardware(k) ==
    /\ IsHardware(k)
    /\ clear_hardware_stoppoint(slotOf[k])
    /\ enabled' = IF alive THEN enabled \ {k} ELSE enabled
    /\ UNCHANGED <<mem, saved, overwritten>>

\* Mutant: disable() forgets to clear is_enabled_.
DisableSoftwareKeepsFlag(k) ==
    LET a == k[2]
    IN  /\ ~IsHardware(k)
        /\ CanAccess({a})
        /\ mem' = [mem EXCEPT ![a] = saved[a]]
        /\ overwritten' = overwritten \ {a}
        /\ UNCHANGED <<enabled, saved, debug_state, thread_debug>>

DisableSoftware(k) ==
    LET a == k[2]
    IN  /\ ~IsHardware(k)
        /\ CanAccess({a})
        /\ mem' = [mem EXCEPT ![a] = saved[a]]
        /\ enabled' = enabled \ {k}
        /\ overwritten' = overwritten \ {a}
        /\ UNCHANGED <<saved, debug_state, thread_debug>>

DisableStep(k) ==
    /\ k \in enabled
    /\ UNCHANGED slotOf
    /\ DisableHardware(k) \/ DisableSoftware(k)

-----------------------------------------------------------------------------
(* Commands, given while the inferior is stopped at the prompt. *)

CreateSite(a, hw) ==
    /\ phase = "prompt"
    /\ Site(a) \notin created
    /\ created' = created \cup {Site(a)}
    /\ hardware' = IF hw THEN hardware \cup {a} ELSE hardware \ {a}
    /\ saved' = [saved EXCEPT ![a] = Zero]
    /\ slotOf' = [slotOf EXCEPT ![Site(a)] = NoSlot]
    /\ UNCHANGED <<phase, inferiorVars, ports, enabled, watch, registerVars, lifted>>

\* addr & (size - 1), on the bits that sizes up to sixteen have.
MaskAligned(a, size) ==
    \A b \in {1, 2, 4, 8} : (a \div b) % 2 = 0 \/ ((size - 1) \div b) % 2 = 0

\* The constructor reads the watched bytes, so they must be readable.
CreateWatch(a, mode, size) ==
    /\ phase = "prompt"
    /\ Watch(a) \notin created
    /\ MaskAligned(a, size)
    /\ CanAccess(CellsOf(a, size))
    /\ created' = created \cup {Watch(a)}
    /\ watch' = [watch EXCEPT ![a] = [mode |-> mode, size |-> size]]
    /\ slotOf' = [slotOf EXCEPT ![Watch(a)] = NoSlot]
    /\ UNCHANGED <<phase, inferiorVars, ports, enabled, hardware, saved, registerVars, lifted>>

Enable(k) ==
    /\ phase = "prompt"
    /\ k \in created
    /\ EnableStep(k, ports)
    /\ UNCHANGED <<phase, alive, mapped, live, ports, created, hardware, watch, lifted>>

Disable(k) ==
    /\ phase = "prompt"
    /\ k \in created
    /\ DisableStep(k)
    /\ UNCHANGED <<phase, alive, mapped, live, ports, created, hardware, watch, lifted>>

\* Mutant: erased without being disabled.
RemoveEnabled(k) ==
    /\ phase = "prompt"
    /\ k \in created
    /\ created' = created \ {k}
    /\ UNCHANGED <<phase, inferiorVars, ports, enabled, hardware, saved, watch, slotOf,
                   registerVars, lifted>>

\* Disable, then erase; a stoppoint that could not be disabled stays.
Remove(k) ==
    /\ phase = "prompt"
    /\ k \in created
    /\ \/ DisableStep(k)
       \/ /\ k \notin enabled
          /\ UNCHANGED <<mem, enabled, saved, slotOf, overwritten, registerVars>>
    /\ created' = IF k \in enabled' THEN created ELSE created \ {k}
    /\ UNCHANGED <<phase, alive, mapped, live, ports, hardware, watch, lifted>>

\* memory write: nothing looks at the sites that cover the bytes.
WriteMemory(c, w) ==
    /\ phase = "prompt"
    /\ CanAccess({c})
    /\ mem' = [mem EXCEPT ![c] = w]
    /\ overwritten' = IF Planted(c) THEN overwritten \cup {c} ELSE overwritten
    /\ UNCHANGED <<phase, alive, mapped, live, ports, pointVars, registerVars, lifted>>

-----------------------------------------------------------------------------
(* Running the inferior. *)

Resume ==
    /\ phase = "prompt" /\ alive
    /\ phase' = "running"
    /\ UNCHANGED <<inferiorVars, ports, pointVars, registerVars, lifted>>

\* step_instruction first disables the site under the pc of its thread ...
LiftSite(a) ==
    /\ phase = "prompt" /\ alive
    /\ Site(a) \in created
    /\ DisableStep(Site(a))
    /\ phase' = "lifting"
    /\ lifted' = {Site(a)}
    /\ UNCHANGED <<alive, mapped, live, ports, created, hardware, watch>>

\* ... then gives the thread debug_state_ with the step bit and lets it go.
\* At the prompt this is the step of a thread that sits on no enabled site.
StartStep(t) ==
    /\ phase \in {"prompt", "lifting"} /\ alive
    /\ t \in ports
    /\ phase' = "stepping"
    /\ thread_debug' = [thread_debug EXCEPT ![t] = debug_state]
    /\ UNCHANGED <<inferiorVars, ports, pointVars, debug_state, lifted>>

\* The thread's registers could not be set: the exception ends the command
\* with the site still out.
AbortStep ==
    /\ phase = "lifting" /\ ~alive
    /\ phase' = "prompt"
    /\ lifted' = {}
    /\ UNCHANGED <<inferiorVars, ports, pointVars, registerVars>>

\* What the inferior may do between a resume and the next stop.
Executing == phase \in {"running", "stepping"} /\ alive

ThreadStart(t) ==
    /\ Executing
    /\ t \notin live
    /\ live' = live \cup {t}
    /\ thread_debug' = [thread_debug EXCEPT ![t] = ClearRegisters]
    /\ UNCHANGED <<phase, alive, mem, mapped, overwritten, ports, pointVars, debug_state, lifted>>

ThreadExit(t) ==
    /\ Executing
    /\ t \in live /\ live # {t}
    /\ live' = live \ {t}
    /\ UNCHANGED <<phase, alive, mem, mapped, overwritten, ports, pointVars, registerVars, lifted>>

Unmap(c) ==
    /\ Executing
    /\ c \in mapped
    /\ mapped' = mapped \ {c}
    /\ UNCHANGED <<phase, alive, mem, live, overwritten, ports, pointVars, registerVars, lifted>>

\* The inferior stores a word, or maps a page whose file holds it.
Store(c, w) ==
    /\ Executing
    /\ mapped' = mapped \cup {c}
    /\ mem' = [mem EXCEPT ![c] = w]
    /\ overwritten' = IF Planted(c) THEN overwritten \cup {c} ELSE overwritten
    /\ UNCHANGED <<phase, alive, live, ports, pointVars, registerVars, lifted>>

\* SIGKILL can come from anywhere, also while the debugger sits at its prompt.
Die ==
    /\ alive
    /\ alive' = FALSE
    /\ UNCHANGED <<phase, mem, mapped, live, overwritten, ports, pointVars, registerVars, lifted>>

\* wait_on_signal learns of a stop and populates the thread table.
populate_existing_threads == ports' = live

Stop ==
    /\ phase = "running" /\ alive
    /\ phase' = "prompt"
    /\ populate_existing_threads
    /\ UNCHANGED <<inferiorVars, pointVars, registerVars, lifted>>

\* The tail of step_instruction: the lifted site goes back in.  If its page
\* has gone the exception leaves it disabled.
EndStep ==
    /\ phase = "stepping" /\ alive
    /\ phase' = "prompt"
    /\ populate_existing_threads
    /\ lifted' = {}
    /\ \/ \E k \in lifted : EnableStep(k, ports')
       \/ /\ \A k \in lifted : ~IsHardware(k) /\ ~CanAccess({k[2]})
          /\ UNCHANGED <<mem, enabled, saved, slotOf, overwritten, registerVars>>
    /\ UNCHANGED <<alive, mapped, live, created, hardware, watch>>

\* wait_on_signal learns that the process has exited or was killed.
ObserveExit ==
    /\ phase \in {"running", "stepping"} /\ ~alive
    /\ phase' = "exited"
    /\ UNCHANGED <<inferiorVars, ports, pointVars, registerVars, lifted>>

\* Mutant: a detach that leaves the stoppoints in.
DetachOnly ==
    /\ phase = "prompt" /\ alive
    /\ phase' = "detached"
    /\ UNCHANGED <<inferiorVars, ports, pointVars, registerVars, lifted>>

\* ~process of an attached process.  The first disable that throws ends the
\* cleanup: D are the stoppoints that were visited before it.
Detach ==
    LET stuck == {k \in enabled : ~IsHardware(k) /\ ~CanAccess({k[2]})}
        reached == IF stuck = {} THEN {enabled}
                   ELSE SUBSET {k \in enabled \ stuck : k[1] = "site"}
    IN  /\ phase = "prompt" /\ alive
        /\ phase' = "detached"
        /\ \E D \in reached :
             LET cleared == {k \in D : IsHardware(k)}
             IN  /\ enabled' = enabled \ D
                 /\ mem' = [c \in Cell |-> IF Site(c) \in D \ cleared THEN saved[c] ELSE mem[c]]
                 /\ debug_state' = [i \in Slot |-> IF \E k \in cleared : slotOf[k] = i
                                                    THEN Unarmed ELSE debug_state[i]]
                 /\ IF cleared = {} THEN UNCHANGED thread_debug
                    ELSE WriteThreads(ports, debug_state')
        /\ UNCHANGED <<alive, mapped, live, overwritten, ports, created, hardware,
                       saved, watch, slotOf, lifted>>

\* ~process of a launched process kills it and reaps it.
Terminate ==
    /\ phase = "prompt"
    /\ phase' = "exited"
    /\ alive' = FALSE
    /\ UNCHANGED <<mem, mapped, live, overwritten, ports, pointVars, registerVars, lifted>>

-----------------------------------------------------------------------------
\* A process that has just been attached to: no stoppoints, one thread known.
Init ==
    /\ phase = "prompt"
    /\ alive = TRUE
    /\ mem \in [Cell -> ProgramWord]
    /\ mapped = Cell
    /\ \E t \in Thread : live = {t} /\ ports = {t}
    /\ created = {} /\ enabled = {} /\ hardware = {}
    /\ saved = [a \in Address |-> Zero]
    /\ watch = [a \in Address |-> NoWatch]
    /\ slotOf = [k \in Stoppoint |-> NoSlot]
    /\ debug_state = ClearRegisters
    /\ thread_debug = [t \in Thread |-> ClearRegisters]
    /\ lifted = {} /\ overwritten = {}

Command ==
    \/ \E r \in SiteRequests : CreateSite(r[1], r[2])
    \/ \E r \in WatchRequests : CreateWatch(r[1], r[2], r[3])
    \/ \E k \in Stoppoint : Enable(k) \/ Disable(k) \/ Remove(k)
    \/ \E c \in Cell, w \in ProgramWord : WriteMemory(c, w)
    \/ Resume \/ Detach \/ Terminate

Stepping ==
    \/ \E a \in Address : LiftSite(a)
    \/ \E t \in Thread : StartStep(t)
    \/ AbortStep \/ EndStep

Inferior ==
    \/ \E t \in Thread : ThreadStart(t) \/ ThreadExit(t)
    \/ \E c \in Cell \cap Volatile : Unmap(c) \/ \E w \in ProgramWord : Store(c, w)
    \/ Die

Next == Command \/ Stepping \/ Inferior \/ Stop \/ ObserveExit

Spec == Init /\ [][Next]_vars

-----------------------------------------------------------------------------
Phase == {"prompt", "lifting", "running", "stepping", "exited", "detached"}

\* Every variable holds a value of its kind.
TypeOK ==
    /\ phase \in Phase
    /\ alive \in BOOLEAN
    /\ mem \in [Cell -> Word]
    /\ mapped \subseteq Cell
    /\ live \subseteq Thread /\ ports \subseteq Thread
    /\ created \subseteq Stoppoint /\ enabled \subseteq created
    /\ hardware \subseteq Address
    /\ saved \in [Address -> Word]
    /\ watch \in [Address -> [mode : Access, size : Nat]]
    /\ slotOf \in [Stoppoint -> Slot \cup {NoSlot}]
    /\ debug_state \in [Slot -> RegisterValue]
    /\ thread_debug \in [Thread -> [Slot -> RegisterValue]]
    /\ lifted \subseteq created /\ overwritten \subseteq Cell

\* The bytes the user asked a hardware stoppoint to guard: one instruction, or
\* the watched object.
Guarded(k) == IF ModeOf(k) = "execute" THEN k[2] .. k[2] + 3
                                       ELSE k[2] .. k[2] + SizeOf(k) - 1

Armed == {k \in enabled : IsHardware(k)}

\* set_hardware_stoppoint and clear_hardware_stoppoint keep the register pairs
\* and the enabled hardware stoppoints in one-to-one correspondence, whatever
\* the history of allocations, and each pair guards exactly the bytes asked for.
RegistersOwned ==
    alive =>
        /\ \A k \in Armed :
             /\ slotOf[k] \in BankOf(ModeOf(k))
             /\ debug_state[slotOf[k]] = [access |-> ModeOf(k), bytes |-> Guarded(k)]
        /\ \A k, l \in Armed : slotOf[k] = slotOf[l] => k = l
        /\ \A i \in Slot : debug_state[i] # Unarmed => \E k \in Armed : slotOf[k] = i

\* No thread, whenever it was created, keeps trapping on a stoppoint that has
\* been disabled, or on an old use of a register pair that was given away:
\* what a thread has armed is what debug_state_ holds now.
NoStrayArming ==
    alive => \A t \in live, i \in Slot : thread_debug[t][i] \in {Unarmed, debug_state[i]}

\* A trap that enable() planted stays in memory until disable() takes it out,
\* unless the user or the inferior wrote that word in between.
TrapsPlanted == \A c \in Cell \ overwritten : Planted(c) => mem[c] = Trap

\* read_memory_without_traps shows a word of the program for every cell: never a
\* trap of the debugger's own and never a saved word that was not read.
ProgramShown == \A c \in Cell : View(c) \in ProgramWord

\* After ~process has detached, the inferior holds no trap and no armed
\* register, unless a site's page had been unmapped so that it could not be
\* disabled.
DetachClean ==
    phase = "detached" /\ (\A c \in Cell : Planted(c) => c \in mapped) =>
        /\ \A c \in Cell : mem[c] \in ProgramWord
        /\ alive => \A t \in live : thread_debug[t] = ClearRegisters

-----------------------------------------------------------------------------
(* What the repository's tests say of stoppoints. *)

\* "watchpoint missed" (test/tests.cpp:60): an enabled watchpoint is armed in
\* every thread the debugger knows when it resumes the process.
ArmedInEveryThread ==
    [][phase = "prompt" /\ phase' = "running" => \A t \in ports : thread_debug[t] = debug_state]_vars

-----------------------------------------------------------------------------
(* The view of memory that the stoppoints must not disturb. *)
Memory == INSTANCE DebugView WITH
    view <- [c \in Cell |-> View(c)],
    planted <- {c \in Cell : Planted(c)}

\* What read_memory_without_traps gives changes only where no trap is planted, and
\* never because a stoppoint is created, enabled, lifted, disabled or removed.
ViewPreserved == Memory!Spec
=============================================================================
