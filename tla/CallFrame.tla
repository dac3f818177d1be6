------------------------------ MODULE CallFrame -----------------------------
(***************************************************************************)
(* Unwinding one frame (sdb::call_frame_information::unwind): compact      *)
(* unwind info first, then the call frame instructions of the FDE of the   *)
(* pc, then the chain of frame pointers.                                   *)
(*                                                                         *)
(* The function to unwind is not given: a step executes one instruction a  *)
(* compiler may put into a prologue, body or epilogue, and appends the     *)
(* call frame instructions that describe it.  snapshots keeps the machine  *)
(* at every location, so that the finished program is run from each.       *)
(* Memory is counted in words of eight bytes.                              *)
(***************************************************************************)
EXTENDS Integers, Sequences, FiniteSets, SequencesExt

CONSTANTS
    FrameShapes,      \* the kinds of function and of unwind information: see TypedShape
    EhFrames,         \* contents of .eh_frame: sequences of records
    CompactPages,     \* the pages of __unwind_info: [first, next, entries]
    FuncStart,        \* the address of the function
    MaxLocation       \* bound on its length

CfiReg == {"sp", "fp", "lr", "x19", "x20", "x9"}
Caller == [sp |-> 10, fp |-> 16, lr |-> 100, x19 |-> 200, x20 |-> 210, x9 |-> 300]   \* at the call
Junk == 999
Words == 0 .. 17

\* body: a frame record and a saved pair, or only stack space.  compact: the
\* mode of the function in __unwind_info, "absent" without that section, or "bad"
\* if its version, page kind or encoding index is wrong or it is cut short.
CompactModes == {"none", "dwarf", "frame", "frameless", "bad"}
TypedShape == [body : {"frame", "frameless"}, compact : {"absent"} \cup CompactModes, eh : EhFrames]

ASSUME CallFrameAssumption == FrameShapes \subseteq TypedShape /\ FuncStart \in Nat /\ MaxLocation \in Nat

VARIABLES
    shape,
    machine, memory,  \* registers and stack now
    cfi,              \* the instructions of the FDE
    cfiLocation,      \* the location the last of them is about
    done,             \* instructions executed
    snapshots         \* history: the machine before each instruction

frameVars == <<shape, machine, memory, cfi, cfiLocation, done, snapshots>>

-----------------------------------------------------------------------------
(* .eh_frame: records [kind, cie, encoding, value, pos, range]. *)

\* What a pointer is relative to; parse_fde gives no data section or function.
parse_eh_frame_pointer(encoding, value, pos) ==
    CASE encoding \in {"absptr", "datarel", "funcrel"} -> value
      [] encoding = "pcrel" -> pos + value
      [] encoding = "textrel" -> FuncStart + value

\* The CIEs that parse_cie accepts.
parse_cie(cie) ==
    /\ cie.version \in {1, 3, 4}
    /\ cie.augmentation # <<>> =>
            cie.augmentation[1] = "z" /\ ToSet(cie.augmentation) \subseteq {"z", "R", "L", "P"}
    /\ cie.version = 4 => cie.address_size = 8 /\ cie.segment_size = 0

\* parse_fde: the addresses the record is about.
initial_location(r) == parse_eh_frame_pointer(r.encoding, r.value, r.pos)
InFde(r, pc) == initial_location(r) <= pc /\ pc < initial_location(r) + r.range

\* The first record that ends the scan for pc: an empty one, one with a bad
\* length or a bad CIE, or the FDE around pc.  0 if there is none.
FindFde(pc) ==
    SelectInSeq(shape.eh, LAMBDA r : \/ r.kind \in {"zero", "bad"}
                                     \/ r.kind = "fde" /\ (~parse_cie(r.cie) \/ InFde(r, pc)))

-----------------------------------------------------------------------------
(* execute_cfi_instruction *)

Cfi(op, r, n) == [op |-> op, reg |-> r, n |-> n]

\* unordered_map::emplace: the first rule of a register stays.
Emplace(ctx, r, kind, value) ==
    IF r \in DOMAIN ctx.rules THEN ctx
    ELSE [ctx EXCEPT !.rules = [q \in DOMAIN @ \cup {r} |-> IF q = r THEN [kind |-> kind, value |-> value] ELSE @[q]]]

\* cie_register_rules.at throws if the CIE has no rule.
Restore(ctx, r) ==
    IF r \in DOMAIN ctx.cie_rules THEN Emplace(ctx, r, ctx.cie_rules[r].kind, ctx.cie_rules[r].value)
    ELSE [ctx EXCEPT !.status = "thrown"]

\* The three opcodes with an expression are not modelled.
execute_cfi_instruction(cie, ctx, i) ==
    LET factored == i.n * cie.data_alignment_factor
    IN  CASE i.op \in {"advance_loc", "advance_loc1", "advance_loc2", "advance_loc4"} ->
                [ctx EXCEPT !.location = @ + i.n * cie.code_alignment_factor]
          [] i.op = "set_loc" -> [ctx EXCEPT !.location = i.n]
          [] i.op = "def_cfa" -> [ctx EXCEPT !.cfa = [reg |-> i.reg, offset |-> i.n]]
          [] i.op = "def_cfa_sf" -> [ctx EXCEPT !.cfa = [reg |-> i.reg, offset |-> factored]]
          [] i.op = "def_cfa_register" -> [ctx EXCEPT !.cfa.reg = i.reg]
          [] i.op = "def_cfa_offset" -> [ctx EXCEPT !.cfa.offset = i.n]
          [] i.op = "def_cfa_offset_sf" -> [ctx EXCEPT !.cfa.offset = factored]
          [] i.op \in {"offset", "offset_extended", "offset_extended_sf"} -> Emplace(ctx, i.reg, "offset", factored)
          [] i.op \in {"val_offset", "val_offset_sf"} -> Emplace(ctx, i.reg, "val_offset", factored)
          [] i.op = "register" -> Emplace(ctx, i.reg, "register", i.n)
          [] i.op = "same_value" -> Emplace(ctx, i.reg, "same", 0)
          [] i.op = "undefined" -> Emplace(ctx, i.reg, "undefined", 0)
          [] i.op \in {"restore", "restore_extended"} -> Restore(ctx, i.reg)
          [] i.op = "remember_state" -> [ctx EXCEPT !.stack = Append(@, [rules |-> ctx.rules, cfa |-> ctx.cfa])]
          [] i.op = "restore_state" -> [ctx EXCEPT !.rules = Last(ctx.stack).rules, !.cfa = Last(ctx.stack).cfa,
                                                   !.stack = Front(@)]

\* Mutant: instructions at the pc itself are not executed.
Executes_before(ctx, pc) == ctx.status = "running" /\ ctx.location < pc
\* The condition of the loop over the FDE.
Executes(ctx, pc) == ctx.status = "running" /\ ctx.location <= pc

\* The CIE is run to its end.
cie_context(cie) ==
    LET none == [location |-> 0, cfa |-> [reg |-> "sp", offset |-> 0], cie_rules |-> [r \in {} |-> 0],
                 rules |-> [r \in {} |-> 0], stack |-> <<>>, status |-> "running"]
    IN  FoldLeft(LAMBDA ctx, i : execute_cfi_instruction(cie, ctx, i), none, cie.instructions)

\* Its rules are kept for restore and stay in force.
fde_context(fde) ==
    LET ctx == cie_context(fde.cie)
    IN  [ctx EXCEPT !.cie_rules = ctx.rules, !.location = initial_location(fde)]

\* One turn of the loop over the FDE, and the loop.
Advance(cie, pc, ctx, i) == IF Executes(ctx, pc) THEN execute_cfi_instruction(cie, ctx, i) ELSE ctx
RunProgram(fde, pc, ops) ==
    LET run[n \in 0 .. Len(ops)] ==
            IF n = 0 THEN fde_context(fde) ELSE Advance(fde.cie, pc, run[n - 1], ops[n])
    IN  run[Len(ops)]

\* A word of the stack.
Load(mem, a) == IF a \in DOMAIN mem THEN mem[a] ELSE Junk

execute_unwind_rules(ctx, m, mem) ==
    LET cfa == m[ctx.cfa.reg] + ctx.cfa.offset
        value(r) == LET rule == ctx.rules[r]
                    IN  CASE rule.kind = "undefined" -> Junk
                          [] rule.kind = "same" -> IF r = "sp" THEN cfa ELSE m[r]
                          [] rule.kind = "register" -> m[rule.value]
                          [] rule.kind = "offset" -> Load(mem, cfa + rule.value)
                          [] rule.kind = "val_offset" -> cfa + rule.value
    IN  [r \in CfiReg |-> IF r \in DOMAIN ctx.rules THEN value(r) ELSE IF r = "sp" THEN cfa ELSE m[r]]

-----------------------------------------------------------------------------
(* unwind: the registers of the caller and its pc. *)

With(m, pc) == [r \in CfiReg \cup {"pc"} |-> IF r = "pc" THEN pc ELSE m[r]]
Thrown == With([r \in CfiReg |-> Junk], 0 - 1)     \* an error instead of registers
Aligned(fp) == fp # 0 /\ fp % 2 = 0

\* The frame record at fp; without one the pc is zero and the walk ends.
FpChain(m, mem) ==
    IF ~Aligned(m.fp) THEN With(m, 0)
    ELSE With([m EXCEPT !.sp = m.fp + 2, !.fp = Load(mem, m.fp)], Load(mem, m.fp + 1))

\* The entries of the page of pc that do not start behind it.
entries_before(pc) ==
    LET p == SelectInSeq(CompactPages, LAMBDA q : q.first <= pc /\ pc < q.next)
    IN  IF p = 0 THEN <<>> ELSE SelectSeq(CompactPages[p].entries, LAMBDA e : e.start <= pc)

\* The last of them; without one the call frame instructions are used.  The
\* section is well-formed: a cut-off one, or one of another version, page kind
\* or encoding index, makes unwind_compact throw.
compact_entry(pc) ==
    LET before == entries_before(pc)
    IN  CASE shape.compact = "absent" \/ before = <<>> -> [start |-> pc, mode |-> "dwarf"]
          [] OTHER -> IF Last(before).start = FuncStart THEN [Last(before) EXCEPT !.mode = shape.compact]
                      ELSE Last(before)

\* Mutant: the prologue is taken to have run at the first instruction.
unwind_compact_no_start(pc, e, m, mem) ==
    IF e.mode = "frameless" THEN With([m EXCEPT !.sp = @ + 2], m.lr) ELSE FpChain(m, mem)

\* unwind_compact: at the first instruction nothing is saved yet; otherwise the
\* encoding of the whole function holds: the stack size of a frameless one, or
\* the frame record and the saved pair below it, which is read low word first.
\* An error in the section is thrown while the entry is looked for.
unwind_compact(pc, e, m, mem) ==
    CASE e.mode = "bad" -> Thrown
      [] e.mode # "bad" /\ pc = e.start -> With(m, m.lr)
      [] pc # e.start /\ e.mode = "frameless" -> With([m EXCEPT !.sp = @ + 2], m.lr)
      [] OTHER -> IF ~Aligned(m.fp) THEN Thrown
                  ELSE [FpChain(m, mem) EXCEPT !.x19 = Load(mem, m.fp - 2), !.x20 = Load(mem, m.fp - 1)]

UsesCompact(pc, e) == e.mode \in {"frame", "frameless", "bad"} \/ (e.mode = "none" /\ pc = e.start)

RunFde(fde, pc, m, mem) ==
    LET ctx == RunProgram(fde, pc, cfi)
        u == execute_unwind_rules(ctx, m, mem)
    IN  IF ctx.status = "running" THEN With(u, u.lr) ELSE Thrown

unwind_frame(pc, m, mem) ==
    LET e == compact_entry(pc)
        f == FindFde(pc)
    IN  IF UsesCompact(pc, e) THEN unwind_compact(pc, e, m, mem)
        ELSE IF f = 0 THEN FpChain(m, mem)
        ELSE LET r == shape.eh[f]
             IN  CASE r.kind = "zero" -> FpChain(m, mem)
                   [] r.kind = "fde" /\ parse_cie(r.cie) -> RunFde(r, pc, m, mem)
                   [] OTHER -> Thrown

-----------------------------------------------------------------------------
(* The function: one instruction and its call frame instructions. *)

Location == Len(snapshots)
Did(i) == i \in done
Step(i, m, mem, ops) ==
    /\ machine' = m /\ memory' = mem
    /\ done' = done \cup {i}
    /\ snapshots' = Append(snapshots, [machine |-> machine, memory |-> memory, done |-> done])
    /\ cfi' = IF ops = <<>> THEN cfi
              ELSE cfi \o <<Cfi("advance_loc", "sp", Location + 1 - cfiLocation)>> \o ops
    /\ cfiLocation' = IF ops = <<>> THEN cfiLocation ELSE Location + 1
    /\ UNCHANGED shape

\* stp fp, lr, [sp, #-16]!
PushFrame ==
    /\ shape.body = "frame" /\ done \subseteq {"clobber"}
    /\ Step("push", [machine EXCEPT !.sp = @ - 2],
            [memory EXCEPT ![machine.sp - 2] = machine.fp, ![machine.sp - 1] = machine.lr],
            <<Cfi("def_cfa_offset", "sp", 2), Cfi("offset", "lr", 1), Cfi("offset", "fp", 2)>>)

\* mov fp, sp
SetFrame ==
    /\ Did("push") /\ ~Did("frame")
    /\ Step("frame", [machine EXCEPT !.fp = machine.sp], memory, <<Cfi("def_cfa", "fp", 2)>>)

\* stp x20, x19, [sp, #-16]!: the order that the compact encoding stands for.
SavePair ==
    /\ Did("frame") /\ ~Did("save")
    /\ Step("save", [machine EXCEPT !.sp = @ - 2],
            [memory EXCEPT ![machine.sp - 2] = machine.x20, ![machine.sp - 1] = machine.x19],
            <<Cfi("offset", "x19", 3), Cfi("offset", "x20", 4)>>)

\* sub sp, sp, #16
Allocate ==
    /\ shape.body = "frameless" /\ ~Did("allocate")
    /\ Step("allocate", [machine EXCEPT !.sp = @ - 2], memory, <<Cfi("def_cfa_offset", "sp", 2)>>)

\* mov x9, lr in a function that keeps no frame record.
MoveLink ==
    /\ shape.body = "frameless" /\ shape.compact # "frameless" /\ ~Did("move") /\ ~Did("clobber")
    /\ Step("move", [machine EXCEPT !.x9 = machine.lr], memory, <<Cfi("register", "lr", "x9")>>)

\* The body overwrites what it may.
Clobber(r) ==
    /\ \/ r \in {"x19", "x20"} /\ Did("save")
       \/ r = "lr" /\ (Did("frame") \/ Did("move"))
       \/ r = "x9" /\ ~Did("move")
    /\ ~Did("epilogue") /\ machine[r] # Junk
    /\ Step("clobber", [machine EXCEPT ![r] = Junk], memory, <<>>)

\* The epilogue takes the frame down again; a compiler may also name a register
\* that it restores.
Epilogue(restores) ==
    /\ Did("save") \/ Did("allocate")
    /\ ~Did("epilogue")
    /\ LET back == IF shape.body = "frameless" THEN [machine EXCEPT !.sp = @ + 2]
                   ELSE [machine EXCEPT !.sp = machine.fp + 2, !.x19 = memory[machine.fp - 1],
                                        !.x20 = memory[machine.fp - 2], !.lr = memory[machine.fp + 1],
                                        !.fp = memory[machine.fp]]
       IN  Step("epilogue", back, memory,
                <<Cfi("remember_state", "sp", 0), Cfi("def_cfa", "sp", 0)>>
                \o (IF restores THEN <<Cfi("restore", "lr", 0)>> ELSE <<>>))

\* Behind the return the code goes on as before the epilogue.
AfterReturn ==
    /\ Did("epilogue") /\ ~Did("return")
    /\ LET before == snapshots[Max({k \in DOMAIN snapshots : "epilogue" \notin snapshots[k].done})]
       IN  Step("return", before.machine, before.memory, <<Cfi("restore_state", "sp", 0)>>)

CallFrameInit ==
    /\ shape \in FrameShapes
    /\ machine = Caller /\ memory = [w \in Words |-> Junk]
    /\ cfi = <<>> /\ cfiLocation = 0 /\ done = {} /\ snapshots = <<>>

CallFrameNext ==
    /\ Location < MaxLocation
    /\ \/ PushFrame \/ SetFrame \/ SavePair \/ Allocate \/ MoveLink \/ AfterReturn
       \/ \E r \in {"x19", "x20", "lr", "x9"} : Clobber(r)
       \/ \E restores \in BOOLEAN : Epilogue(restores)

CallFrameSpec == CallFrameInit /\ [][CallFrameNext]_frameVars

-----------------------------------------------------------------------------
(* Properties. *)

\* What the caller needs back.
SeesCaller(u) == u.sp = Caller.sp /\ u.fp = Caller.fp /\ u.pc = Caller.lr
UnwindAt(l) == unwind_frame(FuncStart + l, snapshots[l + 1].machine, snapshots[l + 1].memory)
Restores == \E i \in DOMAIN cfi : cfi[i].op = "restore"
FdeOf(l) == IF UsesCompact(FuncStart + l, compact_entry(FuncStart + l)) THEN 0 ELSE FindFde(FuncStart + l)

\* A register with a rule in the CIE and another in the FDE: emplace keeps the first.
RegsOf(ops) ==
    {ops[i].reg : i \in {j \in DOMAIN ops : ops[j].op \in {"offset", "register", "same_value", "undefined"}}}
Shadowed(r) == RegsOf(r.cie.instructions) \cap RegsOf(cfi) # {}

\* From every location of a function with a readable FDE, whatever the prologue
\* has done so far and whatever code follows, the caller's frame, its pc and its
\* saved registers are found, if no rule of the FDE is for a register that the
\* CIE has a rule for.  The unwinder may fail only where a register is restored
\* that the CIE has none for.
FdeUnwinds ==
    \A l \in 0 .. Len(snapshots) - 1 :
        /\ FdeOf(l) # 0 /\ shape.eh[FdeOf(l)].kind = "fde"
        /\ parse_cie(shape.eh[FdeOf(l)].cie) /\ ~Shadowed(shape.eh[FdeOf(l)])
        => LET u == UnwindAt(l)
           IN  \/ SeesCaller(u) /\ u.x19 = Caller.x19 /\ u.x20 = Caller.x20
               \/ u = Thrown /\ Restores

\* The prologue has run and the epilogue has not.
InBody(l) ==
    LET d == snapshots[l + 1].done
    IN  ("epilogue" \notin d \/ "return" \in d)
        /\ (IF shape.body = "frame" THEN "save" \in d ELSE "allocate" \in d)

\* Without an FDE the caller's frame and pc are found from the first instruction
\* and the whole body where __unwind_info has the function, and by the frame
\* chain alone from the body of a function with a frame record.  The saved pair
\* comes back exchanged from the body of a function with a frame record: the pair
\* is read from the low word up, and x19 is stored in the high one.
SeesPair(u, exchanged) ==
    IF exchanged THEN u.x19 = Caller.x20 /\ u.x20 = Caller.x19 ELSE u.x19 = Caller.x19 /\ u.x20 = Caller.x20
CompactUnwinds ==
    \A l \in 0 .. Len(snapshots) - 1 :
        LET u == UnwindAt(l)
        IN  /\ shape.compact = shape.body /\ (l = 0 \/ InBody(l))
                => SeesCaller(u) /\ SeesPair(u, shape.body = "frame" /\ l # 0)
            /\ shape.compact \in {"absent", "none", "dwarf"} /\ FdeOf(l) = 0 /\ shape.body = "frame" /\ InBody(l)
                => SeesCaller(u)

\* What CompactUnwinds needs of __unwind_info: it lists the function, and none
\* that starts inside of it.
Listed ==
    \A l \in 0 .. MaxLocation :
        LET before == entries_before(FuncStart + l)
        IN  before # <<>> /\ Last(before) \in [start : {FuncStart}, mode : CompactModes]

\* What FdeUnwinds needs of .eh_frame: an FDE around a location of the function
\* starts with it and counts whole words down the stack, and its CIE starts with
\* the stack pointer for the CFA and says of a register only that it is kept, or
\* of x9 that it is lost.
StartsPlain(r) ==
    /\ initial_location(r) = FuncStart
    /\ r.cie.code_alignment_factor = 1 /\ r.cie.data_alignment_factor = -1
    /\ LET ctx == fde_context(r)
       IN  /\ ctx = [location |-> FuncStart, cfa |-> [reg |-> "sp", offset |-> 0], cie_rules |-> ctx.rules,
                     rules |-> ctx.rules, stack |-> <<>>, status |-> "running"]
           /\ DOMAIN ctx.rules \subseteq RegsOf(r.cie.instructions)
           /\ \A q \in DOMAIN ctx.rules : ctx.rules[q].kind = "same" \/ (q = "x9" /\ ctx.rules[q].kind = "undefined")
FdeRecords == UNION {{s.eh[i] : i \in 1 .. Len(s.eh)} : s \in FrameShapes}
FdesPlain ==
    \A r \in FdeRecords : \A l \in 0 .. MaxLocation :
        r.kind = "fde" /\ parse_cie(r.cie) /\ InFde(r, FuncStart + l) => StartsPlain(r)
=============================================================================
