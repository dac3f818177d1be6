------------------------------ MODULE Stepping ------------------------------
(***************************************************************************)
(* Source-level stepping (sdb::target), the frames of sdb::stack, and the  *)
(* calls the debugger makes into the inferior (process::inferior_call).    *)
(*                                                                         *)
(* All of them drive the process with two primitives: step_instruction,    *)
(* and a resume to a breakpoint site at a chosen address that may be there *)
(* already.  The program is a constant: its instructions, line rows and    *)
(* the ranges of its functions and inlined calls.  One thread runs.  The   *)
(* unwinder is taken to be right here; CallFrame is about it.              *)
(***************************************************************************)
EXTENDS Integers, Sequences, FiniteSets, SequencesExt

CONSTANTS
    Code,      \* the instruction at each address: [op, to]
    Rows,      \* the line table: [address, line, end_sequence]
    Dies,      \* functions (depth 0) and inlined calls: [low, high, depth]
    Main,      \* where the program starts; also where called functions return
    Callable,  \* entry points of functions the user calls in expressions
    Breakable, \* addresses the user sets breakpoints on
    MaxSet,    \* bound: breakpoints of the user at a time
    MaxDepth,  \* bound: beyond it every conditional branch leaves the recursion
    MaxThrows  \* bound: stops whose reload throws in a behaviour

Address == DOMAIN Code

ASSUME SteppingAssumption ==
    /\ Address \subseteq Nat
    /\ \A a \in Address : Code[a].op \in {"op", "bl", "cbz", "ret"}
    /\ \A a \in Address : Code[a].op # "ret" => a + 1 \in Address
    /\ \A a \in Address : Code[a].op \in {"bl", "cbz"} => Code[a].to \in Address
    /\ \A i \in 1 .. Len(Rows) : Rows[i].address \in Nat
    /\ IsFiniteSet(Dies) /\ \A d \in Dies : d.low \in Address /\ d.low < d.high
    /\ Main \in Address /\ Callable \subseteq Address /\ Breakable \subseteq Address
    /\ MaxThrows \in Nat /\ MaxSet \in Nat

VARIABLES
    pc, calls,        \* the inferior: program counter and return addresses
    sites,            \* breakpoint sites: "none", "disabled" or "enabled"
    frames,           \* frames_: the pc in the registers of each frame
    inline_height,    \* inline_height_
    current_frame,    \* current_frame_
    phase,            \* where the debugger is
    cmd,              \* the command that is running, or the last one
    reason,           \* what the last wait reported, or how the command ended
    \* history
    user,             \* the sites as the user set them
    stale,            \* the frames are not those of the last stop
    left, throws      \* addresses whose site an exception has left changed; exceptions

inferior == <<pc, calls>>
stack == <<frames, inline_height, current_frame, stale>>
vars == <<pc, calls, sites, frames, inline_height, current_frame, phase, cmd, reason, user, stale, left, throws>>

-----------------------------------------------------------------------------
(* Debug information. *)

\* The function that contains a and then, level by level, the inlined call
\* that does.
inline_stack_at_address(a) ==
    LET around == {d \in Dies : d.low <= a /\ a < d.high}
    IN  [k \in 1 .. Cardinality(around) |-> CHOOSE d \in around : d.depth = k - 1]

\* The row of a: the first pair of neighbours around a; 0 is the end iterator.
line_entry(a) ==
    LET found == {i \in 1 .. Len(Rows) - 1 :
                    /\ Rows[i].address <= a /\ a < Rows[i + 1].address
                    /\ ~Rows[i].end_sequence}
    IN  IF found = {} THEN 0 ELSE CHOOSE i \in found : \A j \in found : i <= j

\* The condition on which the loops of step_in and step_over go on.
SameLine(orig, a) ==
    line_entry(a) # 0 /\ orig # 0 /\ Rows[line_entry(a)].line = Rows[orig].line

\* How many of the innermost inlined calls begin at a: logically not entered yet.
reset_inline_height(a) ==
    LET s == inline_stack_at_address(a)
    IN  Cardinality({k \in 2 .. Len(s) : \A j \in k .. Len(s) : s[j].low = a})

\* stack::unwind: a frame for each function and inlined call, as long as the
\* address (before the return address, for callers) lies in a known function.
unwind_frames(p, c) ==
    LET ret(k) == IF k = 0 THEN p ELSE c[k]
        at(k) == inline_stack_at_address(IF k = 0 THEN p ELSE c[k] - 1)
        known == {k \in 0 .. Len(c) : \A j \in 0 .. k : at(j) # <<>>}
    IN  FlattenSeq([k \in 1 .. Cardinality(known) |-> [i \in 1 .. Len(at(k - 1)) |-> ret(k - 1)]])

\* Mutant: the selected frame is kept over a stop.
unwind_keeps(p, c, old) ==
    /\ frames' = unwind_frames(p, c)
    /\ inline_height' = reset_inline_height(p)
    /\ stale' = old
    /\ UNCHANGED current_frame

\* The frames of a stop; old if the registers are put back behind it.
unwind(p, c, old) ==
    /\ frames' = unwind_frames(p, c)
    /\ inline_height' = reset_inline_height(p)
    /\ current_frame' = reset_inline_height(p)
    /\ stale' = old

-----------------------------------------------------------------------------
(* The inferior. *)

Gone == [pc |-> 0, calls |-> <<>>]

\* Where the instruction at p leads.
Execute(p, c) ==
    CASE Code[p].op = "op" -> {[pc |-> p + 1, calls |-> c]}
      [] Code[p].op = "bl" -> {[pc |-> Code[p].to, calls |-> <<p + 1>> \o c]}
      [] Code[p].op = "ret" -> {IF c = <<>> THEN Gone ELSE [pc |-> Head(c), calls |-> Tail(c)]}
      [] OTHER -> {[pc |-> q, calls |-> c] : q \in
                    {Code[p].to} \cup (IF Len(c) < MaxDepth THEN {p + 1} ELSE {})}

Move(to) == pc' = to.pc /\ calls' = to.calls

-----------------------------------------------------------------------------
(* The end of a command, and the resume to an address. *)

is_step(r) == r = "single_step"
is_breakpoint(r) == r = "software_break"

NoCommand == [op |-> "none", start |-> <<0, <<>>>>, from |-> <<0, <<>>>>, orig |-> 0, target |-> 0,
              own |-> FALSE, was |-> "none", frames |-> 0,
              \* from: where it has let the process go first, start but for a call
              ran |-> {},        \* history: the addresses the command has run to
              stale |-> FALSE]   \* history: it has started with stale frames
Command(op) == [NoCommand EXCEPT !.op = op, !.start = <<pc, calls>>, !.from = <<pc, calls>>,
                                 !.orig = line_entry(pc), !.stale = stale]

Return(r) == phase' = "prompt" /\ reason' = r
Exited(r) == phase' = "exited" /\ reason' = r

\* run_until_address up to its resume: a site that exists is left as it is,
\* a disabled one too.
run_until_address(address, command) ==
    /\ cmd' = [command EXCEPT !.target = address, !.own = sites[address] = "none",
                              !.ran = @ \cup {address}]
    /\ sites' = IF sites[address] = "none" THEN [sites EXCEPT ![address] = "enabled"] ELSE sites
    /\ phase' = "resume"

-----------------------------------------------------------------------------
(* Commands at the prompt. *)

FewSites(a) == Cardinality({b \in Address \ {a} : user[b] # "none"}) < MaxSet

\* The user creates, enables, disables or deletes a breakpoint: not where a
\* site of run_until_address was left, which no command can reach.
SetSite(a, s) ==
    /\ phase = "prompt" /\ sites[a] # s /\ a \notin left /\ FewSites(a)
    /\ sites' = [sites EXCEPT ![a] = s]
    /\ user' = [user EXCEPT ![a] = s]
    /\ UNCHANGED <<pc, calls, stack, phase, cmd, reason, left, throws>>

up ==
    /\ phase = "prompt" /\ current_frame + 1 < Len(frames)
    /\ current_frame' = current_frame + 1
    /\ UNCHANGED <<pc, calls, sites, frames, inline_height, phase, cmd, reason, user, stale, left, throws>>

\* Mutant: no bound below.
down_unbounded ==
    /\ phase = "prompt"
    /\ current_frame' = current_frame - 1
    /\ UNCHANGED <<pc, calls, sites, frames, inline_height, phase, cmd, reason, user, stale, left, throws>>

down ==
    /\ phase = "prompt" /\ current_frame > inline_height
    /\ current_frame' = current_frame - 1
    /\ UNCHANGED <<pc, calls, sites, frames, inline_height, phase, cmd, reason, user, stale, left, throws>>

simulate_inlined_step_in ==
    /\ inline_height' = inline_height - 1
    /\ current_frame' = inline_height - 1

\* The continue command: a resume without a target.
Continue ==
    /\ phase = "prompt"
    /\ cmd' = Command("continue") /\ phase' = "resume"
    /\ UNCHANGED <<pc, calls, sites, stack, reason, user, left, throws>>

\* step_in: into an inlined call nothing has to run.
step_in ==
    /\ phase = "prompt"
    /\ cmd' = Command("step")
    /\ \/ /\ inline_height > 0
          /\ simulate_inlined_step_in
          /\ Return("single_step") /\ UNCHANGED <<frames, stale>>
       \/ /\ inline_height = 0
          /\ phase' = "stepping" /\ UNCHANGED <<stack, reason>>
    /\ UNCHANGED <<pc, calls, sites, user, left, throws>>

step_over ==
    /\ phase = "prompt"
    /\ cmd' = Command("next") /\ phase' = "stepping"
    /\ UNCHANGED <<pc, calls, sites, stack, reason, user, left, throws>>

\* step_out: to the end of an inlined call, or to the return address of the
\* selected frame, which is read past the end of frames_ in the outermost one.
step_out ==
    /\ phase = "prompt"
    /\ LET s == inline_stack_at_address(pc)
           command == [Command("finish") EXCEPT !.frames = Len(frames) - inline_height]
       IN  \/ /\ Len(s) > 1 /\ inline_height < Len(s) - 1
              /\ run_until_address(s[Len(s) - inline_height].high, [command EXCEPT !.op = "finish_inline"])
           \/ /\ ~(Len(s) > 1 /\ inline_height < Len(s) - 1)
              /\ IF current_frame + 2 > Len(frames)
                   THEN phase' = "undefined" /\ cmd' = command /\ UNCHANGED sites
                   ELSE run_until_address(frames[current_frame + 2], command)
    /\ UNCHANGED <<pc, calls, stack, reason, user, left, throws>>

\* inferior_call up to its resume: the call returns to a site at Main.
inferior_call(f) ==
    /\ phase = "prompt"
    /\ cmd' = [Command("call") EXCEPT !.from = <<f, <<Main>> \o calls>>, !.target = Main,
                                      !.own = sites[Main] = "none", !.was = sites[Main]]
    /\ sites' = [sites EXCEPT ![Main] = "enabled"]
    /\ pc' = f /\ calls' = <<Main>> \o calls
    /\ phase' = "resume"
    /\ UNCHANGED <<stack, reason, user, left, throws>>

-----------------------------------------------------------------------------
(* step_instruction in the loops of step_in and step_over. *)

\* step_in after its loop: behind the prologue of a function it has entered.
after_step_in(p) ==
    LET s == inline_stack_at_address(p)
        row == line_entry(p)
    IN  IF s # <<>> /\ s[1].low = p /\ row # 0
          THEN run_until_address(Rows[row + 1].address, cmd) /\ UNCHANGED reason
          ELSE Return("single_step") /\ UNCHANGED <<cmd, sites>>

\* Mutant: the loop goes on over a breakpoint it has stepped onto.
Landed_blind(to) == "single_step"

\* What wait_on_signal makes of the stop after a single step.
Landed(to) == IF sites[to.pc] = "enabled" THEN "software_break" ELSE "single_step"

\* Mutant: calls are not recognised.
Skips_no_calls == inline_height > 0

\* step_over runs over what is here instead of stepping an instruction.
Skips == inline_height > 0 \/ Code[pc].op = "bl"

\* To the end of the inlined call, or behind the call.
skip_target ==
    LET s == inline_stack_at_address(pc)
    IN  IF inline_height > 0 THEN s[Len(s) - inline_height + 1].high ELSE pc + 1

\* One instruction of the loop.
StepLoop ==
    /\ phase = "stepping" /\ (cmd.op = "step" \/ ~Skips)
    /\ \E to \in Execute(pc, calls) :
        /\ Move(to)
        /\ \/ /\ to = Gone
              /\ Exited("exited") /\ UNCHANGED <<cmd, sites, stack>>
           \/ /\ to # Gone
              /\ unwind(to.pc, to.calls, FALSE)
              /\ \/ /\ ~is_step(Landed(to))
                    /\ Return(Landed(to)) /\ UNCHANGED <<cmd, sites>>
                 \/ /\ is_step(Landed(to)) /\ SameLine(cmd.orig, to.pc)
                    /\ UNCHANGED <<phase, cmd, sites, reason>>
                 \/ /\ is_step(Landed(to)) /\ ~SameLine(cmd.orig, to.pc)
                    /\ IF cmd.op = "step" THEN after_step_in(to.pc)
                       ELSE Return("single_step") /\ UNCHANGED <<cmd, sites>>
    /\ UNCHANGED <<user, left, throws>>

\* Ctrl-C stops the process before the instruction.
StepInterrupted ==
    /\ phase = "stepping" /\ (cmd.op = "step" \/ ~Skips)
    /\ Return("interrupt") /\ unwind(pc, calls, FALSE)
    /\ UNCHANGED <<pc, calls, sites, cmd, user, left, throws>>

\* step_over runs over a call or an inlined call.  With stale frames the height
\* may exceed the inline stack, which is then read out of bounds.
StepOverCall ==
    /\ phase = "stepping" /\ cmd.op = "next" /\ Skips
    /\ IF inline_height > Len(inline_stack_at_address(pc))
         THEN phase' = "undefined" /\ UNCHANGED <<cmd, sites>>
         ELSE run_until_address(skip_target, cmd)
    /\ UNCHANGED <<pc, calls, stack, reason, user, left, throws>>

-----------------------------------------------------------------------------
(* resume, wait_on_signal and what the caller does with the stop. *)

\* Mutant: a process that sits on a trap is never continued.
Resume_waits ==
    /\ phase = "resume" /\ sites[pc] # "enabled"
    /\ phase' = "running" /\ UNCHANGED <<pc, calls, stack, reason, sites, cmd, user, left, throws>>

\* step_over_breakpoint drops the reason of its step; if the process ends in
\* it, send_continue throws.
Resume ==
    /\ phase = "resume"
    /\ \/ /\ sites[pc] # "enabled"
          /\ phase' = "running" /\ UNCHANGED <<pc, calls, stack, reason>>
       \/ /\ sites[pc] = "enabled"
          /\ \E to \in Execute(pc, calls) :
                /\ Move(to)
                /\ IF to = Gone THEN Exited("error") /\ UNCHANGED stack
                   ELSE phase' = "running" /\ unwind(to.pc, to.calls, FALSE) /\ UNCHANGED reason
    /\ UNCHANGED <<sites, cmd, user, left, throws>>

\* Ctrl-C in that step: the process is continued all the same, on the trap.
ResumeInterrupted ==
    /\ phase = "resume" /\ sites[pc] = "enabled"
    /\ phase' = "running" /\ unwind(pc, calls, FALSE)
    /\ UNCHANGED <<pc, calls, sites, cmd, reason, user, left, throws>>

Run ==
    /\ phase = "running" /\ sites[pc] # "enabled"
    /\ \E to \in Execute(pc, calls) :
        /\ Move(to)
        /\ \/ to # Gone /\ UNCHANGED <<phase, reason>>
           \* Removing the own site writes to a task that is gone and throws.
           \/ to = Gone /\ Exited(IF cmd.own \/ cmd.op = "call" THEN "error" ELSE "exited")
    /\ UNCHANGED <<sites, stack, cmd, user, left, throws>>

\* Mutant: a site that was there is removed too.
RestoredSites_remove == [sites EXCEPT ![cmd.target] = "none"]

\* The sites after the temporary one is taken out or put back.
RestoredSites ==
    IF cmd.own THEN [sites EXCEPT ![cmd.target] = "none"]
    ELSE IF cmd.op = "call" THEN [sites EXCEPT ![cmd.target] = cmd.was] ELSE sites

\* run_until_address after the wait, and the code behind it in its callers.
Stopped(r) ==
    LET result == IF is_breakpoint(r) /\ pc = cmd.target THEN "single_step" ELSE r
        again == /\ cmd.op = "next" /\ is_step(result) /\ pc = cmd.target
                 /\ SameLine(cmd.orig, pc)
        \* The loop of step_out: result is no breakpoint at the return address.
        rerun == /\ cmd.op = "finish" /\ is_breakpoint(result) /\ pc = cmd.target
                 /\ Len(frames') - inline_height' >= cmd.frames
    IN  /\ cmd.op # "call"
        /\ unwind(pc, calls, FALSE)
        /\ CASE again -> phase' = "stepping" /\ sites' = RestoredSites /\ UNCHANGED <<cmd, reason>>
             [] rerun -> phase' = "resume" /\ UNCHANGED <<sites, cmd, reason>>
             [] OTHER -> Return(result) /\ sites' = RestoredSites /\ UNCHANGED cmd
        /\ UNCHANGED inferior

\* Mutant: the registers are put back only after a call that came back.
CallStopped_success(r) ==
    /\ cmd.op = "call"
    /\ sites' = RestoredSites
    /\ IF pc = Main THEN /\ pc' = cmd.start[1] /\ calls' = cmd.start[2]
                         /\ unwind(cmd.start[1], cmd.start[2], FALSE) /\ Return("returned")
       ELSE unwind(pc, calls, FALSE) /\ Return("error") /\ UNCHANGED inferior
    /\ UNCHANGED cmd

\* inferior_call after the wait.  If the call has not come back the registers
\* are restored, but the frames are those of the place where it stopped.
CallStopped(r) ==
    /\ cmd.op = "call"
    /\ pc' = cmd.start[1] /\ calls' = cmd.start[2]
    /\ sites' = RestoredSites
    /\ IF pc = Main THEN unwind(cmd.start[1], cmd.start[2], FALSE) /\ Return("returned")
       ELSE unwind(pc, calls, TRUE) /\ Return("error")
    /\ UNCHANGED cmd

Trap ==
    /\ phase = "running" /\ sites[pc] = "enabled"
    /\ Stopped("software_break") \/ CallStopped("software_break")
    /\ UNCHANGED <<user, left, throws>>

Interrupt ==
    /\ phase = "running" /\ sites[pc] # "enabled"
    /\ Stopped("interrupt") \/ CallStopped("interrupt")
    /\ UNCHANGED <<user, left, throws>>

-----------------------------------------------------------------------------
(* notify_stop reloads the libraries before it unwinds, and that may throw. *)

Throw ==
    /\ throws < MaxThrows /\ throws' = throws + 1
    /\ reason' = "error" /\ stale' = TRUE
    /\ UNCHANGED <<frames, inline_height, current_frame>>

\* In run_until_address the removal of its own site is skipped.
StopThrows ==
    /\ phase = "running" /\ cmd.op # "call"
    /\ Throw /\ phase' = "prompt"
    /\ left' = IF cmd.own THEN left \cup {cmd.target} ELSE left
    /\ UNCHANGED <<pc, calls, sites, cmd, user>>

\* inferior_call catches the exception and puts everything back.
CallThrows ==
    /\ phase = "running" /\ cmd.op = "call"
    /\ Throw /\ phase' = "prompt"
    /\ pc' = cmd.start[1] /\ calls' = cmd.start[2] /\ sites' = RestoredSites
    /\ UNCHANGED <<cmd, user, left>>

\* Its own notify_stop, behind all that, is caught there too: a site it has
\* made is then removed a second time, through the end of the collection.
CallReturnThrows ==
    /\ phase = "running" /\ cmd.op = "call" /\ pc = Main
    /\ throws < MaxThrows /\ throws' = throws + 1
    /\ reason' = "error" /\ unwind(pc, calls, TRUE)
    /\ phase' = IF cmd.own THEN "undefined" ELSE "prompt"
    /\ pc' = cmd.start[1] /\ calls' = cmd.start[2] /\ sites' = RestoredSites
    /\ UNCHANGED <<cmd, user, left>>

\* In step_instruction, of a loop or of the step over a breakpoint in resume,
\* after the instruction or a Ctrl-C before it, the site under it stays out.
\* stepping_ and the step bit stay set as well: RunControl goes on from there.
StepThrows ==
    LET restored == IF cmd.op = "call" THEN RestoredSites ELSE sites
    IN  /\ \/ phase = "stepping" /\ (cmd.op = "step" \/ ~Skips)
           \/ phase = "resume" /\ sites[pc] = "enabled"
        /\ Throw /\ phase' = "failed"
        /\ IF cmd.op = "call" THEN pc' = cmd.start[1] /\ calls' = cmd.start[2]
           ELSE \E to \in Execute(pc, calls) \cup {[pc |-> pc, calls |-> calls]} : to # Gone /\ Move(to)
        /\ sites' = [restored EXCEPT ![pc] = IF @ = "enabled" THEN "disabled" ELSE @]
        /\ left' = left \cup {a \in Address \cap {pc, cmd.target} : sites'[a] # user[a]}
        /\ UNCHANGED <<cmd, user>>

-----------------------------------------------------------------------------
Init ==
    /\ pc = Main /\ calls = <<>>
    /\ sites = [a \in Address |-> "none"] /\ user = sites
    /\ frames = unwind_frames(Main, <<>>)
    /\ inline_height = reset_inline_height(Main) /\ current_frame = inline_height
    /\ phase = "prompt" /\ cmd = NoCommand /\ reason = "software_break"
    /\ stale = FALSE /\ left = {} /\ throws = 0

Commands ==
    \/ \E a \in Breakable, s \in {"none", "disabled", "enabled"} : SetSite(a, s)
    \/ up \/ down \/ Continue \/ step_in \/ step_over \/ step_out
    \/ \E f \in Callable : inferior_call(f)

Progress == StepLoop \/ StepOverCall \/ Resume \/ Run \/ Trap

Throws == StopThrows \/ CallThrows \/ CallReturnThrows \/ StepThrows

Next == Commands \/ Progress \/ StepInterrupted \/ ResumeInterrupted \/ Interrupt \/ Throws

\* The debugger does not stop working and the inferior does not stop running.
Spec == Init /\ [][Next]_vars /\ WF_vars(Progress)

-----------------------------------------------------------------------------
(* Properties. *)

TypeOK ==
    /\ pc \in Address \cup {0} /\ calls \in Seq(Address)
    /\ sites \in [Address -> {"none", "disabled", "enabled"}]
    /\ user \in [Address -> {"none", "disabled", "enabled"}]
    /\ frames \in Seq(Address)
    /\ inline_height \in Nat /\ current_frame \in Nat
    /\ phase \in {"prompt", "stepping", "resume", "running", "failed", "exited", "undefined"}
    /\ cmd.op \in {"none", "continue", "step", "next", "finish", "finish_inline", "call"}
    /\ cmd.target \in Address \cup {0}
    /\ reason \in {"single_step", "software_break", "interrupt", "returned", "exited", "error"}
    /\ stale \in BOOLEAN /\ left \subseteq Address /\ throws \in 0 .. MaxThrows

\* When the prompt is back, however the command ended, the breakpoint sites are
\* the ones the user set, in the state the user gave them: run_until_address and
\* inferior_call have taken out what they put in and changed nothing else.  The
\* exception is a reload that threw: at the stop of run_until_address it leaves
\* that site, and no other, planted for good; in step_instruction also the site
\* that was stepped off.
SitesRestored ==
    /\ phase = "prompt" => \A a \in Address : sites[a] = IF a \in left THEN "enabled" ELSE user[a]
    /\ phase = "failed" => \A a \in Address \ left : sites[a] = user[a]

\* An inferior call that comes back to the prompt, because it returned, because
\* it stopped elsewhere or because a reload threw, leaves the program where it
\* was (registers restored).
CallTransparent ==
    phase \in {"prompt", "failed"} /\ cmd.op = "call" => <<pc, calls>> = cmd.start

\* No command runs over an enabled breakpoint of the user without stopping at
\* it, except at the place where it lets the process go first (for an inferior
\* call that is the function's entry, so a breakpoint there is run over) and at
\* the addresses it ran to itself.  What puts back a call's registers runs
\* nothing.
BreakpointsReported ==
    [][phase # "prompt" /\ pc' # pc /\ user[pc] = "enabled" /\ pc \notin cmd.ran
        => \/ <<pc, calls>> = cmd.from
           \/ cmd.op = "call" /\ phase' = "prompt" /\ <<pc', calls'>> = cmd.start]_vars

FunctionAt(a) == {d \in Dies : d.depth = 0 /\ d.low <= a /\ a < d.high}

\* A next that ends as a step has not ended in a function it called, unless
\* that is a deeper call of the function it started in.  (One that starts with
\* stale frames may take a function for an inlined call to run over; and where
\* functions call one another in a circle, next may go on in the deeper call
\* and return from it into a function in between.)
NextStaysOut ==
    phase = "prompt" /\ cmd.op = "next" /\ reason = "single_step" /\ ~cmd.stale
        => \/ Len(calls) <= Len(cmd.start[2])
           \/ FunctionAt(pc) = FunctionAt(cmd.start[1])

\* At the prompt the frames are those of the program's state and the selected
\* frame is one of them.  The exceptions, until the next stop that is unwound:
\* a call that did not come back, and a stop whose reload threw, after which the
\* frames are those of an earlier one.
FramesFresh ==
    phase = "prompt" /\ ~stale
        => /\ frames = unwind_frames(pc, calls)
           /\ inline_height <= reset_inline_height(pc)
           /\ frames # <<>> => inline_height <= current_frame /\ current_frame < Len(frames)

\* Every command comes to an end: the prompt, the end of the process, or an
\* undefined read (past the frames in step_out, past the inline stack in
\* step_over, past the sites in inferior_call).
CommandEnds ==
    phase \in {"stepping", "resume", "running"} ~> phase \in {"prompt", "failed", "exited", "undefined"}

\* A finish that has run and ends as a step has returned to a caller of the
\* frame it started in.
FinishReturns ==
    phase = "prompt" /\ cmd.op = "finish" /\ reason = "single_step" /\ pc # cmd.start[1]
        => Len(calls) < Len(cmd.start[2])

-----------------------------------------------------------------------------
(* What TypeOK and NextStaysOut need of the program: that of a compiler. *)

\* The entries around an address are one of each level, code follows each of
\* them, and the row behind that of a function's entry is that of code.
WellDescribed ==
    /\ \A a \in Address :
        LET around == {d \in Dies : d.low <= a /\ a < d.high}
        IN  \A k \in 1 .. Cardinality(around) : \E d \in around : d.depth = k - 1
    /\ \A d \in Dies : d.high \in Address
    /\ \A d \in Dies : d.depth = 0 /\ line_entry(d.low) # 0 => Rows[line_entry(d.low) + 1].address \in Address

\* Between low and high, in one function, control comes to high or makes calls.
Enclosed(low, high) ==
    /\ low \in Address /\ high \in Address
    /\ \A a \in low .. high - 1 :
        /\ a \in Address /\ FunctionAt(a) = FunctionAt(high)
        /\ Code[a].op # "ret" /\ (Code[a].op = "cbz" => Code[a].to \in low .. high)

\* Only calls and returns lead from one function to another, inlined calls are
\* left at their end, and a call is on no line of the function it calls.
Separate ==
    /\ \A a \in Address : Code[a].op # "ret" => FunctionAt(a + 1) = FunctionAt(a)
    /\ \A a \in Address : Code[a].op = "cbz" => FunctionAt(Code[a].to) = FunctionAt(a)
    /\ \A d \in Dies : d.depth > 0 => Enclosed(d.low, d.high)
    /\ \A a, b \in Address :
        /\ Code[b].op = "bl" /\ FunctionAt(Code[b].to) = FunctionAt(a) /\ FunctionAt(a) # FunctionAt(b)
        => ~SameLine(line_entry(a), b + 1)

\* No function calls itself but directly: rank falls with each call of another.
DirectRecursion(rank) ==
    \A a \in Address :
        /\ rank[FunctionAt(a)] \in Nat
        /\ Code[a].op = "bl" /\ FunctionAt(Code[a].to) # FunctionAt(a)
            => rank[FunctionAt(Code[a].to)] < rank[FunctionAt(a)]
=============================================================================
