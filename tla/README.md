# A TLA+ model of sdb

sdb is a source-level debugger for ARM64 macOS. It controls one inferior
process through `ptrace`, `waitpid` and Mach task and thread ports, plants
breakpoints in its memory and in its threads' debug registers, and explains
what it sees with DWARF and Mach-O data. This directory models the parts of it
whose correctness depends on histories: what a long sequence of commands, stops,
thread starts and failures may leave behind.

## The system

| part | state it keeps | operations | with whom it interacts |
|---|---|---|---|
| breakpoint sites (`breakpoint_site.cpp`) | `is_enabled_`, `saved_data_`, `hardware_register_index_` | enable, disable | inferior memory, debug registers |
| watchpoints (`watchpoint.cpp`) | `is_enabled_`, mode, size, data | enable, disable, update_data | debug registers |
| stoppoint collections (`stoppoint_collection.hpp`) | vectors of owned or borrowed stoppoints | push, find, remove (which disables), for_each | sites, watchpoints, breakpoints |
| debug registers (`process.cpp`) | `debug_state_`, a copy in every thread | set and clear a hardware stoppoint | threads |
| process memory (`process.cpp`) | none | read, write, read without traps | sites |
| run control (`process.cpp`) | `state_`, `current_thread_`, `stepping_`, `pending_signal_`, `queued_stop_`, catch policy flags, thread table | resume, step_instruction, wait_on_signal | kernel, sites, target callbacks |
| lifecycle (`process.cpp`, `pipe.cpp`) | `terminate_on_end_`, `is_attached_` | launch, attach, destructor | kernel, stoppoints |
| breakpoints (`breakpoint.cpp`) | `is_enabled_`, pointers to sites, name | resolve, enable, disable, notify_hit | images, sites |
| target (`target.cpp`) | images, breakpoints, threads, expression results | notify_stop, reload libraries, source stepping, expressions | everything |
| stack (`stack.cpp`, `unwind.cpp`) | frames, inline height, current frame | unwind, up, down, simulated step-in | DWARF, registers |
| DWARF (`dwarf.cpp`) | parsed units, index, line tables | lookups, CFI unwinding, expressions | Mach-O |
| Mach-O (`macho.cpp`) | sections, symbols | lookups | files |
| types (`type.cpp`, `abi.cpp`) | none | sizes, layout, parameter classes, printing | DWARF |
| registers (`registers.cpp`) | a thread's register file, what is dirty | read, write, flush | threads |
| command line (`sdb.cpp`) | the previous line | the commands | everything above |

sdb itself is one thread. Concurrency comes from the inferior: its threads run
while the debugger waits, start and end, send and receive signals, write and
unmap memory, load and unload libraries, and it may be killed at any moment.
Almost every operation can throw half way (a page is gone, a thread is gone, no
register is free, a site exists already), and the exception ends the command
with whatever was done so far. `resume`, `step_instruction` and
`wait_on_signal` call one another recursively, through the loop that catches
system calls and through hit handlers that resume by themselves.

What would make each part correct:

* sites and memory: the memory that is read without traps is the program's, however
  traps are planted and lifted; a detached process holds no trap;
* registers: a register pair belongs to exactly one enabled stoppoint and guards
  the bytes the user asked for; no thread keeps trapping on a stoppoint that is
  gone;
* run control: a command leaves nothing half done; a breakpoint is not run past
  while it is lifted; a signal is delivered once; a caught system call is
  reported before it happens; commands come back;
* breakpoints: whatever threw, a site that can be hit has its breakpoint, a trap
  has its site, and breakpoints follow the images that are loaded;
* source stepping and inferior calls: temporary sites go, the user's sites and
  the registers stay as they were, frames are those of the current stop, every
  command ends and ends where its name says;
* lifecycle: every launch ends, errors of the child reach the user, and no
  process, trace or pipe end is left behind;
* DWARF: each decoder computes what the format says for every input of a
  bounded size, and one decoder does not lead another out of step.

## Modules

`Stoppoints` models sites, watchpoints, collections, debug registers and the
ways they meet memory and threads. A stoppoint is named by its collection and its
address; `created`, `enabled`, `hardware`, `saved`, `watch` and `slotOf` are the
fields of the objects, `debug_state` is `debug_state_` and `thread_debug` what each
thread really holds. `EnableStep` and `DisableStep` are `enable()` and `disable()` with
their early returns and failures; `Enable`, `Disable`, `Remove`, `CreateSite`,
`CreateWatch` and `WriteMemory` are the commands; `LiftSite`, `StartStep`, `EndStep` and
`AbortStep` are the pieces of `step_instruction` that move a site out and back in;
`Detach` and `Terminate` are `~process`. The inferior starts and ends threads, stores,
unmaps and dies. A command that throws before it changed anything is a stutter.

`DebugView` is the abstract specification of what sites promise about memory:
two variables, the view and the set of planted cells. Moving traps never changes
the view; a write changes it only where no trap is planted. `Stoppoints` implements
it with `view <- View`, `planted <- Planted` (the property `ViewPreserved`). The view is that of
`read_memory_without_traps`, which the disassembly uses; `memory read` shows the raw words, traps included.

`RunControl` models `resume`, `send_continue`, `step_over_breakpoint`, `step_instruction`,
`wait_on_signal`, `populate_existing_threads` and the system call loop. `todo` is the
call stack of the debugger: a task is the rest of a function body, so the
recursion among the three functions is explicit and the inferior can run at
every point where the code waits, and nowhere else. The inferior's code is a ring
of a few instructions, some of them breakpoints, an svc, or the end of a thread.
Signals are numbered in the order they are sent, to tell which one is delivered.
The handling of a stop may throw, in a hit handler or in `notify_stop`, both of which reload the libraries
(`WaitThrows`, `NotifyThrows`): the call stack is dropped up to the prompt, with the calls of `step_instruction` that
wait in it. `lost` is the history of these calls, and `caught` that of the system call entry queued last, with its thread and
whether something came between it and its exit.

`Breakpoints` models the target's breakpoints on top of sites: `own` are the plain
pointers a breakpoint holds, `dangling` those whose site was destroyed, `site` the
process's collection. Every loop over sites or addresses is a `job` that visits one
element per step and is ended by the first that throws. Use of a dangling
pointer, or of the end of a failed search, leads to the phase `undefined`, from
which nothing more is said. Every delete of a breakpoint with sites ends by disabling them through pointers to
the sites it has just freed: `Deleted` is the outcome in which their flags still read as they were left, `UsesFreed`
any other, which ends in the phase `freed`. `Load` and `Unload` are `dlopen` and
`dlclose`, with the loader's notification that makes the debugger reload.

`Stepping` models `step_in`, `step_over`, `step_out`, `run_until_address`, `inferior_call`
and `stack.cpp` over a constant program: instructions with calls, recursion and
conditional branches, line rows, and the ranges of functions and of nested
inlined calls. `pc` and `calls` are the inferior, `frames`, `inline_height` and
`current_frame` the fields of `stack`, `sites` the site at each address; `user` is a
history of what the user set. `cmd` holds the locals of the running command, and three
histories besides: `cmd.from`, the place where it first let the process go (of an inferior call, the function's entry),
`cmd.ran`, the addresses it ran to, and whether it started on stale frames. The reload at a stop may throw
(`StopThrows`, `CallThrows`, `CallReturnThrows`, `StepThrows`): `left` are the addresses of sites that were left
otherwise than the user set them. After a throw inside `step_instruction` the phase is `failed`: what follows with the step
bit and `stepping_` set is in `RunControl`. `stale` is the history of a call that did not come back or a reload that threw: the frames are not those of
the current state until something unwinds again. Each
instruction is a step, so a breakpoint or Ctrl-C can stop the process in the middle of
anything a command started. The unwinder is taken to be right here.

`Lifecycle` models `process::launch`, `attach`, the constructors that can throw, the
run to the entry point, `quit` and `~process`, as two processes and a pipe: `fds` are
its open ends in each of them, `buffer` what is in it, `child` what the kernel knows
of the inferior. Anyone may kill the inferior between any two steps.

The five decoders of the debug information are functions of their input, and the
input is built nondeterministically, one element per step, so that TLC covers
every input up to a bound; what a reference definition needs to know about it
is kept as history.

* `LineTable`: the header checks, the opcodes that emit rows, and the lookups by
  address and by line.
* `CallFrame`: a prologue, body and epilogue are executed on a small machine and
  described by call frame instructions; then `unwind` is run from every location,
  through compact unwind info, the FDE, or the chain of frame pointers. The
  search for the record in `.eh_frame` and for the page in `__unwind_info` is included.
* `Expression`: `dwarf_expression::eval` opcode by opcode, location lists,
  `read_location_data` and `memcpy_bits`. Words have four bits and bytes two, so that
  every operation meets the sign and the end of the word.
* `Cursor`: LEB128, fixed integers, `skip_form` and the readers of attributes.
* `DieTree`: entries as flat data, the walk over them, ranges, the two indexes, and the
  lookups of functions, inlined calls, scopes, variables and member functions.

`MCDebugInfo` puts the five into one instance; its variable `which` chooses one at the
start of each behaviour.

The first three are separate state machines because they need different detail of
the same objects: `RunControl` takes a site as an address that is in or out,
which is what `Stoppoints` shows `enable()` and `disable()` to provide, and
`Breakpoints` adds who points to a site.

`StoppointsProofs`, `RunControlProofs`, `BreakpointsProofs`, `SteppingProofs`,
`LifecycleProofs`, `LineTableProofs`, `CallFrameProofs` and `CursorProofs` hold the theorems, each about the module it is named
after. The MC modules and cfg files give the
constants small values.

Definitions marked as mutants are deliberate errors, each beside the
definition it distorts; no specification uses them. Replacing the definition by
its mutant must make TLC refute a property, which shows that the property
depends on that line of the code.

## Runs

| run | instance | shows |
|---|---|---|
| `traps` | two words, software sites on both and a hardware site that may take the second, both written by the user and written and unmapped by the inferior | traps stay in until they are taken out; the view is the program's; detach is clean; `DebugView` is implemented |
| `registers` | two hardware sites and an execute watchpoint for two breakpoint registers, a two-byte watchpoint at the end of a doubleword, two threads | pairs and stoppoints correspond one to one, each guards the right bytes, and no thread holds a pair that was given away; detach disarms |
| `unarmed_thread` | the same stoppoints, two threads | *violation*: a thread that starts later runs without the watchpoint |
| `threads` | three threads, four instructions, two sites, one of which may have a handler that resumes, one svc with a catch policy, two signals | `SignalOnce`, `NoMissedBreakpoint`, `CaughtBeforeExecuted` |
| `liveness` | two threads, two sites, one of which may have a handler, one svc with a catch policy, one stop whose handling throws | `CleanPrompt`, `StepReturns`, `InterruptReturns` |
| `step_thread` | two threads, two sites | *violation*: the step of one thread makes another current |
| `exit_lost` | one thread, a site on the last instruction | *violation*: the exit in a step over a breakpoint is lost |
| `breakpoints` | a function, a line and an address breakpoint that share addresses, one register, one library | `HitHasBreakpoint`, `TrapHasSite`, `PointersValid`, `PendingResolved` |
| `stepping` | a program of 13 instructions: a recursive function whose last line holds the recursive call and the return and which has an inlined call, two nested inlined calls that start together, a library function without lines; a breakpoint of the user on the address to which called functions return or behind a recursive call; a function the user calls; the reload at one stop may throw | `SitesRestored`, `CallTransparent`, `NextStaysOut`, `FramesFresh`, `BreakpointsReported`, `CommandEnds` |
| `finish` | the same program, a breakpoint inside the recursion | *violation*: finish stops in an activation that is no caller |
| `lifecycle` | one launch, one launch without debugging, one attach | `CleanEnd`, `ExecErrorTold`, `LaunchEnds` |
| `debug_info` | the decoders, each over all of its inputs | `RowsCorrect`, `LookupCorrect`; `FdeUnwinds`, `CompactUnwinds`; `ExpressionLocates`, `ReadsObject`; `CursorAgrees`; `TreeWalked`, `ScopesNest` |

Why the bounds are enough. Two words let a site be created, removed and
created again, also as a hardware site, with its neighbour enabled. Registers are fewer than
stoppoints, so exhaustion, release and reuse happen. Three threads are the
thread that is stepped, one that waits on a breakpoint and one that comes or
goes; the ring is short enough for a thread to come back to a site during one
command. Two signals are what a single slot can confuse. In `breakpoints` each
pair of breakpoints shares an address, and one library gives every order of
load, resolve, unload and delete.

Where stops may throw, one of them does (`MaxThrows`): what it leaves is there for all commands behind it, and a second
throw can only add to it. `RunControl` goes on after a throw, but not (`Followed`) with a stop left in `queued_stop_`, which the next command
would take for its own while the process runs.

In `stepping` a recursion of depth two (`MaxDepth`) gives a command that starts in either activation the other one as its
caller or its callee; the user has one breakpoint at a time (`MaxSet`), which lies where the commands put their
own sites. `finish` has a recursion of depth three, with an activation between the one that is left and the outermost. `debug_info` runs line programs of five opcodes (`MaxLineOps`: two
sequences with a row in each, or one with a register set before two rows),
functions of eight locations (`MaxLocation`: a whole prologue, a body instruction, an epilogue and
the code behind it), expressions of four opcodes before a result (`MaxStackOps`) and two
pieces (`MaxPieces`), numbers of up to four groups of three bits in a word of eight (as there the
last of ten groups of seven is cut by a word of 64), and six entries with their nulls
(`MaxDies` bounds the position of an entry: a unit, a function and a block with a variable, then a sibling). Deadlock is not checked where the process may
exit or the user may stop typing, which is everywhere.

Fairness. In `liveness` the debugger takes its next step whenever it has one
(`WF` of `Debugger`: it is one thread that only blocks in `waitpid`), and every thread
that can run is scheduled (`WF` of `Run(t)`, the kernel's promise). `InterruptReturns`
assumes a user who presses Ctrl-C again and again, also while no step is waited for (the step over a breakpoint uses one
up), which is stated in the property and not in the specification; nothing is assumed of throws. In `stepping` the debugger and the process it
has continued go on (`WF` of `Progress`); that the recursion ends is the program's doing,
and the bound's. In `lifecycle` both processes run (`WF` of `Debugs` and of `Inferior`); the user
need not type and nobody need kill anything.

Four runs are violations: a test states something that the code does not
provide in other circumstances than the test's.

* `unarmed_thread`: "watchpoint missed" (test/tests.cpp:60).
  `populate_existing_threads` does not hand `debug_state_` to a new thread.
* `step_thread`: "worker stepping failed" (test/tests.cpp:64). A SIGTRAP stop is
  attributed to any thread on an enabled site, whichever thread trapped.
* `exit_lost`: "process did not exit" (test/tests.cpp:57). The reason of the step
  over a breakpoint is dropped and the following continue throws.
* `finish`: "finish did not return to caller" (test/tests.cpp:56). `run_until_address`
  reports the hit at the return address as a step, so the loop in `step_out` that
  should repeat while the stack is as deep as before never does.

Further behaviour of the code that the premises of the properties record:

* a write over an enabled site removes its trap (`overwritten` in `TrapsPlanted`);
* `stepi` over the end of a thread waits for an event nobody can cause, until
  Ctrl-C (`ThreadEnd` in `StepReturns`);
* a trap on an svc hides it from the catch loop (`Svc \ Sites` in
  `CaughtBeforeExecuted`), and `expecting_syscall_exit_` survives a `stepi`, the selection of another thread and a
  change of the policy: the next selected svc is then executed unreported, and its exit is reported (`caught.excused` there);
* a hit handler that resumes inside the wait of a step lets the process run
  with the stepped site out: `NoMissedBreakpoint` speaks of commands without a handler;
  with a catch policy the resume of a handler queues a stop and then waits for a process nobody
  continued. That process is stopped, so Ctrl-C gives no event either: the debugger hangs
  (`WaitsForStopped` in `InterruptReturns`). The rendezvous breakpoint of the loader has such a handler;
* a hit handler or a reload that throws at a stop (`lost` in `CleanPrompt`) leaves of each `step_instruction` it cut off the
  site out, the other threads suspended, the step bit and `stepping_` set, and in `resume` a stop in `queued_stop_`;
* the same throw in `run_until_address` leaves its own site planted for good (`left` in `SitesRestored`; the user has no command
  for it) and the frames of an earlier stop (`FramesFresh`). `inferior_call` catches it and puts everything back, but
  a throw of its own `notify_stop`, behind the removal of its site, makes it remove the site a second time,
  through the end of the collection (phase `undefined`);
* an inferior call runs over a breakpoint on the entry of the function, where it lets the process go (`cmd.from` in
  `BreakpointsReported`);
* a disabled site at the address a source step runs to is left disabled, so the
  run does not stop there, and an enabled one is reported as a step
  (`cmd.ran` in `BreakpointsReported`);
* a process that exits while a step has its own site planted makes the removal
  throw; a call that throws leaves the frames of before (`FramesFresh`), and
  `next` runs a call without passing its thread on;
* a call that does not come back leaves the frames of the place where it stopped, and a
  step into an inlined call keeps them. A `next` that starts there takes its inline height for
  one of the current function: it runs to the end of the function, or reads the inline
  stack out of bounds (`stale` in `FramesFresh`, `cmd.stale` in `NextStaysOut`, phase `undefined`);
* `finish` in the outermost frame reads past the frames (phase `undefined`);
* `next` over a recursive call may stop in a deeper call (`NextStaysOut`);
* a reload that throws leaves the breakpoints after the failing one unresolved,
  at that stop and at every later one (`failed` in `PendingResolved`);
* every delete of a breakpoint disables its sites once more after it has freed them (phase `freed` in `PointersValid`);
  deleting a breakpoint in an unloaded library stops half way and leaves dangling pointers between commands too (`failed` there);
* detaching with an enabled site in an unmapped page leaves the other
  stoppoints in (the premise of `DetachClean`);
* `set_isa` leaves its operand to be executed (`RowsCorrect`), and the last row of a
  sequence can be given to a line breakpoint (`LookupCorrect`);
* a rule of the CIE wins over one of the FDE, and `restore` throws for a register
  without a CIE rule (`Shadowed`, `Restores` in `FdeUnwinds`); compact unwind info does not
  describe a prologue, and gives the two registers of a saved pair exchanged
  (`SeesPair` in `CompactUnwinds`);
* the data of `implicit_value` and the operand of a `bra` that is not taken are executed
  as opcodes (`strayed` in `ExpressionLocates`, for a `bra` where the length is that of a literal; short lengths
  are opcodes that change nothing); pieces that are not whole bytes all go to bit 0
  and registers wider than their piece are copied in full (`ReadsObject`);
* `ref8` can be read and not skipped (`FormsAgree`);
* an entry with a low pc and no high pc, such as a label, makes the lookup of scopes throw for every address behind
  it in its scope (`scopes_at_address_throws` in `ScopesNest`);
* an inlined call inside a lexical block is not part of the inline stack
  (`ScopesNest`), and the index is built again while it holds no function.

## Proofs

Every theorem is about its module's specification and holds for every value of the constants
that satisfies the module's assumption. Each rests on an inductive invariant, of which TLC
checked that it holds on the instance of the module's run.

**Sites and debug registers** (`StoppointsProofs`), for every set of addresses, threads
and words and any number of registers, from `StoppointsAssumption` (addresses are naturals and
closed under rounding down to a word, the trap is not a word of the program, there is a register
and a thread):

* `TypeCorrect`: `TypeOK`, together with `NothingLifted`: outside a step no site is
  lifted. The conjunct is needed because the lifted site is what `EndStep` enables;
* `MemoryCorrect`, `TrapsStayPlanted`: `TrapsPlanted` and `ProgramShown`. The two are inductive relative
  to `TypeCorrect`: the saved word of a planted cell is a program word because
  `enable()` reads it when no trap is planted there, which is the early return;
* `ViewRefined`: `Spec => ViewPreserved`. Every step maps to a `MoveTraps`, a `Write` or a
  stutter. The lemmas `EnableStepView`, `DisableStepView` and `StepView` give the effect of each
  operation on the view; `DetachReaches` says what a partial cleanup restores;
* `RegistersCorrect`, `ThreadsNotStray`: `RegistersOwned` and `NoStrayArming`. Their inductive form
  `RegisterInv` adds two conjuncts. `ThreadsKnown` (a stopped process has no thread
  missing from `ports_`) is needed because clearing a pair writes it only to the
  threads the debugger knows: a thread it did not know would keep the old
  value. `SoftwareAligned` (a trap sits at a word boundary) is needed for the
  detach. `SelectedBytes` shows that value register and byte select name exactly
  the watched bytes, from the alignment check of `set_hardware_stoppoint`;
* `DetachCorrect`: `DetachClean`, from the two theorems above: if no enabled
  site's page has gone the cleanup visits every stoppoint, the words it
  puts back are those the view showed, and the pairs it clears are all that
  were armed.

**Run control** (`RunControlProofs`), for every finite set of threads, any length of code and any
placement of sites, system calls and ends in it, every choice of hit handlers and any number of
signals. The difficulty is that the debugger is in the middle of several functions at once, so
the invariant is about the whole of `todo`. A task is identified by the number of tasks behind it,
which does not change while others come and go in front of it; `Steps` are the calls of
`step_instruction` that have moved their site out and wait, `Begun` are these and the ones that a throw cut off (`lost`). `RunControlInv` says:

* `ControlInv`: the tasks are nested as the functions call one another (`WellNested`, a relation between
  neighbours), and what the flags, the thread table and the return value may be at each task;
* `SiteInv`: the enabled sites are all but those that `Begun` took out, and no two took the same;
* `HeldInv`: a live thread is suspended as often as there are steps in `Begun` that hold it, where a step that was cut off is told from
  a later one by the number of its throw. This is what makes
  the counts return to zero; it needs the cardinality of a set of frames, and so the finiteness of `Thread`;
* `SignalInv`: where a signal is before it is delivered.

From it follow `RunControlTyped` (`TypeOK`: no thread is resumed more often than it was suspended),
`PromptIsClean` (`CleanPrompt`: with no task left `Begun` is what throws cut off) and `SignalsDeliveredOnce` (`SignalOnce`). The
action properties `BreakpointsNotMissed` (`NoMissedBreakpoint`) and `SyscallsCaught` (`CaughtBeforeExecuted`)
speak of commands without a hit handler and of sessions without a throw, and need `PlainInv` besides: only one step is under
way (`OneStep`), while it waits it holds all other known threads (`Guarded`), and a traced thread is stepped
only where the loop has looked at its instruction (`Looked`). For `SyscallsCaught` this has to lead from the flag `expecting_syscall_exit_` to the entry of
this very call: while an exit is awaited and nothing
excuses its loss, the thread that is looked at or stepped is the one the entry was queued for (`Entered`).

**Breakpoints** (`BreakpointsProofs`), for any breakpoints, images and targets over a finite set of addresses, any number of
registers, and every order in which the loops visit their elements and throw. `BreakpointsInv` adds to the
properties that breakpoints are listed once and only listed ones are enabled (`ListInv`), that a loop
visits what is there (`JobInv`), that a pointer leads to a site of its own breakpoint and only a
delete leaves dangling ones, all of them at its end (`PointerInv`), and that what is left of a loop over targets is what its
breakpoint still lacks (`ResolveInv`). It gives `BreakpointsTyped`, `HitsNotifyBreakpoints`, `TrapsBelongToSites`,
`PointersLead` and `ReloadResolves`: all the invariants of the run.

**Source stepping** (`SteppingProofs`), for every program, line table and set of inlined calls, whether or
not they describe the program, and any number of throws. `SteppingInv` says that the sites differ from the user's at
most at the target of the run that is under way, whose state it remembers, and where a throw left one (`Kept` in `SitesInv`), and that
the debugger makes the inferior leave an enabled breakpoint only where the command first let it go or ran
to, in inferior calls too (`LeaveInv`). It gives `SitesComeBack` (`SitesRestored`), `CallsComeBack` (`CallTransparent`) and, with `InferiorInv`,
the action property `BreakpointsStop` (`BreakpointsReported`). `FramesStayFresh` (`FramesFresh`) needs `FramesMatch` and `HeightInv`: unless
they are stale, the frames are those that `unwind` made for the current state, and `up`, `down` and the steps into inlined calls move the
selection within them. Its core is `EnoughFrames`: an unwound stack has more frames than inlined calls that are not entered yet. The frames are put
together by a recursive function (`FlattenSeq`), so this one fact about data is an induction, made as an argument about
the least counterexample (`FlattenExists`, `FlattenedLength`).

The other two theorems depend on the program, and say on what; `MCStepping` evaluates these hypotheses for the program of the run.

* `SteppingTyped` (`TypeOK`) is for programs that are `WellDescribed`: inlined calls nest level by level, and code follows each
  of them and the row behind a function's first. Then every command runs to an address of the code. The invariant has a part
  for the frames (`StackTyped`), for the command (`ControlTyped`) and for the inferior (`InferiorTyped`).
* `NextKeepsOut` (`NextStaysOut`) needs functions that are `Separate` (only calls and returns lead from one to another, and inlined calls
  are left at their end) and `DirectRecursion`: a function calls itself directly or not at all, shown by a rank that falls with every call of
  another. `StackInv` says that return addresses lie behind calls (`Linked`) and that frames of one function are not separated
  by others (`Layered`). `NextInv` says that there is always a frame of the function `next` started in, no deeper than it was
  (`Anchored`), and that the frame in which a call is run over will come to the temporary breakpoint (`Comes`). The hypothesis is
  not for convenience: if `f` calls `g` and `g` calls `f`, a `next` in `f` over the call of `g` can stop at its temporary breakpoint in the deeper
  `f`, go on from there and return into `g`, which is a function it called.

**Lifecycle** (`LifecycleProofs`), for every kind of session, whatever fails and whenever the inferior is killed.
`LifecycleInv` ties the debugger's place in the code to the open pipe ends (`PipeInv`), to where an errno is
(`ErrnoInv`), to the state of the child (`ChildInv`) and to what is left in the end (`EndInv`). It gives `SessionTyped` (which
includes that nothing is waited for that was reaped), `SessionEndsClean` (`CleanEnd`) and `ExecErrorReported`
(`ExecErrorTold`). The point is `ReadNothing`: the read returns nothing only when the child cannot write any more.

**Line table** (`LineTableProofs`), for every header and every line program of any length with the operands
that the format allows and the address set only outside a sequence. `LineTableInv` says that no row of a sequence lies behind a
later one, nor behind the registers (`Ascending`), and that some row lies behind all (`Bounded`). `LookupFinds` (`LookupCorrect`)
follows: between a row that does not lie behind the address and the end of a finished sequence there is a last such row, which the lookup
can find (`CoveredFound`); since it takes the first range of the table, the range it takes lies in a finished
sequence too, even if the last one is not (`FoundCovered`). Smallest and largest elements come from the well-foundedness of the naturals,
which the library states for sets.

`RowsAreCorrect` (`RowsCorrect`) compares the registers, which change opcode by opcode, with a reference that looks at the whole program: the sum
of what was advanced since the last place the address was set, and for every other field the last opcode that set
or dropped it. The sums are folds over finite sets; `SumExists` shows that such a fold is a sum, `SumTakesOut` that an element
can be taken out of it, both by the least cardinality of a counterexample. `Latest` names the place of an opcode, and `LatestNext` says how it
moves when the program grows. `ProgramInv` then ties every register to these places and
sums, and every emitted row to the registers at its opcode.

**Call frames** (`CallFrameProofs`), for every function that the instructions of the model put together, of any length. `FrameInv` says
what the instructions executed so far have left in the registers and on the stack, now and in every snapshot, and that there is a last
snapshot before an epilogue (`BeforeEpilogue`), which the code behind a return goes on with.

* `CompactFindsCaller` (`CompactUnwinds`) follows from it, if `__unwind_info` lists the function (`Listed`).
* `FdesFindCaller` (`FdeUnwinds`) assumes that the FDEs around the function start with it, count in words, and have a CIE with the stack
  pointer for the CFA and no rules but for kept registers and a lost `x9` (`FdesPlain`). A second invariant is about the loop over the
  FDE. Its claim is made for every pc at once: if the loop reaches the last instruction, the rules describe the
  machine as it is now (`Described`), the remembered ones the machine before the epilogue (`Remembers`); and if the pc is that of a snapshot, the rules lead
  to the caller from that snapshot (`Finds`). When the program grows the second part does not change, since the loop ends at the
  first advance behind the pc (`OpsKeep`); when the pc of the present state becomes a snapshot, the second follows from the first (`DescribedFinds`).
  One lemma per opcode and one per instruction (`PushRules` to `ClobberRules`) say what happens to the rules. A register with a rule in the CIE keeps it, because
  of `emplace`, so the property is about FDEs without rules for such registers; a
  `restore` of a register without one is the only failure.

`MCDebugInfo` evaluates both hypotheses for its sections.

**Numbers and forms** (`CursorProofs`), for every width of a group and of a word and every sequence of bytes. `CursorIsCorrect` (`CursorAgrees`) has two parts.

* `NumbersRead` compares the loop of `uleb128` and `sleb128` with the sum of all groups of the number. `LoopStates` says where the loop stands
  after each byte of the number: it holds the sum so far as the word cuts it, or it has thrown because the bits were used up before; `LoopEnds` that
  it does not move behind the last byte. For the sign, the sum is smaller than the weight of the next group (`SumsBounded`): if that weight is
  less than the word the bits above it are filled in (`SignFilled`), and if not it counts whole words and there is nothing to fill (`SignWrapped`). The provers know nothing of powers, so
  `Pow2` is a recursive function and its laws are proved here, like the loop and the sum, by the least counterexample.
* `FormsAgree` is shown form by form.

Proving changed the models in a few places. `StartThread` could reuse a port that the debugger still
held; `BreakpointsReported` excused the last address a command ran to and has to excuse all of them; frames that
are stale after a failed call, or a reload that threw, were not told apart; and the inline stack is now given level by level, which is how
the code finds it, where it was sorted before. The loop over an FDE, and the page of `__unwind_info` that is searched, became
definitions of their own, and addresses of code are naturals, which `Stepping` had left open. The loop of `Cursor` is now a recursive function.

Only model-checked:

* the liveness properties `StepReturns`, `InterruptReturns`, `CommandEnds` and `LaunchEnds`: the prover has no liveness
  under fairness;
* `ExpressionLocates` and `ReadsObject`: `Expression` uses `Bitwise`, which no module with a theorem may reach;
* `TreeWalked` and `ScopesNest`: the walks over the entries are recursive functions over the data, several of them nested, and are
  compared with selections from sequences; this is induction over data throughout.

## Not modelled

* printing, the parsing of commands, the disassembler (a wrapper around LLVM),
  the table of system call names and the other constant tables;
* `update_data` of watchpoints (display only; it copies `size_` bytes into eight
  before anything has bounded the size), the protection changes inside
  `write_memory`, exception registers and `hit_slot_` (which watchpoint is shown), the
  reading of dyld's image list;
* ids: stoppoints are named by address, so an unknown id given to `watchpoint
  delete` (`remove_by_id` uses the result of a search that found nothing) is outside
  the model, and so is an unknown thread given to `thread
  select`;
* the Mach-O reader: lookups in a parsed file without state that changes, over
  a layout that system headers define;
* types and values, apart from `memcpy_bits`: sizes, layouts, parameter classes and
  printing are recursions over type entries that nothing else changes;
* register access: a copy that is read at a stop and written through; its
  conversions between widths are left out;
* parsing of expressions and overload resolution; the call they lead to is
  in `Stepping`;
* in DWARF: the search table of `.eh_frame_hdr` (parsed and never used), expressions
  in call frame instructions, bit-fields, unit headers; vector registers when
  unwinding; pointers into `file_names_`, which may move when a file is defined; the errors of `unwind_compact` for a section
  that is cut off or of another version, page kind or encoding index.

## State

The modelling is complete as far as listed above. All invariants of the passing runs but four are proved, and so are
the action properties and the refinement; these four and the four liveness properties listed under the proofs are model-checked only.
