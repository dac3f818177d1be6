----------------------------- MODULE RunControl -----------------------------
(***************************************************************************)
(* Run control of a multi-threaded inferior: resume, step_instruction and  *)
(* wait_on_signal of sdb::process, which call one another recursively,     *)
(* the threads they suspend and step, the signals they hold back, and the  *)
(* system calls they catch.                                                *)
(*                                                                         *)
(* The debugger is one thread of control that blocks only in waitpid.      *)
(* todo is what it still has to do, innermost call first: a task is the    *)
(* rest of a function body, so calling is putting tasks in front and       *)
(* returning is dropping the first.  ret is the stop_reason last returned. *)
(*                                                                         *)
(* The inferior's code is a ring of instructions.  Sites are software      *)
(* sites; the site of a hit handler stands for the rendezvous breakpoint   *)
(* whose handler asks wait_on_signal to resume by itself.                  *)
(***************************************************************************)
EXTENDS Integers, Sequences, FiniteSets

CONSTANTS
    Thread,      \* threads the inferior may have
    Size,        \* instructions in the ring
    Sites,       \* addresses of the enabled breakpoint sites
    Handlers,    \* sets of sites whose breakpoints may have a hit handler that resumes
    Svc,         \* svc instructions that the catch policy selects
    ThreadEnd,   \* instructions that may end their thread
    ProcessEnd,  \* instructions that may end the process
    MaxSignals,  \* signals sent to the process in a behaviour
    MaxThrows    \* stops whose handling throws in a behaviour

Addr == 0 .. Size - 1

ASSUME RunControlAssumption ==
    /\ Size \in Nat \ {0}
    /\ Thread # {} /\ IsFiniteSet(Thread)
    /\ Sites \cup Svc \cup ThreadEnd \cup ProcessEnd \subseteq Addr
    /\ Handlers \subseteq SUBSET Sites
    /\ MaxSignals \in Nat /\ MaxThrows \in Nat

VARIABLES
    \* the debugger
    todo, ret,
    state,        \* state_
    current,      \* current_thread_
    ports,        \* the threads of threads_ and ports_
    enabled,      \* sites with is_enabled_
    stepping,     \* stepping_
    pending,      \* pending_signal_ (0: none)
    catching,     \* syscall_catch_policy_ is not none
    tracing,      \* tracing_syscalls_
    expecting,    \* expecting_syscall_exit_
    queued,       \* queued_stop_
    \* the inferior
    live, pc, suspended, step_bit,
    event,        \* the wait status waitpid will return
    handled,      \* the sites with a hit handler, fixed in a behaviour
    \* history
    command,      \* the command that is running: its kind, thread and pc
    sent, delivered,
    caught,       \* the entry queued last: its thread until that moves on, and
                  \* what may have happened to it: see Excuse
    lost          \* the throws so far, and the steps they cut off

debuggerVars == <<todo, ret, state, current, ports, enabled, stepping, pending,
                  catching, tracing, expecting, queued>>
inferiorVars == <<live, pc, suspended, step_bit, event, sent>>
vars == <<debuggerVars, inferiorVars, handled, command, delivered, caught, lost>>

-----------------------------------------------------------------------------
(* Stop reasons and tasks. *)

NoThread == "none"
Reason(kind, t) == [kind |-> kind, t |-> t]
None == Reason("none", NoThread)
Kinds == {"none", "single_step", "software_break", "unknown", "syscall_entry",
          "syscall_exit", "signal", "sigstop", "exited", "error"}
IsStep(r) == r.kind = "single_step"

Task(op, t) == [op |-> op, t |-> t, site |-> {}, held |-> {}]
Call(op) == Task(op, NoThread)

Prompt == todo = <<>>
Doing(op) == todo # <<>> /\ Head(todo).op = op
Return == todo' = Tail(todo)
Perform(tasks) == todo' = tasks \o Tail(todo)

Idle == [op |-> "none", t |-> NoThread, from |-> 0]

\* Until its exit is queued, an entry is left to itself when the user steps by
\* instruction, selects a thread or changes the policy, and when the step of its
\* svc ends in another stop.
NoEntry == [t |-> NoThread, excused |-> FALSE]
Excuse == caught' = [caught EXCEPT !.excused = @ \/ expecting]
Leaves(t) == caught' = IF caught.t = t THEN [caught EXCEPT !.t = NoThread] ELSE caught

\* A throw drops all that is to do, with the step_instruction calls that wait for
\* their step: the sites they took out stay out, the threads they hold stay
\* suspended, their own threads keep the step bit, and stepping_ stays set.
\* A call is known by the number of tasks behind it.
UnderWay == {[throw |-> lost.throws, behind |-> Len(todo) - i, step |-> todo[i]] :
                i \in {j \in 1 .. Len(todo) : todo[j].op = "stepped"}}
NothingLost == [throws |-> 0, steps |-> {}]

\* The error unwinds to the prompt, past the catch in resume.
Throw(t) ==
    /\ lost.throws < MaxThrows
    /\ todo' = <<>> /\ command' = Idle
    /\ ret' = Reason("error", t)
    /\ tracing' = FALSE
    /\ lost' = [throws |-> lost.throws + 1, steps |-> lost.steps \cup UnderWay]

-----------------------------------------------------------------------------
(* Commands. *)

\* A session is followed until a throw leaves a stop in queued_stop_: the next
\* wait_on_signal would return it while the process runs.
Followed == Prompt /\ state = "stopped" /\ queued = None

\* continue: resume(), wait_on_signal(), then the stop is printed.
Continue ==
    /\ Followed
    /\ todo' = <<Task("resume", current), Call("wait"), Call("report")>>
    /\ ret' = None
    /\ command' = [op |-> "continue", t |-> current, from |-> pc[current]]
    /\ UNCHANGED <<state, current, ports, enabled, stepping, pending, catching, tracing,
                   expecting, queued, inferiorVars, delivered, caught, lost>>

\* stepi
StepI ==
    /\ Followed
    /\ Excuse
    /\ todo' = <<Task("step", current), Call("report")>>
    /\ ret' = None
    /\ command' = [op |-> "stepi", t |-> current, from |-> pc[current]]
    /\ UNCHANGED <<state, current, ports, enabled, stepping, pending, catching, tracing,
                   expecting, queued, inferiorVars, delivered, lost>>

\* thread select, of a thread that is listed.
SelectThread(t) ==
    /\ Prompt /\ state = "stopped"
    /\ t \in ports \ {current}
    /\ current' = t
    /\ Excuse
    /\ UNCHANGED <<todo, ret, state, ports, enabled, stepping, pending, catching, tracing,
                   expecting, queued, inferiorVars, command, delivered, lost>>

\* catchpoint syscall, and catchpoint syscall none.
SetCatchPolicy ==
    /\ Prompt /\ Svc # {}
    /\ catching' = ~catching
    /\ Excuse
    /\ UNCHANGED <<todo, ret, state, current, ports, enabled, stepping, pending, tracing,
                   expecting, queued, inferiorVars, command, delivered, lost>>

-----------------------------------------------------------------------------
(* resume *)

DoResume ==
    LET t == Head(todo).t
        over == IF pc[t] \in enabled THEN <<Task("step", t)>> ELSE <<>>
        trace == catching /\ ~tracing
    IN  /\ Doing("resume")
        /\ Perform(IF trace THEN <<Task("trace", t)>> ELSE over \o <<Call("send_continue")>>)
        /\ tracing' = (tracing \/ trace)
        /\ UNCHANGED <<ret, state, current, ports, enabled, stepping, pending, catching,
                       expecting, queued, inferiorVars, command, delivered, caught, lost>>

\* Mutant: the loop looks at the word behind the pc.
SvcBehind(t) == pc[t] \in {(a + 1) % Size : a \in Svc \ enabled}

\* The head of the system call loop looks at the word at the pc as it is in
\* memory, where a trap hides an svc.
SvcMatches(t) == pc[t] \in Svc \ enabled

DoTrace ==
    LET t == Head(todo).t
        entry == SvcMatches(t) /\ ~expecting
    IN  /\ Doing("trace")
        /\ IF entry THEN Return ELSE Perform(<<Task("step", t), Task("traced", t)>>)
        /\ expecting' = (expecting \/ entry)
        /\ queued' = IF entry THEN Reason("syscall_entry", t) ELSE queued
        /\ tracing' = ~entry
        /\ caught' = IF entry THEN [t |-> t, excused |-> FALSE] ELSE caught
        /\ UNCHANGED <<ret, state, current, ports, enabled, stepping, pending, catching,
                       inferiorVars, command, delivered, lost>>

\* The tail of the loop, after its step_instruction.
DoTraced ==
    LET t == Head(todo).t
        again == IsStep(ret) /\ ~expecting
    IN  /\ Doing("traced")
        /\ IF again THEN Perform(<<Task("trace", t)>>) ELSE Return
        /\ queued' = CASE again -> queued
                       [] IsStep(ret) /\ expecting -> Reason("syscall_exit", t)
                       [] OTHER -> ret
        /\ expecting' = (expecting /\ ~IsStep(ret))
        /\ tracing' = again
        /\ IF IsStep(ret) THEN caught' = NoEntry ELSE Excuse
        /\ UNCHANGED <<ret, state, current, ports, enabled, stepping, pending, catching,
                       inferiorVars, command, delivered, lost>>

\* resume tells the target of the stop it has queued, which throws as in
\* wait_on_signal.  The stop stays queued, and nothing has happened between its
\* queueing and this step.
NotifyThrows ==
    /\ Doing("wait") \/ Doing("waitpid")
    /\ queued # None /\ state = "stopped"
    /\ Throw(current)
    /\ UNCHANGED <<state, current, ports, enabled, stepping, pending, catching, expecting,
                   queued, inferiorVars, delivered, caught>>

\* Mutant: the signal is read without being exchanged for 0.
SendContinueKeepsSignal ==
    /\ Doing("send_continue") /\ state = "stopped"
    /\ Return
    /\ state' = "running"
    /\ delivered' = delivered \cup ({pending} \ {0})
    /\ UNCHANGED <<ret, current, ports, enabled, stepping, pending, catching, tracing,
                   expecting, queued, inferiorVars, command, caught, lost>>

\* send_continue delivers the signal that was held back.
SendContinue ==
    /\ Doing("send_continue") /\ state = "stopped"
    /\ Return
    /\ state' = "running"
    /\ pending' = 0
    /\ delivered' = delivered \cup ({pending} \ {0})
    /\ UNCHANGED <<ret, current, ports, enabled, stepping, catching, tracing, expecting,
                   queued, inferiorVars, command, caught, lost>>

\* PT_CONTINUE and waitpid throw when the process is gone: a step that resume
\* made has seen it exit.  The error unwinds to the prompt.
GoneThrows ==
    /\ Doing("send_continue") \/ Doing("waitpid")
    /\ state = "exited"
    /\ todo' = <<>>
    /\ ret' = Reason("error", current)
    /\ tracing' = FALSE
    /\ command' = Idle
    /\ UNCHANGED <<state, current, ports, enabled, stepping, pending, catching, expecting,
                   queued, inferiorVars, delivered, caught, lost>>

-----------------------------------------------------------------------------
(* step_instruction *)

\* Mutants: no other thread is suspended; the stepped thread is suspended too.
StepHolding(others) ==
    LET t == Head(todo).t
        site == {pc[t]} \cap enabled
    IN  /\ Doing("step")
        /\ current' = t
        /\ enabled' = enabled \ site
        /\ suspended' = [u \in Thread |-> suspended[u] + (IF u \in others THEN 1 ELSE 0)]
        /\ step_bit' = step_bit \cup {t}
        /\ stepping' = TRUE
        /\ state' = "running"
        /\ Perform(<<Call("wait"),
                     [op |-> "stepped", t |-> t, site |-> site, held |-> others]>>)
        /\ UNCHANGED <<ret, ports, pending, catching, tracing, expecting, queued,
                       live, pc, event, sent, command, delivered, caught, lost>>
StepHoldsNone == StepHolding({})
StepHoldsAll == StepHolding(ports)

\* Up to its wait: the site under the pc is disabled, every other known thread
\* is suspended, and the thread runs with the step bit and without a signal.
DoStep ==
    LET t == Head(todo).t
        site == {pc[t]} \cap enabled
        others == ports \ {t}
    IN  /\ Doing("step")
        /\ current' = t
        /\ enabled' = enabled \ site
        /\ suspended' = [u \in Thread |-> suspended[u] + (IF u \in others THEN 1 ELSE 0)]
        /\ step_bit' = step_bit \cup {t}
        /\ stepping' = TRUE
        /\ state' = "running"
        /\ Perform(<<Call("wait"),
                     [op |-> "stepped", t |-> t, site |-> site, held |-> others]>>)
        /\ UNCHANGED <<ret, ports, pending, catching, tracing, expecting, queued,
                       live, pc, event, sent, command, delivered, caught, lost>>

\* Mutant: every live thread is resumed, also those that were not suspended.
SteppedResumesAll ==
    LET task == Head(todo)
    IN  /\ Doing("stepped")
        /\ Return
        /\ stepping' = FALSE
        /\ step_bit' = IF state = "stopped" THEN step_bit \ {task.t} ELSE step_bit
        /\ suspended' = [u \in Thread |-> suspended[u] - (IF u \in live THEN 1 ELSE 0)]
        /\ enabled' = IF state = "stopped" THEN enabled \cup task.site ELSE enabled
        /\ UNCHANGED <<ret, state, current, ports, pending, catching, tracing, expecting,
                       queued, live, pc, event, sent, command, delivered, caught, lost>>

\* Mutant: the site goes back in only after a plain step.
SteppedForgetsSite ==
    LET task == Head(todo)
    IN  /\ Doing("stepped")
        /\ Return
        /\ stepping' = FALSE
        /\ step_bit' = IF state = "stopped" THEN step_bit \ {task.t} ELSE step_bit
        /\ suspended' = [u \in Thread |-> suspended[u] - (IF u \in task.held \cap live THEN 1 ELSE 0)]
        /\ enabled' = IF IsStep(ret) THEN enabled \cup task.site ELSE enabled
        /\ UNCHANGED <<ret, state, current, ports, pending, catching, tracing, expecting,
                       queued, live, pc, event, sent, command, delivered, caught, lost>>

\* After its wait: the thread loses the step bit, the others are resumed, and
\* the site goes back in if there is still a process.
DoStepped ==
    LET task == Head(todo)
    IN  /\ Doing("stepped")
        /\ Return
        /\ stepping' = FALSE
        /\ step_bit' = IF state = "stopped" THEN step_bit \ {task.t} ELSE step_bit
        /\ suspended' = [u \in Thread |-> suspended[u] - (IF u \in task.held \cap live THEN 1 ELSE 0)]
        /\ enabled' = IF state = "stopped" THEN enabled \cup task.site ELSE enabled
        /\ UNCHANGED <<ret, state, current, ports, pending, catching, tracing, expecting,
                       queued, live, pc, event, sent, command, delivered, caught, lost>>

-----------------------------------------------------------------------------
(* wait_on_signal *)

\* A queued stop is looked for once, before the loop.
DoWait ==
    /\ Doing("wait")
    /\ IF queued # None THEN Return /\ ret' = queued
                        ELSE Perform(<<Call("waitpid")>>) /\ UNCHANGED ret
    /\ queued' = None
    /\ UNCHANGED <<state, current, ports, enabled, stepping, pending, catching, tracing,
                   expecting, inferiorVars, command, delivered, caught, lost>>

WaitExit ==
    /\ Doing("waitpid") /\ event.kind = "exited"
    /\ state' = "exited"
    /\ event' = None
    /\ ret' = Reason("exited", current)
    /\ Return
    /\ UNCHANGED <<current, ports, enabled, stepping, pending, catching, tracing, expecting,
                   queued, live, pc, suspended, step_bit, sent, command, delivered, caught, lost>>

\* populate_existing_threads keeps the current thread if it is still there.
StillCurrent == IF current \in live THEN {current} ELSE live

\* Mutant: a stop that holds no signal to deliver is continued.
WaitSignalContinues ==
    /\ Doing("waitpid") /\ event.kind \in {"signal", "sigstop"}
    /\ state' = "stopped"
    /\ event' = None
    /\ ports' = live
    /\ current' \in StillCurrent
    /\ ret' = Reason(event.kind, current')
    /\ pending' = IF event.kind = "signal" THEN sent ELSE pending
    /\ IF event.kind = "signal" THEN Return
       ELSE Perform(<<Call("send_continue"), Call("waitpid")>>)
    /\ UNCHANGED <<enabled, stepping, catching, tracing, expecting, queued,
                   live, pc, suspended, step_bit, sent, command, delivered, caught, lost>>

\* A stop by a signal other than SIGTRAP; SIGSTOP is not delivered later.
WaitSignal ==
    /\ Doing("waitpid") /\ event.kind \in {"signal", "sigstop"}
    /\ state' = "stopped"
    /\ event' = None
    /\ ports' = live
    /\ current' \in StillCurrent
    /\ ret' = Reason(event.kind, current')
    /\ pending' = IF event.kind = "signal" THEN sent ELSE pending
    /\ Return
    /\ UNCHANGED <<enabled, stepping, catching, tracing, expecting, queued,
                   live, pc, suspended, step_bit, sent, command, delivered, caught, lost>>

\* A SIGTRAP stop is attributed to a thread that sits on an enabled site, if
\* there is one, whichever thread trapped.
Attributed ==
    LET atSite == {t \in live : pc[t] \in enabled}
    IN  IF atSite # {} THEN {Reason("software_break", t) : t \in atSite}
        ELSE {Reason(IF stepping THEN "single_step" ELSE "unknown", t) : t \in StillCurrent}

\* A hit handler that asks for it makes wait_on_signal resume and wait again.
WaitTrap ==
    /\ Doing("waitpid") /\ event.kind = "trap"
    /\ state' = "stopped"
    /\ event' = None
    /\ ports' = live
    /\ \E r \in Attributed :
         /\ current' = r.t
         /\ IF r.kind = "software_break" /\ pc[r.t] \in handled
            THEN Perform(<<Task("resume", r.t), Call("waitpid")>>) /\ UNCHANGED ret
            ELSE Return /\ ret' = r
    /\ UNCHANGED <<enabled, stepping, pending, catching, tracing, expecting, queued,
                   live, pc, suspended, step_bit, sent, command, delivered, caught, lost>>

\* A stop whose handling throws: the hit handler does, or notify_stop, which is
\* not called while system calls are traced.  Both reload the libraries first.
\* Nothing of step_instruction behind its wait is done.
WaitThrows ==
    /\ Doing("waitpid") /\ event.kind \in {"signal", "sigstop", "trap"}
    /\ state' = "stopped"
    /\ event' = None
    /\ ports' = live
    /\ \E r \in IF event.kind = "trap" THEN Attributed ELSE {Reason(event.kind, t) : t \in StillCurrent} :
         /\ ~tracing \/ (r.kind = "software_break" /\ pc[r.t] \in handled)
         /\ current' = r.t
         /\ Throw(r.t)
    /\ pending' = IF event.kind = "signal" THEN sent ELSE pending
    /\ UNCHANGED <<enabled, stepping, catching, expecting, queued,
                   live, pc, suspended, step_bit, sent, delivered, caught>>

\* The command prints its stop and the prompt is back.
Report ==
    /\ Doing("report")
    /\ Return
    /\ command' = Idle
    /\ UNCHANGED <<ret, state, current, ports, enabled, stepping, pending, catching, tracing,
                   expecting, queued, inferiorVars, delivered, caught, lost>>

-----------------------------------------------------------------------------
(* The inferior and its kernel. *)

Executing == state = "running" /\ event = None
Runnable(t) == Executing /\ t \in live /\ suspended[t] = 0

\* A thread reaches a trap: the process stops with the pc on it.
HitTrap(t) ==
    /\ Runnable(t)
    /\ pc[t] \in enabled
    /\ event' = Reason("trap", t)
    /\ UNCHANGED <<debuggerVars, live, pc, suspended, step_bit, sent, command, delivered, caught, lost>>

\* A thread executes an instruction, and stops the process if it is stepped.
Execute(t) ==
    /\ Runnable(t)
    /\ pc[t] \notin enabled
    /\ pc' = [pc EXCEPT ![t] = (pc[t] + 1) % Size]
    /\ event' = IF t \in step_bit THEN Reason("trap", t) ELSE None
    /\ Leaves(t)
    /\ UNCHANGED <<debuggerVars, live, suspended, step_bit, sent, command, delivered, lost>>

EndThread(t) ==
    /\ Runnable(t)
    /\ pc[t] \in ThreadEnd \ enabled /\ live # {t}
    /\ live' = live \ {t}
    /\ step_bit' = step_bit \ {t}
    /\ Leaves(t)
    /\ UNCHANGED <<debuggerVars, pc, suspended, event, sent, command, delivered, lost>>

EndProcess(t) ==
    /\ Runnable(t)
    /\ \/ pc[t] \in ProcessEnd \ enabled
       \/ pc[t] \in ThreadEnd \ enabled /\ live = {t}
    /\ event' = Reason("exited", t)
    /\ UNCHANGED <<debuggerVars, live, pc, suspended, step_bit, sent, command, delivered, caught, lost>>

\* Thread ids are not used again while the debugger knows them.
StartThread(t) ==
    /\ Executing
    /\ t \notin live \cup ports
    /\ live' = live \cup {t}
    /\ pc' = [pc EXCEPT ![t] = 0]
    /\ suspended' = [suspended EXCEPT ![t] = 0]
    /\ UNCHANGED <<debuggerVars, step_bit, event, sent, command, delivered, caught, lost>>

\* A signal for the process, whatever its threads are doing.
Signal ==
    /\ Executing /\ sent < MaxSignals
    /\ sent' = sent + 1
    /\ event' = Reason("signal", NoThread)
    /\ UNCHANGED <<debuggerVars, live, pc, suspended, step_bit, command, delivered, caught, lost>>

\* handle_sigint
Interrupt ==
    /\ Executing
    /\ event' = Reason("sigstop", NoThread)
    /\ UNCHANGED <<debuggerVars, live, pc, suspended, step_bit, sent, command, delivered, caught, lost>>

-----------------------------------------------------------------------------
\* One thread, stopped after launch or attach.
Init ==
    /\ todo = <<>> /\ ret = None
    /\ state = "stopped"
    /\ \E t \in Thread : live = {t} /\ current = t
    /\ ports = live
    /\ enabled = Sites /\ handled \in Handlers
    /\ stepping = FALSE /\ pending = 0
    /\ catching = FALSE /\ tracing = FALSE /\ expecting = FALSE /\ queued = None
    /\ pc = [t \in Thread |-> 0]
    /\ suspended = [t \in Thread |-> 0]
    /\ step_bit = {} /\ event = None
    /\ command = Idle
    /\ sent = 0 /\ delivered = {}
    /\ caught = NoEntry /\ lost = NothingLost

Debugger ==
    \/ DoResume \/ DoTrace \/ DoTraced \/ SendContinue \/ GoneThrows
    \/ DoStep \/ DoStepped \/ DoWait \/ WaitExit \/ WaitSignal \/ WaitTrap \/ Report

User == Continue \/ StepI \/ SetCatchPolicy \/ \E t \in Thread : SelectThread(t)

Run(t) == HitTrap(t) \/ Execute(t) \/ EndThread(t) \/ EndProcess(t)

Next ==
    /\ \/ User \/ Debugger
       \/ \E t \in Thread : Run(t) \/ StartThread(t)
       \/ Signal \/ Interrupt \/ WaitThrows \/ NotifyThrows
    /\ UNCHANGED handled

\* The debugger never pauses except in waitpid, and the kernel schedules every
\* thread that can run.
Fairness ==
    /\ WF_vars(Debugger /\ UNCHANGED handled)
    /\ \A t \in Thread : WF_vars(Run(t) /\ UNCHANGED handled)

Spec == Init /\ [][Next]_vars /\ Fairness

-----------------------------------------------------------------------------
Ops == {"resume", "trace", "traced", "send_continue", "step", "stepped", "wait",
        "waitpid", "report"}
TaskType == [op : Ops, t : Thread \cup {NoThread}, site : SUBSET Sites, held : SUBSET Thread]
ReasonType == [kind : Kinds \cup {"trap"}, t : Thread \cup {NoThread}]
EntryType == [t : Thread \cup {NoThread}, excused : BOOLEAN]

\* Every variable holds a value of its kind; the suspend counts of the threads
\* never go below zero.
TypeOK ==
    /\ todo \in Seq(TaskType)
    /\ ret \in ReasonType /\ queued \in ReasonType /\ event \in ReasonType
    /\ state \in {"stopped", "running", "exited"}
    /\ current \in Thread
    /\ ports \subseteq Thread /\ live \subseteq Thread
    /\ enabled \subseteq Sites
    /\ {stepping, catching, tracing, expecting} \subseteq BOOLEAN
    /\ pending \in 0 .. MaxSignals /\ sent \in 0 .. MaxSignals
    /\ delivered \subseteq 1 .. MaxSignals
    /\ pc \in [Thread -> Addr]
    /\ suspended \in [Thread -> Nat]
    /\ step_bit \subseteq Thread
    /\ command \in [op : {"none", "continue", "stepi"}, t : Thread \cup {NoThread}, from : Addr]
    /\ caught \in EntryType
    /\ lost.throws \in 0 .. MaxThrows
    /\ lost.steps \subseteq [throw : Nat, behind : Nat, step : TaskType]

\* The steps a throw cut off that hold thread t.
LostHolding(t) == {c \in lost.steps : t \in c.step.held}

\* When a command is over and the process has stopped, whatever was nested in
\* resume, step_instruction and wait_on_signal, nothing of it is left: every
\* site is in again, no thread is suspended or single-stepped, no flag is set,
\* and the thread table is that of the inferior, with a live current thread.
\* After a stop whose handling threw, exactly what the steps it cut off had done
\* is left, at that prompt and at every later one: their sites are out, each
\* thread is suspended as often as they held it, and only their threads can
\* still have the step bit.
CleanPrompt ==
    Prompt /\ state = "stopped" =>
        /\ enabled = Sites \ UNION {c.step.site : c \in lost.steps}
        /\ \A t \in live : suspended[t] = Cardinality(LostHolding(t))
        /\ step_bit \subseteq {c.step.t : c \in lost.steps}
        /\ stepping => lost.steps # {}
        /\ ~tracing
        /\ queued # None => lost.throws > 0
        /\ ports = live /\ current \in live

\* A thread the debugger knows leaves the address of an enabled breakpoint only
\* by a single step: while step_instruction has the site out, no other known
\* thread can run past it.  (A handler that resumes inside such a step lets the
\* process run with the site out, and so does a step that a throw cut off.)
NoMissedBreakpoint ==
    [][\A t \in ports \cap live :
          handled = {} /\ lost = NothingLost /\ pc'[t] # pc[t] /\ pc[t] \in Sites => t \in step_bit]_vars

\* A signal that stopped the inferior is handed back to it at most once, over
\* any mix of steps (which hand over none) and continues.
SignalOnce == pending = 0 \/ pending \notin delivered

\* The traced thread executes an svc that the policy selects.
ExecutesSvc(t) ==
    handled = {} /\ lost = NothingLost /\ tracing /\ t \in step_bit /\ pc'[t] # pc[t] /\ pc[t] \in Svc \ Sites

\* Under a catch policy, the traced thread executes no selected svc before the
\* entry of this very call was queued, for this thread and since it got there.
\* The exceptions: the user has stepped by instruction, selected a thread or
\* changed the policy since an entry whose exit was not queued, or the step of
\* that svc ended in another stop, so that expecting_syscall_exit_ is stale; a
\* trap hides the svc from the loop; a handler continues the process inside it,
\* or the handling of a stop has thrown.
CaughtBeforeExecuted == [][\A t \in Thread : ExecutesSvc(t) => caught.t = t \/ caught.excused]_vars

\* A stepi ends or gets into a hit handler that resumes, unless its instruction
\* ends the stepped thread, or a step that a throw cut off left it suspended.
StepReturns ==
    (todo = <<Task("step", command.t), Call("report")>> /\ command.from \notin ThreadEnd /\ LostHolding(command.t) = {})
        ~> (Prompt \/ Doing("resume"))

\* waitpid is called for a process that is stopped and stays so: a hit handler
\* has resumed under a catch policy, which queued a stop in place of a continue.
WaitsForStopped == Doing("waitpid") /\ state = "stopped" /\ queued # None /\ handled # {} /\ catching

\* A user who keeps pressing Ctrl-C while a command runs gets the prompt back
\* from every command, but for the wait for a stopped process: a SIGSTOP gives
\* no event there.  One that comes in the step over the site of a hit handler is
\* used up by that step, so some have to come while no step is waited for.
InterruptReturns ==
    SF_vars(Interrupt /\ UNCHANGED handled) /\ SF_vars(Interrupt /\ ~stepping /\ UNCHANGED handled)
        => []<>(Prompt \/ WaitsForStopped)

-----------------------------------------------------------------------------
(* What the repository's tests say of run control. *)

\* "worker stepping failed" (test/tests.cpp:64): after step_instruction() the
\* current thread is still the one that was stepped.
StepKeepsThread ==
    [][Doing("report") /\ command.op = "stepi" /\ ret.kind # "exited" /\ command.t \in live
          => current = command.t]_vars

\* "process did not exit" (test/tests.cpp:57): resume() and wait_on_signal()
\* report the exit of the process.
ExitReported == Prompt /\ state = "exited" => ret.kind = "exited"
=============================================================================
