------------------------------ MODULE Lifecycle -----------------------------
(***************************************************************************)
(* How a debug session begins and ends: process::launch with its fork, the *)
(* pipe that carries the errno of a failed exec, and the wait for the      *)
(* initial stop; process::attach; the construction of the process and the  *)
(* target, which may throw; the run to the entry point; and ~process.      *)
(*                                                                         *)
(* The debugger and the inferior are two processes.  Anyone may kill the   *)
(* inferior at any moment.  at is the place in the debugger's code.        *)
(***************************************************************************)
EXTENDS Naturals, FiniteSets

CONSTANT Modes   \* subset of "launch" (debug), "run" (launch without) and "attach"

ASSUME LifecycleAssumption == Modes \subseteq {"launch", "run", "attach"}

VARIABLES
    mode,     \* how the session begins
    at,       \* where the debugger is
    state,    \* state_
    outcome,  \* what the user is told
    fds,      \* open pipe ends: <<process, end>>
    buffer,   \* bytes in the pipe
    child,    \* the inferior
    traced,   \* the inferior is traced by the debugger
    errno     \* history: the exec failed and its errno was written

vars == <<mode, at, state, outcome, fds, buffer, child, traced, errno>>

Debug == mode # "run"
TerminateOnEnd == mode # "attach"
Alive == {"setup", "traceme", "exec_failed", "written", "stopped", "running"}

-----------------------------------------------------------------------------
(* The debugger. *)

\* The debugger is left with an error; at = "over" is also the end after quit.
Fail(why) == at' = "over" /\ outcome' = why
\* The pipe of launch is destroyed on every way out.
ClosePipe == fds' = fds \ ({"debugger"} \X {"read", "write"})
Tell(where) == at' = where /\ UNCHANGED outcome
Child == <<child, traced>>

Fork ==
    /\ at = "start" /\ mode # "attach"
    /\ \/ Fail("fork failed") /\ UNCHANGED <<fds, child>>
       \/ /\ Tell("close_write") /\ child' = "setup"
          /\ fds' = {"debugger", "child"} \X {"read", "write"}
    /\ UNCHANGED <<mode, state, buffer, traced, errno>>

CloseWrite ==
    /\ at = "close_write" /\ Tell("read")
    /\ fds' = fds \ {<<"debugger", "write">>}
    /\ UNCHANGED <<mode, state, buffer, Child, errno>>

NoWriter == \A p \in {"debugger", "child"} : <<p, "write">> \notin fds

\* Mutant: the read does not block.
ReadPipe_polls ==
    /\ at = "read"
    /\ Tell(IF buffer > 0 THEN "reap_failed" ELSE IF Debug THEN "initial_stop" ELSE "construct")
    /\ buffer' = 0
    /\ UNCHANGED <<mode, state, fds, Child, errno>>

\* read() returns the errno, or nothing once no one can write any more.
ReadPipe ==
    /\ at = "read" /\ (buffer > 0 \/ NoWriter)
    /\ Tell(IF buffer > 0 THEN "reap_failed" ELSE IF Debug THEN "initial_stop" ELSE "construct")
    /\ buffer' = 0
    /\ UNCHANGED <<mode, state, fds, Child, errno>>

ReapFailed ==
    /\ at = "reap_failed" /\ child = "zombie"
    /\ child' = "reaped" /\ Fail("exec failed") /\ ClosePipe
    /\ UNCHANGED <<mode, state, buffer, traced, errno>>

\* Mutant: an exit before the initial stop is cleaned up like a failed construction.
InitialStop_reaps_twice ==
    /\ at = "initial_stop"
    /\ \/ child = "stopped" /\ Tell("construct") /\ UNCHANGED child
       \/ child = "zombie" /\ child' = "reaped" /\ Tell("kill")
    /\ UNCHANGED <<mode, state, fds, buffer, traced, errno>>

\* wait_child until the initial stop; an exit before it is an error.
InitialStop ==
    /\ at = "initial_stop"
    /\ \/ /\ child = "stopped"
          /\ Tell("construct") /\ UNCHANGED <<child, fds>>
       \/ /\ child = "zombie" /\ mode = "launch"
          /\ child' = "reaped" /\ Fail("exited before its initial stop") /\ ClosePipe
       \* attach does not look at the status; the process is not its child.
       \/ /\ child = "zombie" /\ mode = "attach"
          /\ child' = "reaped" /\ Tell("construct") /\ UNCHANGED fds
    /\ UNCHANGED <<mode, state, buffer, traced, errno>>

\* PT_ATTACH stops the process.
Attach ==
    /\ at = "start" /\ mode = "attach"
    /\ \/ Fail("ptrace") /\ UNCHANGED Child
       \/ child = "running" /\ Tell("initial_stop") /\ child' = "stopped" /\ traced' = TRUE
    /\ UNCHANGED <<mode, state, fds, buffer, errno>>

\* process::process: task_for_pid and the thread list, only under a debugger.
Construct ==
    /\ at = "construct"
    /\ child # "reaped" /\ Tell("loaded") /\ UNCHANGED Child
    /\ ClosePipe
    /\ UNCHANGED <<mode, state, buffer, errno>>

Released == IF child = "stopped" THEN "running" ELSE child

ConstructFails ==
    /\ at = "construct" /\ Debug
    /\ IF mode = "launch" THEN Tell("kill") /\ UNCHANGED Child
       ELSE Fail("task_for_pid") /\ child' = Released /\ traced' = FALSE   \* PT_DETACH
    /\ ClosePipe
    /\ UNCHANGED <<mode, state, buffer, errno>>

\* Parsing the image; without a debugger there is nothing more to do.  A throw
\* destroys the process object.
Load ==
    /\ at = "loaded"
    /\ \/ Debug /\ mode = "launch" /\ Tell("resume_to_entry") /\ UNCHANGED Child
       \/ mode # "launch" /\ Tell("prompt") /\ UNCHANGED Child
       \/ Debug /\ Tell("destroy") /\ UNCHANGED Child
    /\ UNCHANGED <<mode, state, fds, buffer, errno>>

\* resume(): PT_CONTINUE fails if the process is gone.
Resume(from, ok, thrown) ==
    /\ at = from
    /\ IF child = "stopped" THEN Tell(ok) /\ child' = "running" /\ state' = "running"
       ELSE Tell(thrown) /\ UNCHANGED <<child, state>>
    /\ UNCHANGED <<mode, fds, buffer, traced, errno>>

\* wait_on_signal().
Wait(from, stopped, gone) ==
    /\ at = from
    /\ \/ /\ child = "stopped"
          /\ Tell(stopped) /\ state' = "stopped" /\ UNCHANGED child
       \/ /\ child = "zombie"
          /\ Tell(gone) /\ state' = "exited" /\ child' = "reaped"
    /\ UNCHANGED <<mode, fds, buffer, traced, errno>>

ResumeToEntry == Resume("resume_to_entry", "entry", "destroy")
\* An exit before the entry point throws when the entry site is removed.
WaitEntry == Wait("entry", "prompt", "destroy")
Continue == at = "prompt" /\ Debug /\ state = "stopped" /\ Resume("prompt", "waiting", "prompt")
WaitStop == Wait("waiting", "prompt", "prompt")
Quit ==
    /\ at = "prompt" /\ at' = "destroy" /\ outcome' = "quit"
    /\ UNCHANGED <<mode, state, fds, buffer, Child, errno>>

\* Mutant: a process that is not traced is not killed.
Destroy_leaves ==
    /\ at = "destroy"
    /\ \/ /\ state # "exited" /\ TerminateOnEnd /\ Debug
          /\ Tell("kill") /\ UNCHANGED Child
       \/ /\ state = "exited" \/ ~TerminateOnEnd \/ ~Debug
          /\ at' = "over" /\ UNCHANGED <<outcome, Child>>
    /\ UNCHANGED <<mode, state, fds, buffer, errno>>

\* ~process
Destroy ==
    /\ at = "destroy"
    /\ \/ /\ state # "exited" /\ TerminateOnEnd
          /\ Tell("kill") /\ UNCHANGED Child
       \/ /\ state # "exited" /\ ~TerminateOnEnd
          /\ at' = "over" /\ UNCHANGED outcome
          /\ child' = Released /\ traced' = FALSE
       \/ /\ state = "exited"
          /\ at' = "over" /\ UNCHANGED <<outcome, Child>>
    /\ UNCHANGED <<mode, state, fds, buffer, errno>>

\* PT_KILL and PT_CONTINUE on a stopped process, SIGKILL on one not traced.
Kill ==
    /\ at = "kill" /\ child # "zombie"
    /\ child' = "zombie" /\ fds' = fds \ ({"child"} \X {"read", "write"})
    /\ UNCHANGED <<mode, at, state, outcome, buffer, traced, errno>>

Reap ==
    /\ at = "kill" /\ child = "zombie"
    /\ child' = "reaped" /\ Fail(IF outcome = "none" THEN "launch failed" ELSE outcome)
    /\ UNCHANGED <<mode, state, fds, buffer, traced, errno>>

-----------------------------------------------------------------------------
(* The inferior. *)

ChildFds == {"child"} \X {"read", "write"}
Dies == child' = "zombie" /\ fds' = fds \ ChildFds
Debugger == <<mode, at, state, outcome>>

\* dup2 or PT_TRACE_ME fails: _exit(126).
Setup ==
    /\ child = "setup"
    /\ \/ Dies /\ UNCHANGED traced
       \/ child' = "traceme" /\ traced' = Debug /\ fds' = fds \ {<<"child", "read">>}
    /\ UNCHANGED <<Debugger, buffer, errno>>

\* Mutant: the pipe survives the exec.
Exec_keeps_fds ==
    /\ child = "traceme"
    /\ \/ child' = (IF Debug THEN "stopped" ELSE "running") /\ UNCHANGED fds
       \/ child' = "exec_failed" /\ UNCHANGED fds
    /\ UNCHANGED <<Debugger, buffer, traced, errno>>

\* execvp: close-on-exec closes the pipe and a traced process stops.
Exec ==
    /\ child = "traceme"
    /\ \/ child' = (IF Debug THEN "stopped" ELSE "running") /\ fds' = fds \ ChildFds
       \/ child' = "exec_failed" /\ UNCHANGED fds
    /\ UNCHANGED <<Debugger, buffer, traced, errno>>

WriteErrno ==
    /\ child = "exec_failed"
    /\ child' = "written" /\ buffer' = 4 /\ errno' = TRUE
    /\ UNCHANGED <<Debugger, fds, traced>>

ExitFailed ==
    /\ child = "written" /\ Dies
    /\ UNCHANGED <<Debugger, buffer, traced, errno>>

\* The program stops (at a trap, the entry site the first) or ends.
Runs ==
    /\ child = "running"
    /\ \/ traced /\ child' = "stopped" /\ UNCHANGED fds
       \/ Dies
    /\ UNCHANGED <<Debugger, buffer, traced, errno>>

Killed ==
    /\ child \in Alive /\ Dies
    /\ UNCHANGED <<Debugger, buffer, traced, errno>>

-----------------------------------------------------------------------------
Init ==
    /\ mode \in Modes
    /\ at = "start" /\ state = "stopped" /\ outcome = "none"
    /\ fds = {} /\ buffer = 0
    /\ child = (IF mode = "attach" THEN "running" ELSE "none")
    /\ traced = FALSE /\ errno = FALSE

Debugs ==
    \/ Fork \/ CloseWrite \/ ReadPipe \/ ReapFailed \/ Attach \/ InitialStop
    \/ Construct \/ ConstructFails \/ Load \/ ResumeToEntry \/ WaitEntry \/ WaitStop
    \/ Destroy \/ Kill \/ Reap

User == Continue \/ Quit
Inferior == Setup \/ Exec \/ WriteErrno \/ ExitFailed \/ Runs

Next == Debugs \/ User \/ Inferior \/ Killed

\* The kernel runs both processes.
Spec == Init /\ [][Next]_vars /\ WF_vars(Debugs) /\ WF_vars(Inferior)

-----------------------------------------------------------------------------
TypeOK ==
    /\ mode \in Modes
    /\ at \in {"start", "close_write", "read", "reap_failed", "initial_stop", "construct", "loaded",
               "resume_to_entry", "entry", "prompt", "waiting", "destroy", "kill", "over"}
    /\ state \in {"stopped", "running", "exited"}
    /\ fds \subseteq {"debugger", "child"} \X {"read", "write"}
    /\ buffer \in {0, 4}
    /\ child \in Alive \cup {"none", "zombie", "reaped"}
    /\ traced \in BOOLEAN /\ errno \in BOOLEAN
    \* the debugger never waits for a process that is gone already
    /\ at \in {"reap_failed", "entry", "waiting", "kill"} => child \notin {"none", "reaped"}

\* When the session is over, whatever threw and whoever killed the inferior, a
\* launched process is gone and reaped, an attached one is neither traced nor
\* left stopped, and the debugger holds no end of the pipe.
CleanEnd ==
    at = "over" =>
        /\ IF TerminateOnEnd THEN child \in {"none", "reaped"} ELSE child # "stopped" /\ (child = "running" => ~traced)
        /\ fds = {}

\* A written errno is never lost: a launch whose exec failed ends with that
\* error and no other, and no other launch ends with it.
ExecErrorTold ==
    /\ errno => at \in {"close_write", "read", "reap_failed"} \/ outcome = "exec failed"
    /\ outcome = "exec failed" => errno

\* Every launch and attach comes to an end, with a prompt or an error: the
\* debugger does not wait for a pipe nobody writes to or closes.
LaunchEnds == at = "start" ~> at \in {"prompt", "over"}
=============================================================================
