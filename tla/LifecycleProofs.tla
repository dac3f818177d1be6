--------------------------- MODULE LifecycleProofs --------------------------
(***************************************************************************)
(* Proofs about Lifecycle: for every kind of session, whatever fails and   *)
(* whenever the inferior is killed.                                        *)
(***************************************************************************)
EXTENDS Lifecycle, TLAPS

\* The inferior before its exec, or after one that failed.
Early == {"setup", "traceme", "exec_failed", "written"}
\* The places of launch before it knows how the exec went.
Launching == {"close_write", "read", "reap_failed"}

\* Which ends of the pipe are open, by where the two processes are.
PipeInv ==
    /\ <<"child", "write">> \in fds <=> child \in Early
    /\ <<"child", "read">> \in fds => child = "setup"
    /\ <<"debugger", "write">> \in fds <=> at = "close_write"
    /\ <<"debugger", "read">> \in fds => at \in Launching \cup {"initial_stop", "construct"}

\* An errno is in the pipe, was read, or was told.
ErrnoInv ==
    /\ errno => child \in {"written", "zombie", "reaped"}
    /\ child = "written" => errno
    /\ buffer = 4 <=> errno /\ at \in {"close_write", "read"}
    /\ errno => at \in Launching \/ (at = "over" /\ outcome = "exec failed")
    /\ at = "reap_failed" => errno
    /\ outcome = "exec failed" => errno

\* What the debugger may assume of the inferior where it is.
ChildInv ==
    /\ at \in Launching \/ child \in Early => mode # "attach"
    /\ child \in Early => at \in Launching
    /\ child = "none" => at \in {"start", "over"} /\ mode # "attach"
    /\ at = "start" => IF mode = "attach" THEN child \in {"running", "zombie"} /\ ~traced
                                          ELSE child = "none"
    /\ state = "exited" => child = "reaped"
    /\ child = "reaped" => \/ at = "over"
                           \/ at = "construct" /\ mode = "attach"
                           \/ at \in {"prompt", "destroy"} /\ state = "exited"

\* The inferior when the session is over.
EndInv ==
    at = "over" =>
        IF TerminateOnEnd THEN child \in {"none", "reaped"}
        ELSE child # "stopped" /\ (child = "running" => ~traced)

LifecycleInv == TypeOK /\ PipeInv /\ ErrnoInv /\ ChildInv /\ EndInv

\* The read returns nothing only when the inferior cannot write any more.
LEMMA ReadNothing ==
    ASSUME ReadPipe, buffer \in {0, 4}, buffer # 4
    PROVE  at' = (IF Debug THEN "initial_stop" ELSE "construct") /\ <<"child", "write">> \notin fds
<1>1. ~(buffer > 0)
  OBVIOUS
<1> QED
  BY <1>1, Zenon DEF ReadPipe, NoWriter, Tell

\* No step of the debugger, of the inferior or of who kills it breaks the invariant.
LEMMA LifecycleStep ==
    ASSUME LifecycleInv, [Next]_vars
    PROVE  LifecycleInv'
<1> USE LifecycleAssumption
    DEF LifecycleInv, TypeOK, PipeInv, ErrnoInv, ChildInv, EndInv, Early, Launching, Alive,
        TerminateOnEnd, Tell, Child, Debugger, ChildFds
<1>1. CASE Fork
  BY <1>1 DEF Fork, Fail
<1>2. CASE CloseWrite
  BY <1>2 DEF CloseWrite
<1>3. CASE ReadPipe
  <2>1. /\ at = "read" /\ buffer' = 0
        /\ UNCHANGED <<mode, state, outcome, fds, child, traced, errno>>
    BY <1>3 DEF ReadPipe
  <2>2. CASE buffer = 4
    <3>1. at' = "reap_failed"
      BY <1>3, <2>2 DEF ReadPipe
    <3> QED
      BY <2>1, <2>2, <3>1
  <2>3. CASE buffer # 4
    <3>1. at' = (IF Debug THEN "initial_stop" ELSE "construct") /\ <<"child", "write">> \notin fds
      BY <1>3, <2>3, ReadNothing
    <3>2. child \in {"stopped", "running", "zombie"} /\ ~errno
      BY <2>1, <2>3, <3>1
    <3> QED
      BY <2>1, <2>3, <3>1, <3>2
  <2> QED
    BY <2>2, <2>3
<1>4. CASE ReapFailed
  BY <1>4 DEF ReapFailed, Fail, ClosePipe
<1>5. CASE InitialStop
  BY <1>5 DEF InitialStop, Fail, ClosePipe
<1>6. CASE Attach
  <2>1. CASE Fail("ptrace")
    <3>1. /\ mode = "attach" /\ at = "start" /\ at' = "over" /\ outcome' = "ptrace"
          /\ child' = child /\ traced' = traced
          /\ UNCHANGED <<mode, state, fds, buffer, errno>>
      BY <1>6, <2>1, Zenon DEF Attach, Fail
    <3> QED
      BY <3>1
  <2>2. CASE ~Fail("ptrace")
    <3>1. /\ mode = "attach" /\ at = "start" /\ child = "running"
          /\ at' = "initial_stop" /\ child' = "stopped" /\ traced' \in BOOLEAN
          /\ UNCHANGED <<mode, state, outcome, fds, buffer, errno>>
      BY <1>6, <2>2, Zenon DEF Attach
    <3> QED
      BY <3>1
  <2> QED
    BY <2>1, <2>2
<1>7. CASE Construct
  BY <1>7 DEF Construct, ClosePipe
<1>8. CASE ConstructFails
  BY <1>8 DEF ConstructFails, ClosePipe, Fail, Released, Debug
<1>9. CASE Load
  BY <1>9 DEF Load, Debug
<1>10. CASE ResumeToEntry
  BY <1>10 DEF ResumeToEntry, Resume
<1>11. CASE WaitEntry
  BY <1>11 DEF WaitEntry, Wait
<1>12. CASE WaitStop
  BY <1>12 DEF WaitStop, Wait
<1>13. CASE Destroy
  BY <1>13 DEF Destroy, TerminateOnEnd, Released
<1>14. CASE Kill
  BY <1>14 DEF Kill
<1>15. CASE Reap
  BY <1>15 DEF Reap, Fail
<1>16. CASE Continue
  BY <1>16 DEF Continue, Resume, Debug
<1>17. CASE Quit
  BY <1>17 DEF Quit
<1>18. CASE Setup
  BY <1>18 DEF Setup, Dies, Debug
<1>19. CASE Exec
  BY <1>19 DEF Exec, Debug
<1>20. CASE WriteErrno
  BY <1>20 DEF WriteErrno
<1>21. CASE ExitFailed
  BY <1>21 DEF ExitFailed, Dies
<1>22. CASE Runs
  BY <1>22 DEF Runs, Dies
<1>23. CASE Killed
  BY <1>23 DEF Killed, Dies
<1>24. CASE UNCHANGED vars
  BY <1>24 DEF vars
<1> QED
  BY <1>1, <1>2, <1>3, <1>4, <1>5, <1>6, <1>7, <1>8, <1>9, <1>10, <1>11, <1>12, <1>13, <1>14, <1>15, <1>16, <1>17, <1>18, <1>19, <1>20, <1>21, <1>22, <1>23, <1>24
  DEF Next, Debugs, User, Inferior

\* The invariant holds in every reachable state.
LEMMA LifecycleInvHolds == Spec => []LifecycleInv
<1>1. Init => LifecycleInv
  <2> SUFFICES ASSUME Init
               PROVE  LifecycleInv
    OBVIOUS
  <2>1. /\ mode \in Modes /\ at = "start" /\ state = "stopped" /\ outcome = "none" /\ fds = {}
        /\ child = (IF mode = "attach" THEN "running" ELSE "none")
        /\ traced \in BOOLEAN /\ ~traced /\ errno \in BOOLEAN /\ ~errno
    BY Zenon DEF Init
  <2>2. buffer \in {0, 4} /\ buffer # 4
    BY DEF Init
  <2> QED
    BY <2>1, <2>2, LifecycleAssumption
    DEF LifecycleInv, TypeOK, PipeInv, ErrnoInv, ChildInv, EndInv, Early, Launching, Alive
<1> QED
  BY <1>1, LifecycleStep, PTL DEF Spec

\* Every session is well typed, and the debugger never waits for a process that
\* it has reaped or never had: wait_child and wait_on_signal cannot fail with
\* ECHILD, however the inferior ends.
THEOREM SessionTyped == Spec => []TypeOK
<1>1. LifecycleInv => TypeOK
  BY DEF LifecycleInv
<1> QED
  BY <1>1, LifecycleInvHolds, PTL

\* However a session ends, launch and ~process leave no process behind that they
\* started, no process stopped or traced that they attached to, and no end of
\* the pipe open.
THEOREM SessionEndsClean == Spec => []CleanEnd
<1>1. LifecycleInv => CleanEnd
  <2> SUFFICES ASSUME LifecycleInv, at = "over"
               PROVE  CleanEnd
    BY DEF CleanEnd
  <2>1. child \notin Early
    BY DEF LifecycleInv, EndInv, ChildInv, Early, Launching, TerminateOnEnd
  <2>2. /\ <<"child", "read">> \notin fds /\ <<"child", "write">> \notin fds
        /\ <<"debugger", "read">> \notin fds /\ <<"debugger", "write">> \notin fds
    BY <2>1 DEF LifecycleInv, PipeInv, Early, Launching
  <2>3. fds = {}
    BY <2>2 DEF LifecycleInv, TypeOK
  <2> QED
    BY <2>3 DEF LifecycleInv, EndInv, CleanEnd
<1> QED
  BY <1>1, LifecycleInvHolds, PTL

\* The errno that a failed execvp leaves in the pipe is what launch reports, and
\* launch reports a failed exec only when there was one.
THEOREM ExecErrorReported == Spec => []ExecErrorTold
<1>1. LifecycleInv => ExecErrorTold
  BY DEF LifecycleInv, ErrnoInv, ExecErrorTold, Launching
<1> QED
  BY <1>1, LifecycleInvHolds, PTL
=============================================================================
