---------------------------- MODULE SteppingProofs --------------------------
(***************************************************************************)
(* Proofs about Stepping: for every program, line table and set of inlined *)
(* calls, whether or not they describe the program.  Nothing is assumed of *)
(* where an instruction leads or of the addresses commands run to, except  *)
(* in SteppingTyped and NextKeepsOut, which name what they assume.         *)
(***************************************************************************)
EXTENDS Stepping, FiniteSetTheorems, WellFoundedInduction, TLAPS

State == {"none", "disabled", "enabled"}

AsCommand(c) ==
    [op |-> c.op, start |-> c.start, from |-> c.from, orig |-> c.orig, target |-> c.target, own |-> c.own,
     was |-> c.was, frames |-> c.frames, ran |-> c.ran, stale |-> c.stale]

\* A command as the debugger makes them: a record whose start is a pair.
IsCommand(c) ==
    /\ c = AsCommand(c)
    /\ c.start = <<c.start[1], c.start[2]>>

CommandInv ==
    /\ IsCommand(cmd)
    /\ cmd.own \in BOOLEAN
    /\ phase = "stepping" => cmd.op \in {"step", "next"}
    /\ phase \in {"resume", "running"} /\ cmd.op \in {"next", "finish"} => cmd.target \in cmd.ran
    /\ phase \in {"resume", "running"} /\ cmd.op = "call" => cmd.target = Main

\* The sites the user set, and those that exceptions have left.
Kept == [a \in Address |-> IF a \in left THEN "enabled" ELSE user[a]]

\* The sites differ from those at most at the target of a run that is not over,
\* and how they were there is known.
SitesInv ==
    /\ sites \in [Address -> State] /\ user \in [Address -> State]
    /\ phase \in {"prompt", "stepping"} => sites = Kept
    /\ phase \in {"resume", "running"} =>
         /\ \A a \in Address : a # cmd.target => sites[a] = Kept[a]
         /\ cmd.target \in Address =>
              IF cmd.own THEN Kept[cmd.target] = "none" /\ sites[cmd.target] = "enabled"
              ELSE IF cmd.op = "call" THEN Kept[cmd.target] = cmd.was /\ sites[cmd.target] = "enabled"
              ELSE sites[cmd.target] = Kept[cmd.target]
    /\ phase = "failed" => \A a \in Address \ left : sites[a] = user[a]

\* Where the debugger makes the inferior leave an enabled breakpoint, the
\* command let it go there or ran to it.
LeaveInv ==
    phase \in {"stepping", "resume"} /\ pc \in Address /\ user[pc] = "enabled" =>
        <<pc, calls>> = cmd.from \/ pc \in cmd.ran

\* The inferior is in its code until it has exited, and a call starts there.
InferiorInv ==
    phase # "exited" =>
        /\ pc \in Address /\ calls \in Seq(Address)
        /\ cmd.op = "call" => cmd.start[1] \in Address /\ cmd.start[2] \in Seq(Address)

SteppingInv == CommandInv /\ SitesInv /\ LeaveInv /\ CallTransparent

-----------------------------------------------------------------------------
USE DEF AsCommand

\* What Kept depends on.
LEMMA KeptSame ==
    ASSUME UNCHANGED <<user, left>>
    PROVE  Kept' = Kept
  BY DEF Kept

LEMMA KeptTyped ==
    ASSUME user \in [Address -> State]
    PROVE  /\ Kept \in [Address -> State]
           /\ \A a \in Address : Kept[a] # "enabled" => a \notin left /\ user[a] = Kept[a]
  BY DEF Kept, State

\* A new command.
LEMMA CommandFields ==
    ASSUME NEW op, NEW c, c = Command(op)
    PROVE  IsCommand(c) /\ c.op = op /\ c.start = <<pc, calls>> /\ c.from = <<pc, calls>> /\ c.own = FALSE
<1>1. PICK n : n = NoCommand
  OBVIOUS
<1>2. c = [n EXCEPT !.op = op, !.start = <<pc, calls>>, !.from = <<pc, calls>>,
                    !.orig = line_entry(pc), !.stale = stale]
  BY <1>1 DEF Command
<1>3. n = AsCommand(n) /\ n.own = FALSE
  BY <1>1 DEF NoCommand
<1>4. c.op = op /\ c.start = <<pc, calls>> /\ c.from = <<pc, calls>> /\ c.own = FALSE
  BY <1>2, <1>3
<1>5. c = AsCommand(c)
  BY <1>2, <1>3
<1> QED
  BY <1>4, <1>5 DEF IsCommand

\* The command that runs to an address: a temporary site is put in unless one
\* is there.
LEMMA RunUntil ==
    ASSUME NEW address, NEW c, IsCommand(c), c.op # "call", SitesInv, phase \in {"prompt", "stepping"},
           run_until_address(address, c), UNCHANGED <<user, left>>
    PROVE  /\ SitesInv' /\ CommandInv' /\ phase' = "resume"
           /\ cmd'.op = c.op /\ cmd'.start = c.start /\ cmd'.from = c.from /\ cmd'.ran = c.ran \cup {address}
<1>1. /\ cmd' = [c EXCEPT !.target = address, !.own = sites[address] = "none", !.ran = @ \cup {address}]
      /\ sites' = IF sites[address] = "none" THEN [sites EXCEPT ![address] = "enabled"] ELSE sites
      /\ phase' = "resume"
  BY DEF run_until_address
<1>2. /\ cmd'.op = c.op /\ cmd'.start = c.start /\ cmd'.from = c.from /\ cmd'.target = address
      /\ cmd'.own = (sites[address] = "none") /\ cmd'.ran = c.ran \cup {address}
  BY <1>1 DEF IsCommand
<1>3. cmd' = AsCommand(cmd')
  BY <1>1 DEF IsCommand
<1>4. CommandInv'
  BY <1>1, <1>2, <1>3 DEF CommandInv, IsCommand
<1>5. /\ sites' \in [Address -> State] /\ \A a \in Address : a # address => sites'[a] = sites[a]
      /\ address \in Address /\ sites[address] = "none" => sites'[address] = "enabled"
  BY <1>1 DEF SitesInv, State
<1>a. Kept' = Kept /\ sites = Kept /\ user \in [Address -> State]
  BY KeptSame DEF SitesInv
<1>6. SitesInv'
  <2>1. CASE sites[address] = "none"
    BY <1>1, <1>2, <1>5, <1>a, <2>1 DEF SitesInv
  <2>2. CASE sites[address] # "none"
    BY <1>1, <1>2, <1>5, <1>a, <2>2 DEF SitesInv
  <2> QED
    BY <2>1, <2>2
<1> QED
  BY <1>1, <1>2, <1>4, <1>6

-----------------------------------------------------------------------------
\* A command that starts, with the inferior where the prompt left it.
LEMMA StartCommand ==
    ASSUME SteppingInv, phase = "prompt", NEW op \in {"continue", "step", "next"}, cmd' = Command(op),
           \/ phase' = "resume" /\ op = "continue"
           \/ phase' = "stepping" /\ op \in {"step", "next"}
           \/ phase' = "prompt",
           UNCHANGED <<pc, calls, sites, user, left>>
    PROVE  SteppingInv'
<1>1. IsCommand(cmd') /\ cmd'.op = op /\ cmd'.from = <<pc, calls>> /\ cmd'.own = FALSE
  BY CommandFields
<1>2. CommandInv'
  BY <1>1 DEF CommandInv, IsCommand
<1>3. SitesInv'
  BY <1>1, KeptSame DEF SteppingInv, SitesInv
<1>4. LeaveInv' /\ CallTransparent'
  BY <1>1 DEF LeaveInv, CallTransparent
<1> QED
  BY <1>2, <1>3, <1>4 DEF SteppingInv

\* step_out, which also runs to an address.
LEMMA StepOutStep ==
    ASSUME SteppingInv, step_out
    PROVE  SteppingInv' /\ cmd'.op # "call"
<1> DEFINE command == [Command("finish") EXCEPT !.frames = Len(frames) - inline_height]
           inlined == [command EXCEPT !.op = "finish_inline"]
<1>1. /\ phase = "prompt" /\ UNCHANGED <<pc, calls, user, left>>
      /\ \/ \E address : run_until_address(address, inlined)
         \/ phase' = "undefined" /\ cmd' = command /\ UNCHANGED sites
         \/ \E address : run_until_address(address, command)
  BY Zenon DEF step_out
<1>2. PICK k : k = Command("finish")
  OBVIOUS
<1>3. IsCommand(k) /\ k.op = "finish" /\ k.start = <<pc, calls>> /\ k.from = <<pc, calls>> /\ k.own = FALSE
  BY <1>2, CommandFields
<1>4. PICK c : c = command
  OBVIOUS
<1>5. c = [k EXCEPT !.frames = Len(frames) - inline_height]
  BY <1>2, <1>4
<1>6. IsCommand(c) /\ c.op = "finish" /\ c.start = <<pc, calls>> /\ c.from = <<pc, calls>> /\ c.own = FALSE
  <2>1. c.op = "finish" /\ c.start = <<pc, calls>> /\ c.from = <<pc, calls>> /\ c.own = FALSE
    BY <1>3, <1>5 DEF IsCommand
  <2>2. c = AsCommand(c)
    BY <1>3, <1>5 DEF IsCommand
  <2> QED
    BY <2>1, <2>2 DEF IsCommand
<1>7. PICK i : i = inlined
  OBVIOUS
<1>8. i = [c EXCEPT !.op = "finish_inline"]
  BY <1>4, <1>7
<1>9. IsCommand(i) /\ i.op = "finish_inline" /\ i.start = <<pc, calls>> /\ i.from = <<pc, calls>>
  <2>1. i.op = "finish_inline" /\ i.start = <<pc, calls>> /\ i.from = <<pc, calls>>
    BY <1>6, <1>8 DEF IsCommand
  <2>2. i = AsCommand(i)
    BY <1>6, <1>8 DEF IsCommand
  <2> QED
    BY <2>1, <2>2 DEF IsCommand
<1>10. CASE phase' = "undefined" /\ cmd' = c /\ UNCHANGED sites
  <2>1. CommandInv' /\ SitesInv'
    BY <1>1, <1>6, <1>10, KeptSame DEF SteppingInv, CommandInv, SitesInv, IsCommand
  <2>2. LeaveInv' /\ CallTransparent'
    BY <1>10 DEF LeaveInv, CallTransparent
  <2> QED
    BY <1>6, <1>10, <2>1, <2>2 DEF SteppingInv
<1>11. CASE \E address : run_until_address(address, c) \/ run_until_address(address, i)
  <2>1. /\ SitesInv' /\ CommandInv' /\ phase' = "resume"
        /\ cmd'.op # "call" /\ cmd'.start = <<pc, calls>> /\ cmd'.from = <<pc, calls>>
    BY <1>1, <1>6, <1>9, <1>11, RunUntil DEF SteppingInv
  <2>2. LeaveInv' /\ CallTransparent'
    BY <2>1, <1>1 DEF LeaveInv, CallTransparent
  <2> QED
    BY <2>1, <2>2 DEF SteppingInv
<1> QED
  BY <1>1, <1>4, <1>7, <1>10, <1>11

\* inferior_call puts its site at Main and moves the inferior into the callee.
LEMMA CallStep ==
    ASSUME SteppingInv, NEW f, inferior_call(f)
    PROVE  SteppingInv'
<1> DEFINE from == <<f, <<Main>> \o calls>>
<1>1. /\ phase = "prompt" /\ phase' = "resume" /\ UNCHANGED <<user, left>>
      /\ sites' = [sites EXCEPT ![Main] = "enabled"]
      /\ cmd' = [Command("call") EXCEPT !.from = from, !.target = Main,
                                        !.own = sites[Main] = "none", !.was = sites[Main]]
      /\ pc' = f /\ calls' = <<Main>> \o calls
  BY DEF inferior_call
<1>2. PICK k : k = Command("call")
  OBVIOUS
<1>3. IsCommand(k) /\ k.op = "call" /\ k.start = <<pc, calls>>
  BY <1>2, CommandFields
<1>a. PICK g : g = from
  OBVIOUS
<1>4. cmd' = [k EXCEPT !.from = g, !.target = Main, !.own = sites[Main] = "none", !.was = sites[Main]]
  BY <1>1, <1>2, <1>a
<1>5. /\ cmd'.op = "call" /\ cmd'.target = Main /\ cmd'.was = sites[Main]
      /\ cmd'.start = <<pc, calls>> /\ cmd'.from = g
  BY <1>3, <1>4 DEF IsCommand
<1>6. cmd'.own = (sites[Main] = "none")
  BY <1>3, <1>4 DEF IsCommand
<1>7. cmd' = AsCommand(cmd')
  BY <1>3, <1>4 DEF IsCommand
<1>8. CommandInv'
  BY <1>1, <1>5, <1>6, <1>7 DEF CommandInv, IsCommand
<1>9. SitesInv'
  BY <1>1, <1>5, <1>6, KeptSame DEF SteppingInv, SitesInv, State
<1>b. <<pc', calls'>> = cmd'.from
  BY <1>1, <1>a, <1>5
<1>10. LeaveInv' /\ CallTransparent'
  BY <1>1, <1>5, <1>b DEF LeaveInv, CallTransparent
<1> QED
  BY <1>8, <1>9, <1>10 DEF SteppingInv

-----------------------------------------------------------------------------
\* The command ends, with the sites the user set and those that were left.
LEMMA EndStep ==
    ASSUME SteppingInv, phase' \in {"prompt", "exited", "undefined"}, cmd' = cmd, user' = user,
           sites' \in [Address -> State], phase' = "prompt" => sites' = Kept',
           phase' = "prompt" => cmd.op # "call" \/ <<pc', calls'>> = cmd.start
    PROVE  SteppingInv'
<1>1. CommandInv' /\ SitesInv'
  BY DEF SteppingInv, CommandInv, IsCommand, SitesInv
<1>2. LeaveInv' /\ CallTransparent'
  BY DEF LeaveInv, CallTransparent
<1> QED
  BY <1>1, <1>2 DEF SteppingInv

\* An instruction of the stepping loop.
LEMMA StepLoopStep ==
    ASSUME SteppingInv, StepLoop
    PROVE  SteppingInv'
<1>1. PICK to \in Execute(pc, calls) :
        /\ Move(to)
        /\ \/ Exited("exited") /\ UNCHANGED <<cmd, sites>>
           \/ (\E r : Return(r)) /\ UNCHANGED <<cmd, sites>>
           \/ is_step(Landed(to)) /\ UNCHANGED <<phase, cmd, sites>>
           \/ \E address : run_until_address(address, cmd) /\ cmd.op = "step" /\ is_step(Landed(to))
  BY Zenon DEF StepLoop, after_step_in
<1>2. /\ phase = "stepping" /\ UNCHANGED <<user, left>> /\ pc' = to.pc
      /\ sites = Kept /\ user \in [Address -> State] /\ sites \in [Address -> State] /\ cmd.op \in {"step", "next"}
  BY <1>1 DEF StepLoop, Move, SteppingInv, SitesInv, CommandInv
<1>a. Kept' = Kept
  BY <1>2, KeptSame
<1>3. is_step(Landed(to)) => pc' \notin Address \/ user'[pc'] # "enabled"
  BY <1>2, KeptTyped DEF is_step, Landed
<1>4. CASE phase' \in {"prompt", "exited"} /\ UNCHANGED <<cmd, sites>>
  BY <1>2, <1>4, <1>a, EndStep
<1>5. CASE is_step(Landed(to)) /\ UNCHANGED <<phase, cmd, sites>>
  <2>1. CommandInv' /\ SitesInv'
    BY <1>2, <1>5, <1>a DEF SteppingInv, CommandInv, IsCommand, SitesInv
  <2>2. LeaveInv' /\ CallTransparent'
    BY <1>2, <1>3, <1>5 DEF LeaveInv, CallTransparent
  <2> QED
    BY <2>1, <2>2 DEF SteppingInv
<1>6. CASE \E address : run_until_address(address, cmd) /\ cmd.op = "step" /\ is_step(Landed(to))
  <2>1. SitesInv' /\ CommandInv' /\ phase' = "resume"
    BY <1>2, <1>6, RunUntil DEF SteppingInv, CommandInv
  <2>2. LeaveInv' /\ CallTransparent'
    BY <2>1, <1>2, <1>3, <1>6 DEF LeaveInv, CallTransparent
  <2> QED
    BY <2>1, <2>2 DEF SteppingInv
<1> QED
  BY <1>1, <1>4, <1>5, <1>6 DEF Exited, Return

\* step_over runs over a call, perhaps from where it has run to before.
LEMMA StepOverCallStep ==
    ASSUME SteppingInv, StepOverCall
    PROVE  SteppingInv'
<1>1. /\ phase = "stepping" /\ cmd.op = "next" /\ UNCHANGED <<pc, calls, user, left>>
      /\ \/ phase' = "undefined" /\ UNCHANGED <<cmd, sites>>
         \/ run_until_address(skip_target, cmd)
  BY DEF StepOverCall
<1>2. PICK address : address = skip_target
  OBVIOUS
<1>3. CASE phase' = "undefined" /\ UNCHANGED <<cmd, sites>>
  BY <1>3, <1>1, KeptSame DEF SteppingInv, CommandInv, IsCommand, SitesInv, LeaveInv, CallTransparent
<1> SUFFICES ASSUME run_until_address(skip_target, cmd) PROVE SteppingInv'
  BY <1>3, <1>1
<1>4. /\ SitesInv' /\ CommandInv' /\ phase' = "resume"
      /\ cmd'.op = cmd.op /\ cmd'.from = cmd.from /\ cmd'.ran = cmd.ran \cup {address}
  BY <1>1, <1>2, RunUntil DEF SteppingInv, CommandInv
<1>5. LeaveInv' /\ CallTransparent'
  BY <1>1, <1>4 DEF SteppingInv, LeaveInv, CallTransparent
<1> QED
  BY <1>4, <1>5 DEF SteppingInv

\* The process goes on, and runs.
LEMMA RunStep ==
    ASSUME SteppingInv, Resume \/ ResumeInterrupted \/ Run
    PROVE  SteppingInv'
<1>1. /\ phase \in {"resume", "running"} /\ phase' \in {"running", "exited"}
      /\ UNCHANGED <<sites, cmd, user, left>>
  BY DEF Resume, ResumeInterrupted, Run, Exited
<1>2. CommandInv' /\ SitesInv'
  BY <1>1, KeptSame DEF SteppingInv, CommandInv, IsCommand, SitesInv
<1>3. LeaveInv' /\ CallTransparent'
  BY <1>1 DEF LeaveInv, CallTransparent
<1> QED
  BY <1>2, <1>3 DEF SteppingInv

\* What run_until_address and inferior_call put in is taken out again.
LEMMA Restored ==
    ASSUME SteppingInv, phase \in {"resume", "running"}
    PROVE  RestoredSites = Kept /\ Kept \in [Address -> State]
<1>1. /\ sites \in [Address -> State] /\ Kept \in [Address -> State] /\ cmd.own \in BOOLEAN
      /\ \A a \in Address : a # cmd.target => sites[a] = Kept[a]
      /\ cmd.target \in Address => IF cmd.own THEN Kept[cmd.target] = "none"
                                   ELSE IF cmd.op = "call" THEN Kept[cmd.target] = cmd.was
                                   ELSE sites[cmd.target] = Kept[cmd.target]
  BY KeptTyped DEF SteppingInv, SitesInv, CommandInv
<1>2. CASE cmd.own
  BY <1>1, <1>2 DEF RestoredSites
<1>3. CASE ~cmd.own /\ cmd.op = "call"
  BY <1>1, <1>3 DEF RestoredSites
<1>4. CASE ~cmd.own /\ cmd.op # "call"
  BY <1>1, <1>4 DEF RestoredSites
<1> QED
  BY <1>1, <1>2, <1>3, <1>4

\* A stop, with what the caller does next.
LEMMA StopStep ==
    ASSUME SteppingInv, Trap \/ Interrupt
    PROVE  SteppingInv'
<1>1. phase = "running" /\ UNCHANGED <<user, left>> /\ \E r : Stopped(r) \/ CallStopped(r)
  BY DEF Trap, Interrupt
<1>2. RestoredSites = Kept /\ Kept \in [Address -> State] /\ Kept' = Kept
  BY <1>1, Restored, KeptSame
<1>3. PICK r : Stopped(r) \/ CallStopped(r)
  BY <1>1
<1>4. CASE CallStopped(r)
  <2>1. /\ cmd.op = "call" /\ pc' = cmd.start[1] /\ calls' = cmd.start[2] /\ sites' = RestoredSites
        /\ phase' = "prompt" /\ UNCHANGED cmd
    BY <1>4 DEF CallStopped, Return
  <2>2. <<pc', calls'>> = cmd.start
    BY <2>1 DEF SteppingInv, CommandInv, IsCommand
  <2> QED
    BY <1>1, <1>2, <2>1, <2>2, EndStep
<1>5. CASE Stopped(r)
  <2>1. /\ cmd.op # "call" /\ UNCHANGED <<pc, calls, cmd>>
        /\ \/ phase' = "stepping" /\ sites' = RestoredSites /\ cmd.op = "next" /\ pc = cmd.target
           \/ phase' = "resume" /\ UNCHANGED sites /\ cmd.op = "finish" /\ pc = cmd.target
           \/ phase' = "prompt" /\ sites' = RestoredSites
    BY <1>5 DEF Stopped, Return, inferior
  <2>2. CASE phase' = "prompt" /\ sites' = RestoredSites
    BY <1>1, <1>2, <2>1, <2>2, EndStep
  <2>3. CASE phase' = "stepping" /\ sites' = RestoredSites /\ cmd.op = "next" /\ pc = cmd.target
    <3>1. CommandInv' /\ SitesInv' /\ cmd.target \in cmd.ran
      BY <1>1, <1>2, <2>1, <2>3 DEF SteppingInv, CommandInv, IsCommand, SitesInv
    <3>2. LeaveInv' /\ CallTransparent'
      BY <2>1, <2>3, <3>1 DEF LeaveInv, CallTransparent
    <3> QED
      BY <3>1, <3>2 DEF SteppingInv
  <2>4. CASE phase' = "resume" /\ UNCHANGED sites /\ cmd.op = "finish" /\ pc = cmd.target
    <3>1. CommandInv' /\ SitesInv' /\ cmd.target \in cmd.ran
      BY <1>1, <1>2, <2>1, <2>4 DEF SteppingInv, CommandInv, IsCommand, SitesInv
    <3>2. LeaveInv' /\ CallTransparent'
      BY <2>1, <2>4, <3>1 DEF LeaveInv, CallTransparent
    <3> QED
      BY <3>1, <3>2 DEF SteppingInv
  <2> QED
    BY <2>1, <2>2, <2>3, <2>4
<1> QED
  BY <1>3, <1>4, <1>5

\* A stop at which the reload throws.  The site of run_until_address is one of
\* those that are left.
LEMMA ThrowStep ==
    ASSUME SteppingInv, Throws
    PROVE  SteppingInv'
<1>1. CASE StopThrows
  <2>1. /\ phase = "running" /\ cmd.op # "call" /\ phase' = "prompt" /\ UNCHANGED <<sites, cmd, user>>
        /\ left' = IF cmd.own THEN left \cup {cmd.target} ELSE left
    BY <1>1 DEF StopThrows
  <2>2. Kept' = sites
    <3>1. \A a \in Address : Kept'[a] = IF a \in left' THEN "enabled" ELSE user[a]
      BY <2>1 DEF Kept
    <3>2. \A a \in Address : Kept[a] = IF a \in left THEN "enabled" ELSE user[a]
      BY DEF Kept
    <3>3. \A a \in Address : Kept'[a] = sites[a]
      BY <2>1, <3>1, <3>2 DEF SteppingInv, SitesInv, CommandInv
    <3>4. Kept' = [a \in Address |-> Kept'[a]]
      BY DEF Kept
    <3>5. sites = [a \in Address |-> sites[a]]
      BY DEF SteppingInv, SitesInv
    <3> QED
      BY <3>3, <3>4, <3>5
  <2>3. sites \in [Address -> State]
    BY DEF SteppingInv, SitesInv
  <2> QED
    BY <2>1, <2>2, <2>3, EndStep
<1>2. CASE CallThrows \/ CallReturnThrows
  <2>1. /\ phase = "running" /\ cmd.op = "call" /\ phase' \in {"prompt", "undefined"}
        /\ UNCHANGED <<cmd, user, left>> /\ sites' = RestoredSites
        /\ pc' = cmd.start[1] /\ calls' = cmd.start[2]
    BY <1>2 DEF CallThrows, CallReturnThrows
  <2>2. RestoredSites = Kept /\ Kept \in [Address -> State] /\ Kept' = Kept
    BY <2>1, Restored, KeptSame
  <2>3. <<pc', calls'>> = cmd.start
    BY <2>1 DEF SteppingInv, CommandInv, IsCommand
  <2> QED
    BY <2>1, <2>2, <2>3, EndStep
<1>3. CASE StepThrows
  <2> DEFINE restored == IF cmd.op = "call" THEN RestoredSites ELSE sites
  <2>1. /\ phase \in {"stepping", "resume"} /\ phase' = "failed" /\ UNCHANGED <<cmd, user>>
        /\ sites' = [restored EXCEPT ![pc] = IF @ = "enabled" THEN "disabled" ELSE @]
        /\ left' = left \cup {a \in Address \cap {pc, cmd.target} : sites'[a] # user[a]}
        /\ cmd.op = "call" => pc' = cmd.start[1] /\ calls' = cmd.start[2]
    BY <1>3 DEF StepThrows
  <2>2. /\ sites \in [Address -> State] /\ user \in [Address -> State]
        /\ phase = "resume" => RestoredSites = Kept /\ Kept \in [Address -> State]
        /\ phase = "stepping" => cmd.op # "call"
    BY Restored DEF SteppingInv, SitesInv, CommandInv
  <2>3. restored \in [Address -> State]
    BY <2>1, <2>2
  <2>4. sites' \in [Address -> State] /\ \A a \in Address : a # pc => sites'[a] = restored[a]
    BY <2>1, <2>3 DEF State
  <2>5. \A a \in Address \ left : Kept[a] = user[a]
    BY DEF Kept
  <2>6. ASSUME NEW a \in Address \ left' PROVE sites'[a] = user[a]
    <3>1. CASE a \in {pc, cmd.target}
      BY <2>1, <2>6, <3>1
    <3>2. CASE a \notin {pc, cmd.target}
      <4>1. a \notin left /\ sites'[a] = restored[a] /\ Kept[a] = user[a]
        BY <2>1, <2>4, <2>5, <2>6, <3>2
      <4>2. restored[a] = Kept[a]
        BY <2>1, <2>2, <3>2 DEF SteppingInv, SitesInv
      <4> QED
        BY <4>1, <4>2
    <3> QED
      BY <3>1, <3>2
  <2>7. SitesInv'
    BY <2>1, <2>2, <2>4, <2>6 DEF SitesInv
  <2>8. CommandInv'
    BY <2>1 DEF SteppingInv, CommandInv, IsCommand
  <2>9. cmd.op = "call" => <<pc', calls'>> = cmd.start
    BY <2>1 DEF SteppingInv, CommandInv, IsCommand
  <2>10. LeaveInv' /\ CallTransparent'
    BY <2>1, <2>9 DEF LeaveInv, CallTransparent
  <2> QED
    BY <2>7, <2>8, <2>10 DEF SteppingInv
<1> QED
  BY <1>1, <1>2, <1>3 DEF Throws

\* Commands that leave the program and the sites of commands alone.
LEMMA PromptStep ==
    ASSUME SteppingInv, up \/ down \/ StepInterrupted \/ \E a \in Breakable, s \in State : SetSite(a, s)
    PROVE  SteppingInv'
<1>1. CASE up \/ down \/ \E a \in Breakable, s \in State : SetSite(a, s)
  <2>1. phase = "prompt" /\ UNCHANGED <<pc, calls, phase, cmd>>
    BY <1>1 DEF up, down, SetSite
  <2>2. sites' = Kept' /\ sites' \in [Address -> State] /\ user' \in [Address -> State]
    <3>1. CASE up \/ down
      BY <2>1, <3>1, KeptSame DEF up, down, SteppingInv, SitesInv
    <3>2. CASE \E a \in Breakable, s \in State : SetSite(a, s)
      <4>1. PICK a \in Breakable, s \in State : SetSite(a, s)
        BY <3>2
      <4>2. /\ sites' = [sites EXCEPT ![a] = s] /\ user' = [user EXCEPT ![a] = s]
            /\ left' = left /\ a \notin left
            /\ sites = Kept /\ sites \in [Address -> State] /\ user \in [Address -> State]
        BY <2>1, <4>1 DEF SetSite, SteppingInv, SitesInv
      <4>3. sites' \in [Address -> State] /\ user' \in [Address -> State]
        BY <4>2
      <4>4. ASSUME NEW b \in Address PROVE sites'[b] = IF b \in left' THEN "enabled" ELSE user'[b]
        BY <4>2, <4>4 DEF Kept
      <4> QED
        BY <4>3, <4>4 DEF Kept
    <3> QED
      BY <1>1, <3>1, <3>2
  <2>3. CommandInv' /\ SitesInv'
    BY <2>1, <2>2 DEF SteppingInv, CommandInv, IsCommand, SitesInv
  <2>4. LeaveInv' /\ CallTransparent'
    BY <2>1 DEF SteppingInv, LeaveInv, CallTransparent
  <2> QED
    BY <2>3, <2>4 DEF SteppingInv
<1>2. CASE StepInterrupted
  <2>1. phase = "stepping" /\ phase' = "prompt" /\ UNCHANGED <<sites, cmd, user, left>>
    BY <1>2 DEF StepInterrupted, Return
  <2>2. sites = Kept' /\ sites \in [Address -> State] /\ cmd.op # "call"
    BY <2>1, KeptSame DEF SteppingInv, SitesInv, CommandInv
  <2> QED
    BY <2>1, <2>2, EndStep
<1> QED
  BY <1>1, <1>2

\* An instruction leads into the code, or to the end of the process.
LEMMA ExecuteTyped ==
    ASSUME NEW p \in Address, NEW c \in Seq(Address), NEW to \in Execute(p, c), to # Gone
    PROVE  to.pc \in Address /\ to.calls \in Seq(Address)
<1>1. Code[p].op \in {"op", "bl", "cbz", "ret"}
  BY SteppingAssumption
<1>2. CASE Code[p].op = "op"
  BY <1>2, SteppingAssumption DEF Execute
<1>3. CASE Code[p].op = "bl"
  <2>1. to = [pc |-> Code[p].to, calls |-> <<p + 1>> \o c] /\ p + 1 \in Address /\ Code[p].to \in Address
    BY <1>3, SteppingAssumption DEF Execute
  <2>2. <<p + 1>> \o c \in Seq(Address)
    BY <2>1
  <2> QED
    BY <2>1, <2>2
<1>4. CASE Code[p].op = "ret"
  <2>1. c # <<>> /\ to = [pc |-> Head(c), calls |-> Tail(c)]
    BY <1>4 DEF Execute
  <2>2. Head(c) \in Address /\ Tail(c) \in Seq(Address)
    BY <2>1
  <2> QED
    BY <2>1, <2>2
<1>5. CASE Code[p].op = "cbz"
  <2>1. PICK q \in {Code[p].to, p + 1} : to = [pc |-> q, calls |-> c]
    BY <1>5 DEF Execute
  <2>2. q \in Address
    BY <2>1, <1>5, SteppingAssumption
  <2> QED
    BY <2>1, <2>2
<1> QED
  BY <1>1, <1>2, <1>3, <1>4, <1>5

LEMMA InferiorStep ==
    ASSUME SteppingInv, InferiorInv, [Next]_vars
    PROVE  InferiorInv'
<1>1. CASE /\ UNCHANGED <<pc, calls>> /\ (phase = "exited" => phase' = "exited")
           /\ cmd' = cmd \/ cmd'.op # "call"
  BY <1>1 DEF InferiorInv
<1>2. CASE \E a \in Breakable, s \in State : SetSite(a, s)
  BY <1>1, <1>2 DEF SetSite
<1>3. CASE up \/ down
  BY <1>1, <1>3 DEF up, down
<1>4. CASE Continue \/ step_in \/ step_over
  <2>1. PICK op \in {"continue", "step", "next"} :
          /\ phase = "prompt" /\ cmd' = Command(op) /\ UNCHANGED <<pc, calls>>
    BY <1>4 DEF Continue, step_in, step_over
  <2> QED
    BY <1>1, <2>1, CommandFields
<1>5. CASE step_out
  <2>1. phase = "prompt" /\ UNCHANGED <<pc, calls>> /\ cmd'.op # "call"
    BY <1>5, StepOutStep DEF step_out
  <2> QED
    BY <1>1, <2>1
<1>6. CASE \E f \in Callable : inferior_call(f)
  <2>1. PICK f \in Callable : inferior_call(f)
    BY <1>6
  <2>2. /\ phase = "prompt" /\ pc' = f /\ calls' = <<Main>> \o calls
        /\ cmd' = [Command("call") EXCEPT !.from = <<f, <<Main>> \o calls>>, !.target = Main,
                                          !.own = sites[Main] = "none", !.was = sites[Main]]
    BY <2>1 DEF inferior_call
  <2>3. PICK k : k = Command("call")
    OBVIOUS
  <2>4. IsCommand(k) /\ k.start = <<pc, calls>>
    BY <2>3, CommandFields
  <2>a. PICK g : g = <<f, <<Main>> \o calls>>
    OBVIOUS
  <2>5. cmd' = [k EXCEPT !.from = g, !.target = Main, !.own = sites[Main] = "none", !.was = sites[Main]]
    BY <2>2, <2>3, <2>a
  <2>6. cmd'.start = <<pc, calls>>
    BY <2>4, <2>5 DEF IsCommand
  <2>7. pc \in Address /\ calls \in Seq(Address) /\ f \in Address /\ Main \in Address
    BY <2>1, <2>2, SteppingAssumption DEF InferiorInv
  <2>8. <<Main>> \o calls \in Seq(Address)
    BY <2>7
  <2>9. cmd'.start[1] \in Address /\ cmd'.start[2] \in Seq(Address)
    BY <2>6, <2>7
  <2> QED
    BY <2>2, <2>7, <2>8, <2>9 DEF InferiorInv
<1>7. CASE StepLoop \/ Resume \/ Run
  <2>1. cmd.op = cmd'.op /\ cmd.start = cmd'.start /\ phase # "exited"
    <3>1. cmd' = cmd \/ (\E address : run_until_address(address, cmd))
      BY <1>7, Zenon DEF StepLoop, after_step_in, Resume, Run
    <3>2. ASSUME NEW address, run_until_address(address, cmd) PROVE cmd.op = cmd'.op /\ cmd.start = cmd'.start
      BY <3>2 DEF run_until_address, SteppingInv, CommandInv, IsCommand
    <3> QED
      BY <1>7, <3>1, <3>2 DEF StepLoop, Resume, Run
  <2>2. \/ UNCHANGED <<pc, calls>>
        \/ phase' = "exited"
        \/ \E to \in Execute(pc, calls) : to # Gone /\ pc' = to.pc /\ calls' = to.calls
    BY <1>7, Zenon DEF StepLoop, Resume, Run, Exited, Move
  <2> QED
    BY <2>1, <2>2, ExecuteTyped DEF InferiorInv
<1>8. CASE StepOverCall
  <2>1. UNCHANGED <<pc, calls>> /\ phase = "stepping" /\ (cmd' = cmd \/ run_until_address(skip_target, cmd))
    BY <1>8 DEF StepOverCall
  <2>2. cmd.op = cmd'.op /\ cmd.start = cmd'.start
    BY <2>1 DEF run_until_address, SteppingInv, CommandInv, IsCommand
  <2> QED
    BY <2>1, <2>2 DEF InferiorInv
<1>9. CASE Trap \/ Interrupt
  <2>1. /\ phase = "running" /\ UNCHANGED cmd
        /\ \/ UNCHANGED <<pc, calls>>
           \/ cmd.op = "call" /\ pc' = cmd.start[1] /\ calls' = cmd.start[2]
    BY <1>9 DEF Trap, Interrupt, Stopped, CallStopped, inferior
  <2> QED
    BY <2>1 DEF InferiorInv
<1>10. CASE StepInterrupted \/ ResumeInterrupted
  BY <1>1, <1>10 DEF StepInterrupted, ResumeInterrupted
<1>11. CASE UNCHANGED vars
  BY <1>1, <1>11 DEF vars
<1>12. CASE StopThrows
  BY <1>1, <1>12 DEF StopThrows
<1>13. CASE CallThrows \/ CallReturnThrows
  <2>1. phase = "running" /\ UNCHANGED cmd /\ cmd.op = "call" /\ pc' = cmd.start[1] /\ calls' = cmd.start[2]
    BY <1>13 DEF CallThrows, CallReturnThrows
  <2> QED
    BY <2>1 DEF InferiorInv
<1>14. CASE StepThrows
  <2>1. /\ phase \in {"stepping", "resume"} /\ UNCHANGED cmd
        /\ \/ cmd.op = "call" /\ pc' = cmd.start[1] /\ calls' = cmd.start[2]
           \/ \E to \in Execute(pc, calls) \cup {[pc |-> pc, calls |-> calls]} :
                to # Gone /\ pc' = to.pc /\ calls' = to.calls
    BY <1>14, Zenon DEF StepThrows, Move
  <2>2. CASE cmd.op = "call" /\ pc' = cmd.start[1] /\ calls' = cmd.start[2]
    BY <2>1, <2>2 DEF InferiorInv
  <2>3. ASSUME NEW to \in Execute(pc, calls) \cup {[pc |-> pc, calls |-> calls]},
               to # Gone, pc' = to.pc, calls' = to.calls
        PROVE  InferiorInv'
    <3>1. pc \in Address /\ calls \in Seq(Address)
      BY <2>1 DEF InferiorInv
    <3>2. to.pc \in Address /\ to.calls \in Seq(Address)
      BY <3>1, <2>3, ExecuteTyped
    <3> QED
      BY <2>1, <2>3, <3>2 DEF InferiorInv
  <2> QED
    BY <2>1, <2>2, <2>3
<1> QED
  BY <1>12, <1>13, <1>14, <1>2, <1>3, <1>4, <1>5, <1>6, <1>7, <1>8, <1>9, <1>10, <1>11 DEF Next, Commands, Progress, Throws, State

LEMMA SteppingStep ==
    ASSUME SteppingInv, [Next]_vars
    PROVE  SteppingInv'
<1>1. CASE Continue \/ step_in \/ step_over
  <2>1. PICK op \in {"continue", "step", "next"} :
          /\ phase = "prompt" /\ cmd' = Command(op) /\ UNCHANGED <<pc, calls, sites, user, left>>
          /\ \/ phase' = "resume" /\ op = "continue"
             \/ phase' = "stepping" /\ op \in {"step", "next"}
             \/ phase' = "prompt"
    BY <1>1 DEF Continue, step_in, step_over, Return
  <2> QED
    BY <2>1, StartCommand
<1>2. CASE UNCHANGED vars
  BY <1>2, KeptSame DEF vars, SteppingInv, CommandInv, IsCommand, SitesInv, LeaveInv, CallTransparent
<1> QED
  BY <1>1, <1>2, ThrowStep, PromptStep, StepOutStep, CallStep, StepLoopStep, StepOverCallStep, RunStep, StopStep
     DEF Next, Commands, Progress, State

LEMMA SteppingInvHolds == Spec => [](SteppingInv /\ InferiorInv)
<1>1. Init => SteppingInv /\ InferiorInv
  <2> SUFFICES ASSUME Init PROVE SteppingInv /\ InferiorInv
    OBVIOUS
  <2>1. phase = "prompt" /\ cmd = NoCommand /\ sites = user /\ sites \in [Address -> State] /\ left = {}
    BY DEF Init, State
  <2>a. sites = Kept
    BY <2>1 DEF Kept
  <2>2. cmd.op = "none" /\ cmd.own = FALSE
    BY <2>1 DEF NoCommand
  <2>3. cmd = AsCommand(cmd)
    BY <2>1 DEF NoCommand
  <2>4. cmd.start = <<cmd.start[1], cmd.start[2]>>
    BY <2>1 DEF NoCommand
  <2>5. CommandInv
    BY <2>1, <2>2, <2>3, <2>4 DEF CommandInv, IsCommand
  <2>6. pc \in Address /\ calls \in Seq(Address)
    BY SteppingAssumption DEF Init
  <2> QED
    BY <2>1, <2>2, <2>a, <2>5, <2>6 DEF SteppingInv, SitesInv, LeaveInv, CallTransparent, InferiorInv
<1>2. SteppingInv /\ InferiorInv /\ [Next]_vars => (SteppingInv /\ InferiorInv)'
  BY SteppingStep, InferiorStep
<1> QED
  BY <1>1, <1>2, PTL DEF Spec

\* run_until_address and inferior_call leave the sites as the user set them, but
\* for those an exception of notify_stop has left behind: their own target, and
\* the site a step was leaving.
THEOREM SitesComeBack == Spec => []SitesRestored
<1>1. SteppingInv => SitesRestored
  BY DEF SteppingInv, SitesInv, SitesRestored, Kept
<1> QED
  BY <1>1, SteppingInvHolds, PTL

\* inferior_call leaves the program where it was.
THEOREM CallsComeBack == Spec => []CallTransparent
<1>1. SteppingInv => CallTransparent
  BY DEF SteppingInv
<1> QED
  BY <1>1, SteppingInvHolds, PTL

\* No command, an inferior call included, runs over a breakpoint of the user but
\* the one at the place where it first lets the process go and those at the
\* addresses it runs to.
THEOREM BreakpointsStop == Spec => BreakpointsReported
<1>1. SteppingInv /\ InferiorInv /\ [Next]_vars =>
        [phase # "prompt" /\ pc' # pc /\ user[pc] = "enabled" /\ pc \notin cmd.ran
          => \/ <<pc, calls>> = cmd.from
             \/ cmd.op = "call" /\ phase' = "prompt" /\ <<pc', calls'>> = cmd.start]_vars
  <2>1. SUFFICES ASSUME SteppingInv, InferiorInv, Next, phase # "prompt", pc' # pc, user[pc] = "enabled",
                        pc \notin cmd.ran
                 PROVE  \/ <<pc, calls>> = cmd.from
                        \/ cmd.op = "call" /\ phase' = "prompt" /\ <<pc', calls'>> = cmd.start
    BY DEF vars
  <2>2. \/ StepLoop \/ Resume \/ Run \/ StepThrows
        \/ phase = "running" /\ cmd.op = "call" /\ phase' = "prompt" /\ pc' = cmd.start[1] /\ calls' = cmd.start[2]
        \/ CallReturnThrows /\ phase' = "undefined"
    BY <2>1 DEF Next, Commands, Progress, Throws, SetSite, up, down, Continue, step_in, step_over, step_out,
                inferior_call, StepOverCall, StepInterrupted, ResumeInterrupted, Trap, Interrupt,
                Stopped, CallStopped, Return, StopThrows, CallThrows, CallReturnThrows, inferior
  <2>3. CASE phase \in {"stepping", "resume"}
    BY <2>1, <2>3 DEF SteppingInv, LeaveInv, InferiorInv
  <2>4. CASE phase = "running" /\ Run
    <3>1. sites[pc] # "enabled" /\ pc \in Address
      BY <2>1, <2>4 DEF Run, InferiorInv
    <3>2. Kept[pc] # "enabled" => user[pc] # "enabled"
      BY <3>1 DEF Kept
    <3>3. Kept[pc] = "enabled" => sites[pc] = "enabled"
      BY <2>1, <2>4, <3>1 DEF SteppingInv, SitesInv, CommandInv
    <3> QED
      BY <2>1, <3>1, <3>2, <3>3
  <2>5. CASE cmd.op = "call" /\ phase' = "prompt" /\ pc' = cmd.start[1] /\ calls' = cmd.start[2]
    BY <2>1, <2>5 DEF SteppingInv, CommandInv, IsCommand
  <2>6. CASE CallReturnThrows /\ phase' = "undefined"
    <3>1. phase = "running" /\ cmd.op = "call" /\ pc = Main /\ cmd.own /\ Main \in Address
      BY <2>6, SteppingAssumption DEF CallReturnThrows
    <3>2. Kept[Main] = "none"
      BY <2>1, <3>1 DEF SteppingInv, SitesInv, CommandInv
    <3>3. user[Main] # "enabled"
      BY <3>1, <3>2 DEF Kept
    <3> QED
      BY <2>1, <3>1, <3>3
  <2> QED
    BY <2>2, <2>3, <2>4, <2>5, <2>6 DEF StepLoop, Resume, Run, StepThrows
<1> QED
  BY <1>1, SteppingInvHolds, PTL DEF Spec, BreakpointsReported

-----------------------------------------------------------------------------
\* A stop whose reload throws leaves frames that are not its own.
LEMMA ThrowStale ==
    ASSUME Throws
    PROVE  stale' = TRUE
  BY DEF Throws, StopThrows, CallThrows, CallReturnThrows, StepThrows, Throw, unwind

\* At the prompt, and where a stepping loop goes on, the frames are those of the
\* program's state, unless the last stop was that of a call that did not come
\* back or one whose reload threw: the first part of FramesFresh.
FramesMatch ==
    phase \in {"prompt", "stepping"} /\ ~stale => frames = unwind_frames(pc, calls)

\* Every command that moves the program unwinds before the prompt is back.
LEMMA FramesUnwound == Spec => []FramesMatch
<1>1. Init => FramesMatch
  BY DEF Init, FramesMatch
<1>2. ASSUME FramesMatch, [Next]_vars PROVE FramesMatch'
  <2>1. CASE phase \in {"prompt", "stepping"} /\ UNCHANGED <<pc, calls, frames, stale>>
    BY <1>2, <2>1 DEF FramesMatch
  <2>2. CASE phase' \notin {"prompt", "stepping"}
    BY <2>2 DEF FramesMatch
  <2>3. CASE frames' = unwind_frames(pc', calls') \/ stale' = TRUE
    BY <2>3 DEF FramesMatch
  <2>4. CASE Commands
    <3>1. /\ phase = "prompt"
          /\ UNCHANGED <<pc, calls, frames, stale>> \/ phase' = "resume"
      BY <2>4 DEF Commands, SetSite, up, down, Continue, step_in, step_over, step_out, inferior_call, stack
    <3> QED
      BY <3>1, <2>1, <2>2
  <2>5. CASE StepLoop
    <3>1. \/ phase' = "exited"
          \/ \E to \in Execute(pc, calls) : Move(to) /\ unwind(to.pc, to.calls, FALSE)
      BY <2>5, Zenon DEF StepLoop, Exited
    <3> QED
      BY <3>1, <2>2, <2>3 DEF Move, unwind
  <2>6. CASE StepOverCall \/ Resume \/ ResumeInterrupted
    <3>1. phase' \in {"undefined", "resume", "running", "exited"}
      BY <2>6 DEF StepOverCall, run_until_address, Resume, ResumeInterrupted, Exited
    <3> QED
      BY <3>1, <2>2
  <2>7. CASE Run
    <3>1. phase' \in {"running", "exited"}
      BY <2>7 DEF Run, Exited
    <3> QED
      BY <3>1, <2>2
  <2>8. CASE Trap \/ Interrupt
    <3>1. PICK r : Stopped(r) \/ CallStopped(r)
      BY <2>8 DEF Trap, Interrupt
    <3>2. CASE Stopped(r)
      BY <3>2, <2>3 DEF Stopped, unwind, inferior
    <3>3. CASE CallStopped(r)
      BY <3>3, <2>3 DEF CallStopped, unwind
    <3> QED
      BY <3>1, <3>2, <3>3
  <2>9. CASE StepInterrupted
    BY <2>9, <2>3 DEF StepInterrupted, unwind
  <2>10. CASE UNCHANGED vars
    BY <1>2, <2>10 DEF vars, FramesMatch
  <2>11. CASE Throws
    BY <2>11, <2>3, ThrowStale
  <2> QED
    BY <1>2, <2>4, <2>5, <2>6, <2>7, <2>8, <2>9, <2>10, <2>11 DEF Next, Progress
<1> QED
  BY <1>1, <1>2, PTL DEF Spec

-----------------------------------------------------------------------------
(* Flattened sequences. *)

LEMMA Least ==
    ASSUME NEW S, S \subseteq Nat, S # {}
    PROVE  \E x \in S : \A y \in S : x <= y
<1>1. PICK x \in S : \A y \in S : ~(<<y, x>> \in OpToRel(<, Nat))
  BY NatLessThanWellFounded, WFMin
<1>2. ASSUME NEW y \in S PROVE x <= y
  <2>1. x \in Nat /\ y \in Nat
    OBVIOUS
  <2>2. y < x => <<y, x>> \in OpToRel(<, Nat)
    BY <2>1 DEF OpToRel
  <2>3. ~(y < x)
    BY <1>1, <2>2, Zenon
  <2> QED
    BY <2>1, <2>3
<1> QED
  BY <1>2

\* f[i] are the first i of the sequences put together.
Flattens(f, seqs, n) == f = [i \in 1 .. n |-> IF i = 1 THEN seqs[i] ELSE f[i - 1] \o seqs[i]]

LEMMA FlattenExists ==
    ASSUME NEW seqs, NEW n \in Nat
    PROVE  \E f : Flattens(f, seqs, n)
<1> DEFINE Bad == {m \in Nat : ~\E f : Flattens(f, seqs, m)}
<1>1. SUFFICES ASSUME n \in Bad PROVE FALSE
  OBVIOUS
<1>2. PICK m \in Bad : \A k \in Bad : m <= k
  BY <1>1, Least
<1>3. m \in Nat /\ ~\E f : Flattens(f, seqs, m)
  OBVIOUS
<1>4. CASE m = 0
  <2>1. Flattens([i \in 1 .. 0 |-> 0], seqs, 0)
    BY DEF Flattens
  <2> QED
    BY <1>3, <1>4, <2>1
<1>5. CASE m # 0
  <2>1. m - 1 \in Nat /\ m - 1 \notin Bad
    BY <1>2, <1>3, <1>5
  <2>2. PICK f : Flattens(f, seqs, m - 1)
    BY <2>1
  <2>3. PICK v : v = IF m = 1 THEN seqs[m] ELSE f[m - 1] \o seqs[m]
    OBVIOUS
  <2>4. PICK g : g = [i \in 1 .. m |-> IF i = m THEN v ELSE f[i]]
    OBVIOUS
  <2>5. \A i \in 1 .. m - 1 : f[i] = IF i = 1 THEN seqs[i] ELSE f[i - 1] \o seqs[i]
    BY <2>2, Zenon DEF Flattens
  <2>6. \A i \in 1 .. m - 1 : g[i] = f[i]
    BY <1>3, <2>4
  <2>7. g[m] = v
    BY <1>3, <1>5, <2>4
  <2>8. ASSUME NEW i \in 1 .. m
        PROVE  g[i] = IF i = 1 THEN seqs[i] ELSE g[i - 1] \o seqs[i]
    <3>1. CASE i = m
      BY <1>3, <2>3, <2>6, <2>7, <3>1
    <3>2. CASE i # m
      BY <1>3, <2>5, <2>6, <3>2
    <3> QED
      BY <3>1, <3>2
  <2>9. g = [i \in 1 .. m |-> g[i]]
    BY <2>4
  <2>10. Flattens(g, seqs, m)
    BY <2>8, <2>9, Zenon DEF Flattens
  <2> QED
    BY <1>3, <2>10
<1> QED
  BY <1>4, <1>5

\* The result holds the first sequence and more.
LEMMA FlattenedLength ==
    ASSUME NEW S, NEW n \in Nat \ {0}, NEW seqs \in Seq(Seq(S)), Len(seqs) = n
    PROVE  FlattenSeq(seqs) \in Seq(S) /\ Len(FlattenSeq(seqs)) >= Len(seqs[1])
<1> DEFINE f == CHOOSE f : f = [i \in 1 .. n |-> IF i = 1 THEN seqs[i] ELSE f[i - 1] \o seqs[i]]
<1>1. \E g : g = [i \in 1 .. n |-> IF i = 1 THEN seqs[i] ELSE g[i - 1] \o seqs[i]]
  BY FlattenExists, Zenon DEF Flattens
<1>2. f = [i \in 1 .. n |-> IF i = 1 THEN seqs[i] ELSE f[i - 1] \o seqs[i]]
  BY <1>1, Zenon
<1>3. FlattenSeq(seqs) = f[n]
  BY Zenon DEF FlattenSeq
<1> HIDE DEF f
<1>4. \A i \in 1 .. n : f[i] = IF i = 1 THEN seqs[i] ELSE f[i - 1] \o seqs[i]
  BY <1>2, Zenon
<1>5. \A i \in 1 .. n : seqs[i] \in Seq(S)
  OBVIOUS
<1> DEFINE Bad == {i \in 1 .. n : ~(f[i] \in Seq(S) /\ Len(f[i]) >= Len(seqs[1]))}
<1>6. SUFFICES ASSUME n \in Bad PROVE FALSE
  BY <1>3
<1>7. Bad \subseteq Nat
  OBVIOUS
<1>8. PICK m \in Bad : \A k \in Bad : m <= k
  BY <1>6, <1>7, Least
<1>9. m \in 1 .. n /\ ~(f[m] \in Seq(S) /\ Len(f[m]) >= Len(seqs[1]))
  OBVIOUS
<1>10. CASE m = 1
  <2>1. f[m] = seqs[1] /\ seqs[1] \in Seq(S)
    BY <1>4, <1>5, <1>9, <1>10
  <2>2. Len(seqs[1]) \in Nat
    BY <2>1
  <2> QED
    BY <1>9, <2>1, <2>2
<1>11. CASE m # 1
  <2>1. m - 1 \in 1 .. n /\ m - 1 \notin Bad
    BY <1>8, <1>9, <1>11
  <2>2. f[m - 1] \in Seq(S) /\ Len(f[m - 1]) >= Len(seqs[1])
    BY <2>1
  <2>3. f[m] = f[m - 1] \o seqs[m] /\ seqs[m] \in Seq(S) /\ seqs[1] \in Seq(S)
    <3>1. f[m] = f[m - 1] \o seqs[m]
      BY <1>4, <1>9, <1>11, Zenon
    <3>2. 1 \in 1 .. n
      OBVIOUS
    <3> QED
      BY <1>5, <1>9, <3>1, <3>2, Zenon
  <2>4. f[m] \in Seq(S) /\ Len(f[m]) = Len(f[m - 1]) + Len(seqs[m])
    BY <2>2, <2>3
  <2>5. Len(f[m - 1]) \in Nat /\ Len(seqs[m]) \in Nat /\ Len(seqs[1]) \in Nat
    BY <2>2, <2>3
  <2> QED
    BY <1>9, <2>2, <2>4, <2>5
<1> QED
  BY <1>10, <1>11

-----------------------------------------------------------------------------
(* The frames of a stop. *)

\* A function on 1 .. n is a sequence of its values.
LEMMA Tabled ==
    ASSUME NEW n \in Nat, NEW s, s = [k \in 1 .. n |-> s[k]]
    PROVE  s \in Seq({s[k] : k \in 1 .. n}) /\ Len(s) = n
<1> DEFINE T == {s[k] : k \in 1 .. n}
<1>1. s \in [1 .. n -> T]
  OBVIOUS
<1> HIDE DEF T
<1>2. s \in Seq(T) /\ Len(s) = n
  BY <1>1
<1> QED
  BY <1>2 DEF T

LEMMA InlineStack ==
    ASSUME NEW a
    PROVE  \E S : inline_stack_at_address(a) \in Seq(S)
<1> DEFINE around == {d \in Dies : d.low <= a /\ a < d.high}
           s == inline_stack_at_address(a)
<1>1. IsFiniteSet(around)
  <2>1. around \subseteq Dies
    OBVIOUS
  <2> QED
    BY <2>1, SteppingAssumption, FS_Subset
<1>2. PICK n \in Nat : n = Cardinality(around)
  BY <1>1, FS_CardinalityType
<1>3. s = [k \in 1 .. n |-> s[k]]
  BY <1>2 DEF inline_stack_at_address
<1> HIDE DEF s
<1>4. s \in Seq({s[k] : k \in 1 .. n})
  BY <1>3, Tabled
<1> QED
  BY <1>4 DEF s

\* The outermost function is never one of the calls that are not entered yet.
LEMMA HeightBelow ==
    ASSUME NEW p
    PROVE  /\ reset_inline_height(p) \in Nat
           /\ Len(inline_stack_at_address(p)) \in Nat
           /\ inline_stack_at_address(p) # <<>> =>
                reset_inline_height(p) < Len(inline_stack_at_address(p))
<1> DEFINE s == inline_stack_at_address(p)
           K == {k \in 2 .. Len(s) : \A j \in k .. Len(s) : s[j].low = p}
<1>1. Len(s) \in Nat /\ (s # <<>> => Len(s) > 0)
  <2>1. PICK S : s \in Seq(S)
    BY InlineStack
  <2> HIDE DEF s
  <2> QED
    BY <2>1
<1>2. reset_inline_height(p) = Cardinality(K)
  BY Zenon DEF reset_inline_height
<1>3. K \subseteq 2 .. Len(s)
  OBVIOUS
<1> HIDE DEF K, s
<1>4. IsFiniteSet(2 .. Len(s)) /\ Cardinality(2 .. Len(s)) = IF 2 > Len(s) THEN 0 ELSE Len(s) - 2 + 1
  BY <1>1, FS_Interval
<1>5. Cardinality(K) \in Nat /\ Cardinality(K) <= Cardinality(2 .. Len(s))
  BY <1>3, <1>4, FS_Subset, FS_CardinalityType
<1>6. s # <<>> => Cardinality(K) < Len(s)
  BY <1>1, <1>4, <1>5
<1> QED
  BY <1>1, <1>2, <1>5, <1>6 DEF s

\* There are more frames than calls that are not entered yet.
LEMMA EnoughFrames ==
    ASSUME NEW p, NEW c, Len(c) \in Nat
    PROVE  /\ unwind_frames(p, c) \in Seq({p} \cup {c[k] : k \in 1 .. Len(c)})
           /\ Len(unwind_frames(p, c)) \in Nat
           /\ unwind_frames(p, c) # <<>> => reset_inline_height(p) < Len(unwind_frames(p, c))
<1> DEFINE ret(k) == IF k = 0 THEN p ELSE c[k]
           at(k) == inline_stack_at_address(IF k = 0 THEN p ELSE c[k] - 1)
           known == {k \in 0 .. Len(c) : \A j \in 0 .. k : at(j) # <<>>}
           part(k) == [i \in 1 .. Len(at(k - 1)) |-> ret(k - 1)]
           seqs == [k \in 1 .. Cardinality(known) |-> part(k)]
<1>1. unwind_frames(p, c) = FlattenSeq(seqs)
  BY Zenon DEF unwind_frames
<1>2. known \subseteq 0 .. Len(c)
  OBVIOUS
<1>3. IsFiniteSet(known)
  <2> HIDE DEF known
  <2>1. IsFiniteSet(0 .. Len(c))
    BY FS_Interval
  <2> QED
    BY <1>2, <2>1, FS_Subset
<1>4. PICK n \in Nat : n = Cardinality(known)
  BY <1>3, FS_CardinalityType
<1>5. n # 0 => at(0) # <<>>
  <2>1. n # 0 => known # {}
    BY <1>4, FS_EmptySet
  <2>2. ASSUME NEW k \in known PROVE at(0) # <<>>
    <3>1. k \in Nat /\ \A j \in 0 .. k : at(j) # <<>>
      <4> HIDE DEF at
      <4> QED
        OBVIOUS
    <3>2. 0 \in 0 .. k
      BY <3>1
    <3> QED
      BY <3>1, <3>2, Zenon
  <2> QED
    BY <2>1, <2>2, Zenon
<1>6. at(0) = inline_stack_at_address(p)
  OBVIOUS
<1>7. \A k : Len(at(k)) \in Nat
  BY HeightBelow
<1> DEFINE S == {ret(k - 1) : k \in 1 .. n}
<1>8. ASSUME NEW k \in 1 .. n PROVE part(k) \in Seq(S) /\ Len(part(k)) = Len(at(k - 1))
  <2>1. ret(k - 1) \in S
    OBVIOUS
  <2>2. Len(at(k - 1)) \in Nat
    BY <1>7
  <2> HIDE DEF S, ret, at
  <2> QED
    BY <2>1, <2>2
<1>9. seqs \in Seq(Seq(S)) /\ Len(seqs) = n /\ (n # 0 => seqs[1] = part(1))
  <2>1. seqs = [k \in 1 .. n |-> part(k)]
    BY <1>4
  <2> HIDE DEF seqs, part, S
  <2> QED
    BY <1>8, <2>1
<1>10. n # 0 => Len(part(1)) = Len(at(0))
  <2>1. n # 0 => 1 \in 1 .. n
    OBVIOUS
  <2>2. 1 - 1 = 0
    OBVIOUS
  <2> HIDE DEF part, at, S
  <2> QED
    BY <1>8, <2>1, <2>2
<1> DEFINE T == {p} \cup {c[k] : k \in 1 .. Len(c)}
<1>11. S \subseteq T
  <2>1. IsFiniteSet(0 .. Len(c)) /\ Cardinality(0 .. Len(c)) = Len(c) + 1
    BY FS_Interval
  <2>2. n <= Len(c) + 1
    <3> HIDE DEF known
    <3> QED
      BY <1>2, <1>4, <2>1, FS_Subset
  <2>3. ASSUME NEW k \in 1 .. n PROVE ret(k - 1) \in T
    <3>1. k - 1 = 0 \/ k - 1 \in 1 .. Len(c)
      BY <2>2
    <3> QED
      BY <3>1
  <2> HIDE DEF ret, T
  <2> QED
    BY <2>3
<1> HIDE DEF seqs, part, at, ret, known, S, T
<1>12. CASE n = 0
  <2>1. seqs = <<>> /\ FlattenSeq(seqs) = seqs
    BY <1>9, <1>12 DEF FlattenSeq
  <2>2. unwind_frames(p, c) = <<>>
    BY <1>1, <2>1
  <2>3. <<>> \in Seq(T) /\ Len(<<>>) \in Nat
    OBVIOUS
  <2> QED
    BY <2>2, <2>3, Zenon DEF T
<1>13. CASE n # 0
  <2>1. FlattenSeq(seqs) \in Seq(S) /\ Len(FlattenSeq(seqs)) >= Len(seqs[1])
    BY <1>9, <1>13, FlattenedLength
  <2>2. Len(FlattenSeq(seqs)) \in Nat
    BY <2>1
  <2>3. reset_inline_height(p) \in Nat /\ reset_inline_height(p) < Len(at(0)) /\ Len(at(0)) \in Nat
    BY <1>5, <1>6, <1>7, <1>13, HeightBelow
  <2>4. Len(seqs[1]) = Len(at(0))
    BY <1>9, <1>10, <1>13
  <2>5. FlattenSeq(seqs) \in Seq(T)
    BY <2>1, <1>11
  <2> QED
    BY <1>1, <2>1, <2>2, <2>3, <2>4, <2>5 DEF T
<1> QED
  BY <1>12, <1>13

\* The selected frame at the prompt, where a stepping loop goes on and where the
\* inferior has just been stopped.
HeightInv ==
    phase \in {"prompt", "stepping"} /\ ~stale =>
        /\ inline_height \in Nat /\ current_frame \in Nat
        /\ inline_height <= reset_inline_height(pc)
        /\ frames # <<>> => inline_height <= current_frame /\ current_frame < Len(frames)

LEMMA UnwoundHeight ==
    ASSUME unwind(pc', calls', FALSE), Len(calls') \in Nat
    PROVE  HeightInv'
<1>1. /\ frames' = unwind_frames(pc', calls')
      /\ inline_height' = reset_inline_height(pc') /\ current_frame' = reset_inline_height(pc')
  BY DEF unwind
<1>2. reset_inline_height(pc') \in Nat
  BY HeightBelow
<1>3. unwind_frames(pc', calls') # <<>> => reset_inline_height(pc') < Len(unwind_frames(pc', calls'))
  BY EnoughFrames
<1>4. /\ inline_height' \in Nat /\ current_frame' \in Nat
      /\ inline_height' <= reset_inline_height(pc')
      /\ frames' # <<>> => inline_height' <= current_frame' /\ current_frame' < Len(frames')
  BY <1>1, <1>2, <1>3
<1> QED
  BY <1>4, Zenon DEF HeightInv, reset_inline_height, inline_stack_at_address

LEMMA HeightMoves ==
    ASSUME pc' = pc, frames' = frames, stale' = stale,
           phase' \in {"prompt", "stepping"} /\ ~stale =>
             /\ inline_height' \in Nat /\ current_frame' \in Nat
             /\ inline_height' <= reset_inline_height(pc)
             /\ frames # <<>> => inline_height' <= current_frame' /\ current_frame' < Len(frames)
    PROVE  HeightInv'
<1>1. phase' \in {"prompt", "stepping"} /\ ~stale' =>
        /\ inline_height' \in Nat /\ current_frame' \in Nat
        /\ inline_height' <= reset_inline_height(pc')
        /\ frames' # <<>> => inline_height' <= current_frame' /\ current_frame' < Len(frames')
  OBVIOUS
<1> QED
  BY <1>1, Zenon DEF HeightInv, reset_inline_height, inline_stack_at_address

LEMMA HeightStep ==
    ASSUME InferiorInv, InferiorInv', FramesMatch, HeightInv, [Next]_vars
    PROVE  HeightInv'
<1>1. CASE phase' \notin {"prompt", "stepping"} \/ stale' = TRUE
  BY <1>1 DEF HeightInv
<1>2. CASE phase \in {"prompt", "stepping"} /\ UNCHANGED <<pc, stack>>
  <2>1. UNCHANGED <<pc, frames, inline_height, current_frame, stale>>
    BY <1>2 DEF stack
  <2> QED
    BY <1>2, <2>1, HeightMoves DEF HeightInv
<1>3. CASE unwind(pc', calls', FALSE)
  <2>1. CASE phase' \in {"prompt", "stepping"}
    <3>1. Len(calls') \in Nat
      BY <2>1 DEF InferiorInv
    <3> QED
      BY <1>3, <3>1, UnwoundHeight
  <2> QED
    BY <1>1, <2>1
<1>4. ASSUME phase = "prompt", stale # TRUE, UNCHANGED <<pc, frames, stale>>,
             \/ /\ current_frame + 1 < Len(frames) /\ current_frame' = current_frame + 1
                /\ inline_height' = inline_height
             \/ /\ current_frame > inline_height /\ current_frame' = current_frame - 1
                /\ inline_height' = inline_height
             \/ inline_height > 0 /\ inline_height' = inline_height - 1 /\ current_frame' = inline_height - 1
      PROVE  HeightInv'
  <2>1. Len(calls) \in Nat
    BY <1>4 DEF InferiorInv
  <2>2. /\ ~stale
        /\ inline_height \in Nat /\ current_frame \in Nat
        /\ inline_height <= reset_inline_height(pc)
        /\ frames # <<>> => inline_height <= current_frame /\ current_frame < Len(frames)
        /\ frames = unwind_frames(pc, calls)
    <3>1. ~stale
      BY <1>4
    <3> QED
      BY <1>4, <3>1, Zenon DEF HeightInv, FramesMatch
  <2>3. Len(frames) \in Nat /\ reset_inline_height(pc) \in Nat
    BY <2>1, <2>2, EnoughFrames, HeightBelow
  <2>4. /\ inline_height' \in Nat /\ current_frame' \in Nat
        /\ inline_height' <= reset_inline_height(pc)
        /\ frames # <<>> => inline_height' <= current_frame' /\ current_frame' < Len(frames)
    BY <1>4, <2>2, <2>3
  <2> QED
    BY <1>4, <2>4, HeightMoves
<1>5. CASE Commands
  <2>1. phase = "prompt"
    BY <1>5 DEF Commands, SetSite, up, down, Continue, step_in, step_over, step_out, inferior_call
  <2>2. \/ phase' \in {"resume", "undefined"}
        \/ UNCHANGED <<pc, stack>>
        \/ /\ UNCHANGED <<pc, frames, stale>>
           /\ \/ /\ current_frame + 1 < Len(frames) /\ current_frame' = current_frame + 1
                 /\ inline_height' = inline_height
              \/ /\ current_frame > inline_height /\ current_frame' = current_frame - 1
                 /\ inline_height' = inline_height
              \/ inline_height > 0 /\ inline_height' = inline_height - 1 /\ current_frame' = inline_height - 1
    BY <1>5, Zenon DEF Commands, SetSite, up, down, Continue, step_in, step_over, step_out, inferior_call,
                simulate_inlined_step_in, run_until_address
  <2>3. stale = TRUE /\ stale' = stale => HeightInv'
    BY <1>1
  <2> QED
    BY <1>1, <1>2, <1>4, <2>1, <2>2, <2>3
<1>6. CASE StepLoop
  <2>1. \/ phase' = "exited"
        \/ \E to \in Execute(pc, calls) : Move(to) /\ unwind(to.pc, to.calls, FALSE)
    BY <1>6, Zenon DEF StepLoop, Exited
  <2> QED
    BY <2>1, <1>1, <1>3 DEF Move, unwind
<1>7. CASE StepOverCall \/ Resume \/ ResumeInterrupted \/ Run
  <2>1. phase' \in {"undefined", "resume", "running", "exited"}
    BY <1>7 DEF StepOverCall, run_until_address, Resume, ResumeInterrupted, Run, Exited
  <2> QED
    BY <2>1, <1>1
<1>8. CASE Trap \/ Interrupt
  <2>1. PICK r : Stopped(r) \/ CallStopped(r)
    BY <1>8 DEF Trap, Interrupt
  <2>2. CASE Stopped(r)
    BY <2>2, <1>3 DEF Stopped, unwind, inferior
  <2>3. CASE CallStopped(r)
    BY <2>3, <1>1, <1>3 DEF CallStopped, unwind
  <2> QED
    BY <2>1, <2>2, <2>3
<1>9. CASE StepInterrupted
  BY <1>9, <1>3 DEF StepInterrupted, unwind
<1>10. CASE UNCHANGED vars
  BY <1>10, <1>1, <1>2 DEF vars, stack
<1>11. CASE Throws
  BY <1>11, <1>1, ThrowStale
<1> QED
  BY <1>5, <1>6, <1>7, <1>8, <1>9, <1>10, <1>11 DEF Next, Progress

LEMMA HeightHolds == Spec => []HeightInv
<1>1. Init => HeightInv
  <2> SUFFICES ASSUME Init PROVE HeightInv
    OBVIOUS
  <2>1. /\ pc = Main /\ frames = unwind_frames(pc, calls) /\ Len(calls) \in Nat
        /\ inline_height = reset_inline_height(pc) /\ current_frame = inline_height
    BY DEF Init
  <2>2. reset_inline_height(pc) \in Nat /\ (frames # <<>> => reset_inline_height(pc) < Len(frames))
    BY <2>1, EnoughFrames, HeightBelow
  <2> QED
    BY <2>1, <2>2 DEF HeightInv
<1>2. (SteppingInv /\ InferiorInv) /\ (SteppingInv /\ InferiorInv)' /\ FramesMatch /\ HeightInv /\ [Next]_vars
        => HeightInv'
  BY HeightStep
<1> QED
  BY <1>1, <1>2, SteppingInvHolds, FramesUnwound, PTL DEF Spec

\* At the prompt the frames are those of the program's state, the inlined calls
\* that are not entered yet are calls that begin here, and the selected frame
\* is one of the frames and none of theirs, however up, down and the steps
\* into inlined calls follow one another; until the next stop, that is, if the
\* last was a call's that did not come back or one whose reload threw.
THEOREM FramesStayFresh == Spec => []FramesFresh
<1>1. FramesMatch /\ HeightInv => FramesFresh
  BY DEF FramesMatch, HeightInv, FramesFresh
<1> QED
  BY <1>1, FramesUnwound, HeightHolds, PTL

-----------------------------------------------------------------------------
(* Types, for a program that is well described. *)

\* The k-th level of the inline stack.
LEMMA LevelIs ==
    ASSUME WellDescribed, NEW a \in Address, NEW s, s = inline_stack_at_address(a), NEW k \in 1 .. Len(s)
    PROVE  s[k] \in Dies /\ s[k].depth = k - 1 /\ s[k].low <= a /\ a < s[k].high
<1> DEFINE around == {d \in Dies : d.low <= a /\ a < d.high}
<1>1. IsFiniteSet(around)
  <2>1. around \subseteq Dies
    OBVIOUS
  <2> QED
    BY <2>1, SteppingAssumption, FS_Subset
<1>2. PICK n \in Nat : n = Cardinality(around)
  BY <1>1, FS_CardinalityType
<1>3. s = [i \in 1 .. n |-> CHOOSE d \in around : d.depth = i - 1]
  BY <1>2, Zenon DEF inline_stack_at_address
<1>4. \E d \in around : d.depth = k - 1
  <2>1. Len(s) = n
    <3> HIDE DEF around
    <3> QED
      BY <1>3
  <2>2. k \in 1 .. Cardinality(around)
    BY <1>2, <2>1
  <2> QED
    BY <2>2, Zenon DEF WellDescribed
<1>5. s[k] = CHOOSE d \in around : d.depth = k - 1
  <2> HIDE DEF around
  <2>1. Len(s) = n
    BY <1>3
  <2> QED
    BY <1>3, <2>1, Zenon
<1>6. s[k] \in around /\ s[k].depth = k - 1
  BY <1>4, <1>5, Zenon
<1> QED
  BY <1>6, Zenon

LEMMA Unwound ==
    ASSUME NEW p \in Address, NEW c \in Seq(Address), NEW b \in BOOLEAN, unwind(p, c, b)
    PROVE  frames' \in Seq(Address) /\ inline_height' \in Nat /\ current_frame' \in Nat /\ stale' \in BOOLEAN
<1>1. unwind_frames(p, c) \in Seq({p} \cup {c[k] : k \in 1 .. Len(c)})
  BY EnoughFrames
<1>2. {p} \cup {c[k] : k \in 1 .. Len(c)} \subseteq Address
  OBVIOUS
<1>3. unwind_frames(p, c) \in Seq(Address)
  <2> DEFINE T == {p} \cup {c[k] : k \in 1 .. Len(c)}
  <2>1. T \subseteq Address /\ unwind_frames(p, c) \in Seq(T)
    BY <1>1, <1>2, Zenon
  <2> HIDE DEF T
  <2> QED
    BY <2>1
<1> QED
  BY <1>3, HeightBelow, Zenon DEF unwind

StackTyped ==
    /\ frames \in Seq(Address) /\ inline_height \in Nat /\ current_frame \in Nat
    /\ stale \in BOOLEAN

\* The frames are made by unwind, and up, down and the steps into inlined calls
\* do not take the selection below zero.
LEMMA StackTypedStep ==
    ASSUME InferiorInv, StackTyped, [Next]_vars
    PROVE  StackTyped'
<1>1. CASE UNCHANGED stack
  BY <1>1 DEF stack, StackTyped
<1>2. CASE \E p \in Address, c \in Seq(Address), b \in BOOLEAN : unwind(p, c, b)
  BY <1>2, Unwound DEF StackTyped
<1>3. CASE Commands
  <2>1. \/ UNCHANGED stack
        \/ /\ UNCHANGED <<frames, stale>>
           /\ \/ current_frame' = current_frame + 1 /\ UNCHANGED inline_height
              \/ current_frame > inline_height /\ current_frame' = current_frame - 1 /\ UNCHANGED inline_height
              \/ inline_height > 0 /\ inline_height' = inline_height - 1 /\ current_frame' = inline_height - 1
    BY <1>3, Zenon DEF Commands, SetSite, up, down, Continue, step_in, step_over, step_out, inferior_call,
                stack, simulate_inlined_step_in
  <2> QED
    BY <1>1, <2>1 DEF StackTyped
<1>4. CASE StepLoop \/ Resume
  <2>1. /\ phase # "exited"
        /\ \/ UNCHANGED stack
           \/ \E to \in Execute(pc, calls) : to # Gone /\ unwind(to.pc, to.calls, FALSE)
    BY <1>4, Zenon DEF StepLoop, Resume, stack
  <2> QED
    BY <1>1, <1>2, <2>1, ExecuteTyped DEF InferiorInv
<1>5. CASE StepOverCall \/ Run \/ UNCHANGED vars
  BY <1>1, <1>5 DEF StepOverCall, Run, vars, stack
<1>6. CASE StepInterrupted \/ ResumeInterrupted
  <2>1. phase # "exited" /\ unwind(pc, calls, FALSE)
    BY <1>6 DEF StepInterrupted, ResumeInterrupted
  <2> QED
    BY <1>2, <2>1 DEF InferiorInv
<1>7. CASE Trap \/ Interrupt
  <2>1. /\ phase = "running"
        /\ \/ \E b \in BOOLEAN : unwind(pc, calls, b)
           \/ cmd.op = "call" /\ unwind(cmd.start[1], cmd.start[2], FALSE)
    BY <1>7 DEF Trap, Interrupt, Stopped, CallStopped
  <2> QED
    BY <1>2, <2>1 DEF InferiorInv
<1>8. CASE Throws
  <2>1. \/ UNCHANGED <<frames, inline_height, current_frame>>
        \/ phase = "running" /\ unwind(pc, calls, TRUE)
    BY <1>8 DEF Throws, StopThrows, CallThrows, CallReturnThrows, StepThrows, Throw
  <2> QED
    BY <1>2, <1>8, <2>1, ThrowStale DEF InferiorInv, StackTyped
<1> QED
  BY <1>3, <1>4, <1>5, <1>6, <1>7, <1>8 DEF Next, Progress

\* The end of an inlined call, the place behind a call and the row behind that
\* of a function's entry: where the commands run to.
LEMMA SkipTyped ==
    ASSUME WellDescribed, pc \in Address, inline_height \in Nat, Skips,
           inline_height <= Len(inline_stack_at_address(pc))
    PROVE  skip_target \in Address
<1>1. PICK s : s = inline_stack_at_address(pc)
  OBVIOUS
<1>2. skip_target = IF inline_height > 0 THEN s[Len(s) - inline_height + 1].high ELSE pc + 1
  BY <1>1 DEF skip_target
<1>3. CASE inline_height > 0
  <2>1. Len(s) \in Nat /\ inline_height <= Len(s)
    BY <1>1, HeightBelow
  <2>2. Len(s) - inline_height + 1 \in 1 .. Len(s)
    BY <1>3, <2>1
  <2>3. s[Len(s) - inline_height + 1] \in Dies
    BY <1>1, <2>2, LevelIs
  <2> QED
    BY <1>2, <1>3, <2>3 DEF WellDescribed
<1>4. CASE ~(inline_height > 0)
  BY <1>2, <1>4, SteppingAssumption DEF Skips
<1> QED
  BY <1>3, <1>4

LEMMA PrologueTyped ==
    ASSUME WellDescribed, NEW p \in Address, inline_stack_at_address(p) # <<>>,
           inline_stack_at_address(p)[1].low = p, line_entry(p) # 0
    PROVE  Rows[line_entry(p) + 1].address \in Address
<1>1. PICK s : s = inline_stack_at_address(p)
  OBVIOUS
<1>2. 1 \in 1 .. Len(s)
  <2>1. PICK S : s \in Seq(S)
    BY <1>1, InlineStack
  <2> QED
    BY <1>1, <2>1
<1>3. s[1] \in Dies /\ s[1].depth = 0 /\ s[1].low = p
  BY <1>1, <1>2, LevelIs
<1> QED
  BY <1>3 DEF WellDescribed

LEMMA StepOutTyped ==
    ASSUME WellDescribed, StackTyped, pc \in Address, step_out
    PROVE  /\ cmd'.op \in {"finish", "finish_inline"} /\ cmd'.target \in Address \cup {0}
           /\ cmd'.own => cmd'.target \in Address
           /\ phase' \in {"resume", "undefined"} /\ UNCHANGED reason
<1>1. PICK s : s = inline_stack_at_address(pc)
  OBVIOUS
<1>2. PICK k : k = Command("finish")
  OBVIOUS
<1>3. PICK c : c = [k EXCEPT !.frames = Len(frames) - inline_height]
  OBVIOUS
<1>4. PICK i : i = [c EXCEPT !.op = "finish_inline"]
  OBVIOUS
<1>5. /\ UNCHANGED reason
      /\ \/ /\ Len(s) > 1 /\ inline_height < Len(s) - 1
            /\ run_until_address(s[Len(s) - inline_height].high, i)
         \/ phase' = "undefined" /\ cmd' = c
         \/ ~(current_frame + 2 > Len(frames)) /\ run_until_address(frames[current_frame + 2], c)
  BY <1>1, <1>2, <1>3, <1>4, Zenon DEF step_out
<1>6. k = AsCommand(k) /\ k.op = "finish" /\ k.target = 0 /\ k.own = FALSE
  <2>1. k = AsCommand(k) /\ k.op = "finish" /\ k.own = FALSE
    BY <1>2, CommandFields DEF IsCommand
  <2>2. k.target = 0
    BY <1>2 DEF Command, NoCommand
  <2> QED
    BY <2>1, <2>2
<1>7. c = AsCommand(c) /\ c.op = "finish" /\ c.target = 0 /\ c.own = FALSE
  BY <1>3, <1>6
<1>8. i = AsCommand(i) /\ i.op = "finish_inline"
  BY <1>4, <1>7
<1>9. CASE /\ Len(s) > 1 /\ inline_height < Len(s) - 1
           /\ run_until_address(s[Len(s) - inline_height].high, i)
  <2>1. Len(s) \in Nat /\ inline_height \in Nat
    BY <1>1, HeightBelow DEF StackTyped
  <2>2. Len(s) - inline_height \in 1 .. Len(s)
    BY <1>9, <2>1
  <2>3. s[Len(s) - inline_height] \in Dies
    BY <1>1, <2>2, LevelIs
  <2>4. s[Len(s) - inline_height].high \in Address
    BY <2>3 DEF WellDescribed
  <2> QED
    BY <1>5, <1>8, <1>9, <2>4 DEF run_until_address
<1>10. CASE ~(current_frame + 2 > Len(frames)) /\ run_until_address(frames[current_frame + 2], c)
  <2>1. frames[current_frame + 2] \in Address
    BY <1>10 DEF StackTyped
  <2> QED
    BY <1>5, <1>7, <1>10, <2>1 DEF run_until_address
<1>11. CASE phase' = "undefined" /\ cmd' = c
  BY <1>5, <1>7, <1>11
<1> QED
  BY <1>5, <1>9, <1>10, <1>11

\* run_until_address to an address of the code.
LEMMA RunTyped ==
    ASSUME NEW address \in Address, NEW c, IsCommand(c), run_until_address(address, c)
    PROVE  cmd'.op = c.op /\ cmd'.target \in Address /\ phase' = "resume"
BY DEF run_until_address, IsCommand

ControlTyped ==
    /\ phase \in {"prompt", "stepping", "resume", "running", "failed", "exited", "undefined"}
    /\ cmd.op \in {"none", "continue", "step", "next", "finish", "finish_inline", "call"}
    /\ cmd.target \in Address \cup {0} /\ (cmd.own => cmd.target \in Address)
    /\ reason \in {"single_step", "software_break", "interrupt", "returned", "exited", "error"}

LEMMA ControlTypedStep ==
    ASSUME WellDescribed, SteppingInv, InferiorInv, StackTyped, ControlTyped, [Next]_vars
    PROVE  ControlTyped'
<1>1. CASE Continue \/ step_in \/ step_over
  <2>1. PICK op \in {"continue", "step", "next"} :
          /\ cmd' = Command(op) /\ phase' \in {"prompt", "stepping", "resume"}
          /\ reason' \in {reason, "single_step"}
    BY <1>1 DEF Continue, step_in, step_over, Return
  <2>2. cmd'.op = op /\ cmd'.own = FALSE
    BY <2>1, CommandFields
  <2>3. cmd'.target = 0
    BY <2>1 DEF Command, NoCommand
  <2> QED
    BY <2>1, <2>2, <2>3 DEF ControlTyped
<1>2. CASE step_out
  <2>1. pc \in Address
    BY <1>2 DEF step_out, InferiorInv
  <2> QED
    BY <1>2, <2>1, StepOutTyped DEF ControlTyped
<1>3. CASE \E f \in Callable : inferior_call(f)
  <2>1. /\ phase' = "resume" /\ UNCHANGED reason
        /\ \E from : cmd' = [Command("call") EXCEPT !.from = from, !.target = Main,
                                                    !.own = sites[Main] = "none", !.was = sites[Main]]
    BY <1>3 DEF inferior_call
  <2>2. PICK k : k = Command("call")
    OBVIOUS
  <2>3. k = AsCommand(k) /\ k.op = "call"
    BY <2>2, CommandFields DEF IsCommand
  <2>4. cmd'.op = "call" /\ cmd'.target = Main
    BY <2>1, <2>2, <2>3
  <2> QED
    BY <2>1, <2>4, SteppingAssumption DEF ControlTyped
<1>4. CASE (\E a \in Breakable, s \in State : SetSite(a, s)) \/ up \/ down \/ UNCHANGED vars
  BY <1>4 DEF SetSite, up, down, vars, ControlTyped
<1>5. CASE StepLoop
  <2>1. PICK to \in Execute(pc, calls) :
          \/ phase' \in {"exited", "prompt", "stepping"} /\ UNCHANGED cmd
             /\ reason' \in {reason, "exited", "software_break", "single_step"}
          \/ to # Gone /\ after_step_in(to.pc)
    BY <1>5, Zenon DEF StepLoop, Exited, Return, Landed
  <2>2. CASE to # Gone /\ after_step_in(to.pc)
    <3>1. to.pc \in Address
      BY <1>5, <2>2, ExecuteTyped DEF StepLoop, InferiorInv
    <3>2. \/ phase' = "prompt" /\ reason' = "single_step" /\ UNCHANGED cmd
          \/ /\ inline_stack_at_address(to.pc) # <<>> /\ inline_stack_at_address(to.pc)[1].low = to.pc
             /\ line_entry(to.pc) # 0 /\ UNCHANGED reason
             /\ run_until_address(Rows[line_entry(to.pc) + 1].address, cmd)
      BY <2>2, Zenon DEF after_step_in, Return
    <3>3. IsCommand(cmd)
      BY DEF SteppingInv, CommandInv
    <3> QED
      BY <3>1, <3>2, <3>3, PrologueTyped, RunTyped DEF ControlTyped
  <2> QED
    BY <1>5, <2>1, <2>2 DEF ControlTyped
<1>6. CASE StepOverCall
  <2>1. phase = "stepping" /\ Skips /\ UNCHANGED reason
    BY <1>6 DEF StepOverCall
  <2>2. IsCommand(cmd) /\ pc \in Address /\ inline_height \in Nat
    BY <2>1 DEF SteppingInv, CommandInv, InferiorInv, StackTyped
  <2>3. Len(inline_stack_at_address(pc)) \in Nat
    BY HeightBelow
  <2>4. CASE inline_height > Len(inline_stack_at_address(pc))
    BY <1>6, <2>4 DEF StepOverCall, ControlTyped
  <2>5. CASE ~(inline_height > Len(inline_stack_at_address(pc)))
    <3>1. inline_height <= Len(inline_stack_at_address(pc))
      BY <2>2, <2>3, <2>5
    <3>2. skip_target \in Address
      BY <2>1, <2>2, <3>1, SkipTyped
    <3>3. run_until_address(skip_target, cmd)
      BY <1>6, <2>5 DEF StepOverCall
    <3> QED
      BY <2>1, <2>2, <3>2, <3>3, RunTyped DEF ControlTyped
  <2> QED
    BY <2>4, <2>5
<1>7. CASE Resume \/ Run \/ StepInterrupted \/ ResumeInterrupted
  BY <1>7 DEF Resume, Run, StepInterrupted, ResumeInterrupted, Exited, Return, ControlTyped
<1>8. CASE Trap \/ Interrupt
  <2>1. PICK r \in {"software_break", "interrupt"} : Stopped(r) \/ CallStopped(r)
    BY <1>8 DEF Trap, Interrupt
  <2>2. UNCHANGED cmd /\ phase' \in {"stepping", "resume", "prompt"}
    BY <2>1 DEF Stopped, CallStopped, Return
  <2>3. reason' \in {reason, r, "single_step", "returned", "error"}
    BY <2>1 DEF Stopped, CallStopped, Return
  <2> QED
    BY <2>2, <2>3 DEF ControlTyped
<1>9. CASE Throws
  <2>1. UNCHANGED cmd /\ reason' = "error" /\ phase' \in {"prompt", "failed", "undefined"}
    BY <1>9 DEF Throws, StopThrows, CallThrows, CallReturnThrows, StepThrows, Throw
  <2> QED
    BY <2>1 DEF ControlTyped
<1> QED
  BY <1>1, <1>2, <1>3, <1>4, <1>5, <1>6, <1>7, <1>8, <1>9 DEF Next, Commands, Progress, State

\* What is left behind is code, and counted.
ThrowsTyped == left \subseteq Address /\ throws \in 0 .. MaxThrows

LEMMA ThrowsTypedStep ==
    ASSUME ControlTyped, ThrowsTyped, [Next]_vars
    PROVE  ThrowsTyped'
<1>1. CASE UNCHANGED <<left, throws>>
  BY <1>1 DEF ThrowsTyped
<1>2. CASE Throws
  <2>1. throws < MaxThrows /\ throws' = throws + 1
    BY <1>2 DEF Throws, StopThrows, CallThrows, CallReturnThrows, StepThrows, Throw
  <2>2. left' \subseteq Address
    <3>1. CASE StopThrows
      BY <3>1 DEF StopThrows, ControlTyped, ThrowsTyped
    <3>2. CASE CallThrows \/ CallReturnThrows
      BY <3>2 DEF CallThrows, CallReturnThrows, ThrowsTyped
    <3>3. CASE StepThrows
      <4>1. left' = left \cup {a \in Address \cap {pc, cmd.target} : sites'[a] # user[a]}
        BY <3>3 DEF StepThrows
      <4> QED
        BY <4>1 DEF ThrowsTyped
    <3> QED
      BY <1>2, <3>1, <3>2, <3>3 DEF Throws
  <2> QED
    BY <2>1, <2>2, SteppingAssumption DEF ThrowsTyped
<1>3. CASE UNCHANGED vars
  BY <1>1, <1>3 DEF vars
<1>4. CASE Commands
  BY <1>1, <1>4 DEF Commands, SetSite, up, down, Continue, step_in, step_over, step_out, inferior_call
<1>5. CASE Progress \/ StepInterrupted \/ ResumeInterrupted \/ Interrupt
  BY <1>1, <1>5 DEF Progress, StepLoop, StepOverCall, Resume, Run, Trap, StepInterrupted, ResumeInterrupted, Interrupt
<1> QED
  BY <1>2, <1>3, <1>4, <1>5 DEF Next

\* The inferior is in its code, or gone.
InferiorTyped == pc \in Address \cup {0} /\ calls \in Seq(Address)

LEMMA InferiorTypedStep ==
    ASSUME InferiorInv', InferiorTyped, [Next]_vars
    PROVE  InferiorTyped'
<1>1. CASE phase' # "exited"
  BY <1>1 DEF InferiorInv, InferiorTyped
<1>2. CASE phase' = "exited"
  <2>1. \/ UNCHANGED <<pc, calls>>
        \/ pc' = Gone.pc /\ calls' = Gone.calls
    <3>1. CASE Commands
      BY <1>2, <3>1 DEF Commands, SetSite, up, down, Continue, step_in, step_over, step_out, inferior_call,
                        run_until_address, Return
    <3>2. CASE StepLoop
      BY <1>2, <3>2, Zenon DEF StepLoop, after_step_in, run_until_address, Return, Move
    <3>3. CASE Resume \/ Run
      BY <1>2, <3>3, Zenon DEF Resume, Run, Move
    <3>4. CASE StepOverCall \/ StepInterrupted \/ ResumeInterrupted
      BY <3>4 DEF StepOverCall, StepInterrupted, ResumeInterrupted
    <3>5. CASE Trap \/ Interrupt
      BY <1>2, <3>5 DEF Trap, Interrupt, Stopped, CallStopped, Return, inferior
    <3>6. CASE UNCHANGED vars
      BY <3>6 DEF vars
    <3>7. CASE Throws
      BY <1>2, <3>7 DEF Throws, StopThrows, CallThrows, CallReturnThrows, StepThrows
    <3> QED
      BY <3>1, <3>2, <3>3, <3>4, <3>5, <3>6, <3>7 DEF Next, Progress
  <2>2. Gone.pc = 0 /\ Gone.calls = <<>>
    BY DEF Gone
  <2>3. <<>> \in Seq(Address)
    OBVIOUS
  <2> QED
    BY <2>1, <2>2, <2>3 DEF InferiorTyped
<1> QED
  BY <1>1, <1>2

LEMMA StackTypedHolds == Spec => []StackTyped
<1>1. Init => StackTyped
  <2> SUFFICES ASSUME Init PROVE StackTyped
    OBVIOUS
  <2>1. Main \in Address
    BY SteppingAssumption
  <2>2. unwind_frames(Main, <<>>) \in Seq(Address) /\ reset_inline_height(Main) \in Nat
    <3>1. unwind_frames(Main, <<>>) \in Seq({Main} \cup {<<>>[k] : k \in 1 .. Len(<<>>)})
      BY EnoughFrames
    <3>2. {Main} \cup {<<>>[k] : k \in 1 .. Len(<<>>)} = {Main}
      OBVIOUS
    <3>3. unwind_frames(Main, <<>>) \in Seq({Main})
      BY <3>1, <3>2, Zenon
    <3> QED
      BY <2>1, <3>3, HeightBelow
  <2> QED
    BY <2>2 DEF Init, StackTyped
<1>2. (SteppingInv /\ InferiorInv) /\ StackTyped /\ [Next]_vars => StackTyped'
  BY StackTypedStep
<1> QED
  BY <1>1, <1>2, SteppingInvHolds, PTL DEF Spec

\* In a program that is well described, every command runs to an address of the
\* code, no frame is selected below the first, and no wait reports anything but
\* the reasons that the commands distinguish.
THEOREM SteppingTyped ==
    ASSUME WellDescribed
    PROVE  Spec => []TypeOK
<1> DEFINE Typed == InferiorTyped /\ ControlTyped /\ ThrowsTyped
<1>1. Init => Typed
  <2> SUFFICES ASSUME Init PROVE Typed
    OBVIOUS
  <2>1. Main \in Address /\ <<>> \in Seq(Address)
    BY SteppingAssumption
  <2>2. cmd.op = "none" /\ cmd.target = 0 /\ cmd.own = FALSE
    BY DEF Init, NoCommand
  <2> QED
    BY <2>1, <2>2, SteppingAssumption DEF Init, InferiorTyped, ControlTyped, ThrowsTyped
<1>2. (SteppingInv /\ InferiorInv) /\ (SteppingInv /\ InferiorInv)' /\ StackTyped /\ Typed /\ [Next]_vars => Typed'
  BY ControlTypedStep, InferiorTypedStep, ThrowsTypedStep
<1>3. (SteppingInv /\ InferiorInv) /\ StackTyped /\ Typed => TypeOK
  BY DEF SteppingInv, SitesInv, State, InferiorTyped, StackTyped, ControlTyped, ThrowsTyped, TypeOK
<1> HIDE DEF Typed
<1> QED
  BY <1>1, <1>2, <1>3, SteppingInvHolds, StackTypedHolds, PTL DEF Spec

-----------------------------------------------------------------------------
(* The call stack, for a program whose functions are separate and recurse     *)
(* only directly.                                                             *)

\* Where the i-th frame goes on, the innermost being the 0th.
At(p, c, i) == IF i = 0 THEN p ELSE c[i]

\* Every return address lies behind a call of the function of the next frame.
Linked(p, c) ==
    \A i \in 1 .. Len(c) : \E b \in Address :
        /\ c[i] = b + 1 /\ Code[b].op = "bl"
        /\ FunctionAt(Code[b].to) = FunctionAt(At(p, c, i - 1))

\* Two frames are of one function, or the inner one's ranks below the outer one's.
Layered(rank, p, c) ==
    \A i, j \in 0 .. Len(c) : i <= j =>
        \/ FunctionAt(At(p, c, i)) = FunctionAt(At(p, c, j))
        \/ rank[FunctionAt(At(p, c, i))] < rank[FunctionAt(At(p, c, j))]

\* Around a call the user makes, it is the stack that will be put back.
StackInv(rank) ==
    phase # "exited" =>
        IF phase \in {"resume", "running"} /\ cmd.op = "call"
          THEN Linked(cmd.start[1], cmd.start[2]) /\ Layered(rank, cmd.start[1], cmd.start[2])
          ELSE Linked(pc, calls) /\ Layered(rank, pc, calls)

\* An instruction stays in its frame, makes one or leaves it.
LEMMA Executes ==
    ASSUME NEW p \in Address, NEW c \in Seq(Address), NEW to \in Execute(p, c), to # Gone
    PROVE  \/ /\ Code[p].op \in {"op", "cbz"} /\ to.calls = c
              /\ \/ to.pc = p + 1
                 \/ Code[p].op = "cbz" /\ to.pc = Code[p].to
           \/ /\ Code[p].op = "bl" /\ to.pc = Code[p].to /\ Len(to.calls) = Len(c) + 1
              /\ to.calls[1] = p + 1 /\ \A i \in 1 .. Len(c) : to.calls[i + 1] = c[i]
           \/ /\ Code[p].op = "ret" /\ Len(c) > 0 /\ Len(to.calls) = Len(c) - 1
              /\ to.pc = c[1] /\ \A i \in 1 .. Len(c) - 1 : to.calls[i] = c[i + 1]
<1>1. Code[p].op \in {"op", "bl", "cbz", "ret"}
  BY SteppingAssumption
<1>2. CASE Code[p].op = "op"
  <2>1. to = [pc |-> p + 1, calls |-> c]
    BY <1>2 DEF Execute
  <2>2. to.pc = p + 1 /\ to.calls = c
    BY <2>1
  <2>3. Code[p].op \in {"op", "cbz"}
    BY <1>2
  <2> QED
    BY <2>2, <2>3, Zenon
<1>3. CASE Code[p].op = "bl"
  <2>1. to = [pc |-> Code[p].to, calls |-> <<p + 1>> \o c]
    BY <1>3 DEF Execute
  <2>2. p + 1 \in Address
    BY <1>3, SteppingAssumption
  <2>3. PICK x : x \in Seq(Address) /\ x = <<p + 1>>
    <3>1. <<p + 1>> \in Seq(Address)
      BY <2>2
    <3> QED
      BY <3>1
  <2>4. Len(x) = 1 /\ x[1] = p + 1 /\ to.calls = x \o c /\ to.pc = Code[p].to
    BY <2>1, <2>3
  <2>5. Len(x \o c) = Len(c) + 1 /\ (x \o c)[1] = p + 1 /\ \A i \in 1 .. Len(c) : (x \o c)[i + 1] = c[i]
    BY <2>3, <2>4
  <2> QED
    BY <1>3, <2>4, <2>5
<1>4. CASE Code[p].op = "ret"
  <2>1. c # <<>> /\ to = [pc |-> Head(c), calls |-> Tail(c)]
    BY <1>4 DEF Execute
  <2>2. Len(c) > 0 /\ Head(c) = c[1] /\ Len(Tail(c)) = Len(c) - 1
        /\ \A i \in 1 .. Len(c) - 1 : Tail(c)[i] = c[i + 1]
    BY <2>1
  <2> QED
    BY <1>4, <2>1, <2>2
<1>5. CASE Code[p].op = "cbz"
  <2>1. PICK q \in {Code[p].to, p + 1} : to = [pc |-> q, calls |-> c]
    BY <1>5 DEF Execute
  <2>2. to.pc = q /\ to.calls = c
    BY <2>1
  <2>3. Code[p].op \in {"op", "cbz"} /\ (q = p + 1 \/ q = Code[p].to)
    BY <1>5, <2>1
  <2> QED
    BY <1>5, <2>2, <2>3, Zenon
<1> QED
  BY <1>1, <1>2, <1>3, <1>4, <1>5

LEMMA AtTyped ==
    ASSUME NEW p \in Address, NEW c \in Seq(Address), NEW i \in 0 .. Len(c)
    PROVE  At(p, c, i) \in Address
BY DEF At

\* The functions of the frames after an instruction.
LEMMA FunctionsAfter ==
    ASSUME Separate, NEW p \in Address, NEW c \in Seq(Address), NEW to \in Execute(p, c), to # Gone
    PROVE  \/ /\ Code[p].op \in {"op", "cbz"} /\ to.calls = c
              /\ \A i \in 0 .. Len(c) : FunctionAt(At(to.pc, to.calls, i)) = FunctionAt(At(p, c, i))
           \/ /\ Code[p].op = "bl" /\ Len(to.calls) = Len(c) + 1 /\ to.pc = Code[p].to
              /\ \A i \in 0 .. Len(c) : FunctionAt(At(to.pc, to.calls, i + 1)) = FunctionAt(At(p, c, i))
           \/ /\ Code[p].op = "ret" /\ Len(c) > 0 /\ Len(to.calls) = Len(c) - 1
              /\ \A i \in 1 .. Len(c) : At(to.pc, to.calls, i - 1) = At(p, c, i)
<1>1. CASE /\ Code[p].op \in {"op", "cbz"} /\ to.calls = c
           /\ \/ to.pc = p + 1
              \/ Code[p].op = "cbz" /\ to.pc = Code[p].to
  <2>1. FunctionAt(to.pc) = FunctionAt(p)
    BY <1>1 DEF Separate
  <2>2. ASSUME NEW i \in 0 .. Len(c) PROVE FunctionAt(At(to.pc, to.calls, i)) = FunctionAt(At(p, c, i))
    BY <1>1, <2>1 DEF At
  <2> QED
    BY <1>1, <2>2
<1>2. CASE /\ Code[p].op = "bl" /\ to.pc = Code[p].to /\ Len(to.calls) = Len(c) + 1
           /\ to.calls[1] = p + 1 /\ \A i \in 1 .. Len(c) : to.calls[i + 1] = c[i]
  <2>1. FunctionAt(p + 1) = FunctionAt(p)
    BY <1>2 DEF Separate
  <2>2. ASSUME NEW i \in 0 .. Len(c) PROVE FunctionAt(At(to.pc, to.calls, i + 1)) = FunctionAt(At(p, c, i))
    <3>1. CASE i = 0
      <4>1. At(to.pc, to.calls, i + 1) = p + 1 /\ At(p, c, i) = p
        BY <1>2, <3>1 DEF At
      <4> QED
        BY <2>1, <4>1
    <3>2. CASE i # 0
      <4>1. At(to.pc, to.calls, i + 1) = At(p, c, i)
        BY <1>2, <3>2 DEF At
      <4> QED
        BY <4>1
    <3> QED
      BY <3>1, <3>2
  <2> QED
    BY <1>2, <2>2
<1>3. CASE /\ Code[p].op = "ret" /\ Len(c) > 0 /\ Len(to.calls) = Len(c) - 1
           /\ to.pc = c[1] /\ \A i \in 1 .. Len(c) - 1 : to.calls[i] = c[i + 1]
  <2>1. ASSUME NEW i \in 1 .. Len(c) PROVE At(to.pc, to.calls, i - 1) = At(p, c, i)
    <3>1. CASE i = 1
      BY <1>3, <3>1 DEF At
    <3>2. CASE i # 1
      <4>1. i - 1 \in 1 .. Len(c) - 1 /\ i - 1 # 0 /\ i # 0 /\ (i - 1) + 1 = i
        BY <3>2
      <4> QED
        BY <1>3, <4>1 DEF At
    <3> QED
      BY <3>1, <3>2
  <2> QED
    BY <1>3, <2>1
<1> QED
  BY <1>1, <1>2, <1>3, Executes

LEMMA StackStep ==
    ASSUME Separate, NEW rank, DirectRecursion(rank),
           NEW p \in Address, NEW c \in Seq(Address), NEW to \in Execute(p, c), to # Gone,
           Linked(p, c), Layered(rank, p, c)
    PROVE  Linked(to.pc, to.calls) /\ Layered(rank, to.pc, to.calls)
<1> DEFINE F(i) == FunctionAt(At(p, c, i))
           G(i) == FunctionAt(At(to.pc, to.calls, i))
<1>1. to.pc \in Address /\ to.calls \in Seq(Address)
  BY ExecuteTyped
<1>2. \A i, j \in 0 .. Len(c) : i <= j => F(i) = F(j) \/ rank[F(i)] < rank[F(j)]
  BY Zenon DEF Layered
<1>3. \A i \in 0 .. Len(c) : rank[F(i)] \in Nat
  BY AtTyped DEF DirectRecursion
<1>4. \A i \in 1 .. Len(c) : \E b \in Address : c[i] = b + 1 /\ Code[b].op = "bl" /\ FunctionAt(Code[b].to) = F(i - 1)
  BY Zenon DEF Linked
<1>5. SUFFICES /\ \A i, j \in 0 .. Len(to.calls) : i <= j => G(i) = G(j) \/ rank[G(i)] < rank[G(j)]
               /\ \A i \in 1 .. Len(to.calls) : \E b \in Address :
                    to.calls[i] = b + 1 /\ Code[b].op = "bl" /\ FunctionAt(Code[b].to) = G(i - 1)
  BY Zenon DEF Linked, Layered
<1>6. CASE /\ to.calls = c
           /\ \A i \in 0 .. Len(c) : G(i) = F(i)
  <2> HIDE DEF F, G
  <2>1. \A i \in 1 .. Len(c) : i - 1 \in 0 .. Len(c)
    OBVIOUS
  <2> QED
    BY <1>2, <1>4, <1>6, <2>1
<1>7. CASE /\ Code[p].op = "bl" /\ Len(to.calls) = Len(c) + 1 /\ to.pc = Code[p].to
           /\ \A i \in 0 .. Len(c) : G(i + 1) = F(i)
  <2>1. /\ G(0) = FunctionAt(Code[p].to) /\ F(0) = FunctionAt(p)
    BY <1>7 DEF At
  <2>2. G(0) = F(0) \/ rank[G(0)] < rank[F(0)]
    BY <1>7, <2>1 DEF DirectRecursion
  <2>3. rank[G(0)] \in Nat
    <3>1. Code[p].to \in Address
      BY <1>1, <1>7
    <3> QED
      BY <2>1, <3>1 DEF DirectRecursion
  <2>4. to.calls[1] = p + 1 /\ \A i \in 1 .. Len(c) : to.calls[i + 1] = c[i]
    BY <1>7, Executes
  <2> HIDE DEF F, G
  <2>5. ASSUME NEW i \in 0 .. Len(to.calls), NEW j \in 0 .. Len(to.calls), i <= j
        PROVE  G(i) = G(j) \/ rank[G(i)] < rank[G(j)]
    <3>1. \A k \in 1 .. Len(to.calls) : k - 1 \in 0 .. Len(c) /\ G(k) = F(k - 1)
      <4>1. \A k \in 1 .. Len(to.calls) : k - 1 \in 0 .. Len(c) /\ (k - 1) + 1 = k
        BY <1>7
      <4> QED
        BY <1>7, <4>1
    <3>2. CASE j = 0
      BY <2>5, <3>2
    <3>3. CASE i = 0 /\ j # 0
      <4>1. j \in 1 .. Len(to.calls)
        BY <3>3
      <4>2. 0 \in 0 .. Len(c) /\ 0 <= j - 1
        BY <4>1
      <4>3. F(0) = F(j - 1) \/ rank[F(0)] < rank[F(j - 1)]
        BY <1>2, <3>1, <4>1, <4>2
      <4>4. rank[F(0)] \in Nat /\ rank[F(j - 1)] \in Nat
        BY <1>3, <3>1, <4>1, <4>2
      <4> QED
        BY <2>2, <2>3, <3>1, <3>3, <4>1, <4>3, <4>4
    <3>4. CASE i # 0 /\ j # 0
      <4>1. i \in 1 .. Len(to.calls) /\ j \in 1 .. Len(to.calls) /\ i - 1 <= j - 1
        BY <2>5, <3>4
      <4> QED
        BY <1>2, <3>1, <4>1
    <3> QED
      BY <3>2, <3>3, <3>4
  <2>6. ASSUME NEW i \in 1 .. Len(to.calls)
        PROVE  \E b \in Address : to.calls[i] = b + 1 /\ Code[b].op = "bl" /\ FunctionAt(Code[b].to) = G(i - 1)
    <3>1. CASE i = 1
      <4>1. to.calls[i] = p + 1 /\ i - 1 = 0
        BY <2>4, <3>1
      <4> QED
        BY <1>7, <2>1, <4>1
    <3>2. CASE i # 1
      <4>1. /\ i - 1 \in 1 .. Len(c) /\ (i - 1) + 1 = i
            /\ (i - 1) - 1 \in 0 .. Len(c) /\ ((i - 1) - 1) + 1 = i - 1
        BY <1>7, <3>2
      <4>2. to.calls[i] = c[i - 1]
        BY <2>4, <4>1
      <4>3. G(i - 1) = F((i - 1) - 1)
        BY <1>7, <4>1
      <4> QED
        BY <1>4, <4>1, <4>2, <4>3
    <3> QED
      BY <3>1, <3>2
  <2> QED
    BY <2>5, <2>6
<1>8. CASE /\ Code[p].op = "ret" /\ Len(c) > 0 /\ Len(to.calls) = Len(c) - 1
           /\ \A i \in 1 .. Len(c) : At(to.pc, to.calls, i - 1) = At(p, c, i)
  <2>1. \A i \in 0 .. Len(to.calls) : i + 1 \in 0 .. Len(c) /\ G(i) = F(i + 1)
    <3>1. ASSUME NEW i \in 0 .. Len(to.calls) PROVE i + 1 \in 1 .. Len(c) /\ (i + 1) - 1 = i
      BY <1>8
    <3>2. ASSUME NEW i \in 0 .. Len(to.calls) PROVE At(to.pc, to.calls, i) = At(p, c, i + 1)
      BY <1>8, <3>1
    <3> QED
      BY <3>1, <3>2
  <2>2. \A i \in 1 .. Len(to.calls) : to.calls[i] = c[i + 1]
    <3>1. \A i \in 1 .. Len(to.calls) : i + 1 \in 1 .. Len(c) /\ (i + 1) - 1 = i /\ i # 0 /\ i + 1 # 0
      BY <1>8
    <3> QED
      BY <1>8, <3>1 DEF At
  <2> HIDE DEF F, G
  <2>3. ASSUME NEW i \in 0 .. Len(to.calls), NEW j \in 0 .. Len(to.calls), i <= j
        PROVE  G(i) = G(j) \/ rank[G(i)] < rank[G(j)]
    <3>1. i + 1 <= j + 1
      BY <2>3
    <3> QED
      BY <1>2, <2>1, <3>1
  <2>4. ASSUME NEW i \in 1 .. Len(to.calls)
        PROVE  \E b \in Address : to.calls[i] = b + 1 /\ Code[b].op = "bl" /\ FunctionAt(Code[b].to) = G(i - 1)
    <3>1. i + 1 \in 1 .. Len(c) /\ (i + 1) - 1 = i /\ i - 1 \in 0 .. Len(to.calls) /\ (i - 1) + 1 = i
      BY <1>8
    <3>2. G(i - 1) = F(i) /\ to.calls[i] = c[i + 1]
      BY <2>1, <2>2, <3>1
    <3> QED
      BY <1>4, <3>1, <3>2
  <2> QED
    BY <2>3, <2>4
<1> QED
  BY <1>6, <1>7, <1>8, FunctionsAfter

\* The stack stays so, over the calls the user makes too.
LEMMA StackInvStep ==
    ASSUME Separate, NEW rank, DirectRecursion(rank), SteppingInv, InferiorInv, StackInv(rank), [Next]_vars
    PROVE  StackInv(rank)'
<1>1. CASE /\ phase # "exited" /\ ~(phase \in {"resume", "running"} /\ cmd.op = "call")
           /\ UNCHANGED <<pc, calls>>
           /\ ~(phase' \in {"resume", "running"} /\ cmd'.op = "call")
  <2>1. Linked(pc, calls) /\ Layered(rank, pc, calls)
    BY <1>1 DEF StackInv
  <2>2. Linked(pc', calls') /\ Layered(rank, pc', calls')
    BY <1>1, <2>1
  <2> QED
    BY <1>1, <2>2 DEF StackInv
<1>2. CASE phase' = "exited"
  BY <1>2 DEF StackInv
<1>3. CASE /\ phase # "exited" /\ ~(phase \in {"resume", "running"} /\ cmd.op = "call")
           /\ ~(phase' \in {"resume", "running"} /\ cmd'.op = "call")
           /\ \E to \in Execute(pc, calls) : to # Gone /\ Move(to)
  <2>1. PICK to \in Execute(pc, calls) : to # Gone /\ Move(to)
    BY <1>3
  <2>2. Linked(pc, calls) /\ Layered(rank, pc, calls) /\ pc \in Address /\ calls \in Seq(Address)
    BY <1>3 DEF StackInv, InferiorInv
  <2>3. Linked(to.pc, to.calls) /\ Layered(rank, to.pc, to.calls)
    BY <2>1, <2>2, StackStep
  <2>4. Linked(pc', calls') /\ Layered(rank, pc', calls')
    BY <2>1, <2>3 DEF Move
  <2> QED
    BY <1>3, <2>4 DEF StackInv
<1>4. CASE /\ phase \in {"resume", "running"} /\ cmd.op = "call" /\ UNCHANGED cmd
           /\ phase' \in {"resume", "running"}
  <2>1. Linked(cmd.start[1], cmd.start[2]) /\ Layered(rank, cmd.start[1], cmd.start[2])
    BY <1>4 DEF StackInv
  <2>2. Linked(cmd'.start[1], cmd'.start[2]) /\ Layered(rank, cmd'.start[1], cmd'.start[2])
    BY <1>4, <2>1
  <2> QED
    BY <1>4, <2>2 DEF StackInv
<1>5. CASE Continue \/ step_in \/ step_over
  <2>1. PICK op \in {"continue", "step", "next"} :
          phase = "prompt" /\ cmd' = Command(op) /\ UNCHANGED <<pc, calls>>
    BY <1>5 DEF Continue, step_in, step_over
  <2>2. cmd'.op = op
    BY <2>1, CommandFields
  <2> QED
    BY <1>1, <2>1, <2>2
<1>6. CASE step_out
  <2>1. phase = "prompt" /\ UNCHANGED <<pc, calls>> /\ cmd'.op # "call"
    BY <1>6, StepOutStep DEF step_out
  <2> QED
    BY <1>1, <2>1
<1>7. CASE \E f \in Callable : inferior_call(f)
  <2>1. /\ phase = "prompt" /\ phase' = "resume"
        /\ \E from : cmd' = [Command("call") EXCEPT !.from = from, !.target = Main,
                                                    !.own = sites[Main] = "none", !.was = sites[Main]]
    BY <1>7 DEF inferior_call
  <2>2. PICK k : k = Command("call")
    OBVIOUS
  <2>3. IsCommand(k) /\ k.op = "call" /\ k.start = <<pc, calls>>
    BY <2>2, CommandFields
  <2>4. cmd'.op = "call" /\ cmd'.start = <<pc, calls>>
    BY <2>1, <2>2, <2>3 DEF IsCommand
  <2>5. cmd'.start[1] = pc /\ cmd'.start[2] = calls
    BY <2>4
  <2>6. Linked(pc, calls) /\ Layered(rank, pc, calls)
    BY <2>1 DEF StackInv
  <2>7. Linked(cmd'.start[1], cmd'.start[2]) /\ Layered(rank, cmd'.start[1], cmd'.start[2])
    BY <2>5, <2>6
  <2> QED
    BY <2>1, <2>4, <2>7 DEF StackInv
<1>8. CASE (\E a \in Breakable, s \in State : SetSite(a, s)) \/ up \/ down
  BY <1>1, <1>8 DEF SetSite, up, down
<1>9. CASE StepLoop
  <2>1. /\ phase = "stepping"
        /\ \/ phase' = "exited"
           \/ \E to \in Execute(pc, calls) : to # Gone /\ Move(to)
    BY <1>9, Zenon DEF StepLoop, Exited
  <2>2. cmd' = cmd \/ (\E address : run_until_address(address, cmd))
    BY <1>9, Zenon DEF StepLoop, after_step_in
  <2>3. cmd'.op # "call"
    <3>1. cmd'.op = cmd.op
      BY <2>2 DEF run_until_address, SteppingInv, CommandInv, IsCommand
    <3> QED
      BY <2>1, <3>1 DEF SteppingInv, CommandInv
  <2> QED
    BY <1>2, <1>3, <2>1, <2>3
<1>10. CASE StepOverCall
  <2>1. UNCHANGED <<pc, calls>> /\ phase = "stepping" /\ (cmd' = cmd \/ run_until_address(skip_target, cmd))
    BY <1>10 DEF StepOverCall
  <2>2. cmd'.op = cmd.op /\ cmd.op # "call"
    BY <1>10, <2>1 DEF StepOverCall, run_until_address, SteppingInv, CommandInv, IsCommand
  <2> QED
    BY <1>1, <2>1, <2>2
<1>11. CASE Resume \/ Run
  <2>1. /\ phase \in {"resume", "running"} /\ UNCHANGED cmd
        /\ \/ phase' = "exited"
           \/ /\ phase' = "running"
              /\ \/ UNCHANGED <<pc, calls>>
                 \/ \E to \in Execute(pc, calls) : to # Gone /\ Move(to)
    BY <1>11, Zenon DEF Resume, Run, Exited
  <2> QED
    BY <1>1, <1>2, <1>3, <1>4, <2>1
<1>12. CASE StepInterrupted \/ ResumeInterrupted
  <2>1. /\ UNCHANGED <<pc, calls, cmd>>
        /\ \/ phase = "stepping" /\ phase' = "prompt"
           \/ phase = "resume" /\ phase' = "running"
    BY <1>12 DEF StepInterrupted, ResumeInterrupted, Return
  <2> QED
    BY <1>1, <1>4, <2>1
<1>13. CASE Trap \/ Interrupt
  <2>1. phase = "running" /\ UNCHANGED cmd /\ \E r : Stopped(r) \/ CallStopped(r)
    BY <1>13 DEF Trap, Interrupt, Stopped, CallStopped
  <2>2. CASE \E r : Stopped(r)
    BY <1>1, <2>1, <2>2 DEF Stopped, inferior
  <2>3. CASE \E r : CallStopped(r)
    <3>1. cmd.op = "call" /\ pc' = cmd.start[1] /\ calls' = cmd.start[2] /\ phase' = "prompt"
      BY <2>3 DEF CallStopped, Return
    <3>2. Linked(cmd.start[1], cmd.start[2]) /\ Layered(rank, cmd.start[1], cmd.start[2])
      BY <2>1, <3>1 DEF StackInv
    <3>3. Linked(pc', calls') /\ Layered(rank, pc', calls')
      BY <3>1, <3>2
    <3> QED
      BY <3>1, <3>3 DEF StackInv
  <2> QED
    BY <2>1, <2>2, <2>3
<1>14. CASE UNCHANGED vars
  BY <1>1, <1>2, <1>4, <1>14 DEF vars
<1>15. CASE StopThrows
  BY <1>1, <1>15 DEF StopThrows
<1>16. ASSUME phase \in {"resume", "running"}, cmd.op = "call", phase' \in {"prompt", "failed", "undefined"},
              pc' = cmd.start[1], calls' = cmd.start[2]
       PROVE  StackInv(rank)'
  <2>1. Linked(cmd.start[1], cmd.start[2]) /\ Layered(rank, cmd.start[1], cmd.start[2])
    BY <1>16 DEF StackInv
  <2>2. Linked(pc', calls') /\ Layered(rank, pc', calls')
    BY <1>16, <2>1
  <2> QED
    BY <1>16, <2>2 DEF StackInv
<1>17. CASE CallThrows \/ CallReturnThrows
  BY <1>16, <1>17 DEF CallThrows, CallReturnThrows
<1>18. CASE StepThrows
  <2>1. /\ phase \in {"stepping", "resume"} /\ phase' = "failed" /\ UNCHANGED cmd
        /\ IF cmd.op = "call" THEN pc' = cmd.start[1] /\ calls' = cmd.start[2]
           ELSE \E to \in Execute(pc, calls) \cup {[pc |-> pc, calls |-> calls]} : to # Gone /\ Move(to)
    BY <1>18, Zenon DEF StepThrows
  <2>2. CASE cmd.op = "call"
    <3>1. phase = "resume"
      BY <2>1, <2>2 DEF SteppingInv, CommandInv
    <3> QED
      BY <1>16, <2>1, <2>2, <3>1
  <2>3. CASE cmd.op # "call"
    <3>1. UNCHANGED <<pc, calls>> \/ \E to \in Execute(pc, calls) : to # Gone /\ Move(to)
      BY <2>1, <2>3 DEF Move
    <3> QED
      BY <1>1, <1>3, <2>1, <2>3, <3>1
  <2> QED
    BY <2>2, <2>3
<1> QED
  BY <1>15, <1>17, <1>18, <1>5, <1>6, <1>7, <1>8, <1>9, <1>10, <1>11, <1>12, <1>13, <1>14 DEF Next, Commands, Progress, Throws, State

-----------------------------------------------------------------------------
(* step_over. *)

\* From frame i outwards there is one of the function next started in, no
\* deeper than the one it started in.
Anchored(p, c, i) ==
    \E j \in i .. Len(c) :
        /\ Len(c) - j <= Len(cmd.start[2])
        /\ FunctionAt(At(p, c, j)) = FunctionAt(cmd.start[1])

\* A frame that next runs over a call in will come to the target before it ends.
Comes(p, c) ==
    \E low \in Address, i \in 0 .. Len(c) :
        /\ Enclosed(low, cmd.target) /\ At(p, c, i) \in low .. cmd.target
        /\ Anchored(p, c, i)

NextInv ==
    cmd.op = "next" /\ ~cmd.stale =>
        /\ NextStaysOut
        /\ phase \in {"stepping", "resume", "running"} =>
             /\ cmd.start[1] \in Address /\ cmd.start[2] \in Seq(Address)
             /\ cmd.orig = line_entry(cmd.start[1])
        /\ phase = "stepping" =>
             ~stale /\ FunctionAt(pc) = FunctionAt(cmd.start[1]) /\ Anchored(pc, calls, 0)
        /\ phase = "resume" => pc # cmd.target
        /\ phase \in {"resume", "running"} =>
             /\ FunctionAt(cmd.target) = FunctionAt(cmd.start[1])
             /\ sites[cmd.target] = "enabled" => Comes(pc, calls)

\* An instruction on the way to the target.
LEMMA ComesStep ==
    ASSUME Separate, NEW p \in Address, NEW c \in Seq(Address), NEW to \in Execute(p, c), to # Gone,
           Comes(p, c), p # cmd.target
    PROVE  Comes(to.pc, to.calls)
<1>1. PICK low \in Address, i \in 0 .. Len(c) :
        /\ Enclosed(low, cmd.target) /\ At(p, c, i) \in low .. cmd.target
        /\ Anchored(p, c, i)
  BY DEF Comes
<1>2. PICK j \in i .. Len(c) :
        /\ Len(c) - j <= Len(cmd.start[2]) /\ FunctionAt(At(p, c, j)) = FunctionAt(cmd.start[1])
  BY <1>1 DEF Anchored
<1>3. PICK t \in Address : t = cmd.target
  BY <1>1 DEF Enclosed
<1>4. low \in Nat /\ t \in Nat /\ p \in Nat
  BY SteppingAssumption
<1>5. i = 0 => /\ p \in low .. t - 1 /\ Code[p].op # "ret"
               /\ (Code[p].op = "cbz" => Code[p].to \in low .. t)
  <2> SUFFICES ASSUME i = 0 PROVE /\ p \in low .. t - 1 /\ Code[p].op # "ret"
                                  /\ (Code[p].op = "cbz" => Code[p].to \in low .. t)
    OBVIOUS
  <2>1. p \in low .. t
    BY <1>1, <1>3 DEF At
  <2>2. p \in low .. t - 1
    BY <2>1, <1>3, <1>4
  <2> QED
    BY <1>1, <1>3, <2>2 DEF Enclosed
<1>6. SUFFICES ASSUME NEW d \in {-1, 0, 1}, Len(to.calls) = Len(c) + d,
                      i + d >= 0, At(to.pc, to.calls, i + d) \in low .. t,
                      FunctionAt(At(to.pc, to.calls, j + d)) = FunctionAt(At(p, c, j))
               PROVE  Comes(to.pc, to.calls)
  <2>1. i \in Nat /\ j \in Nat /\ Len(c) \in Nat /\ i <= j /\ j <= Len(c)
    BY <1>2
  <2>2. CASE to.calls = c /\ Code[p].op \in {"op", "cbz"}
    <3>1. FunctionAt(At(to.pc, to.calls, j + 0)) = FunctionAt(At(p, c, j))
      BY <2>1, <2>2, FunctionsAfter
    <3>2. At(to.pc, to.calls, i + 0) \in low .. t
      <4>1. CASE i = 0
        <5>1. to.pc \in low .. t
          BY <1>4, <1>5, <2>2, <4>1, Executes
        <5> QED
          BY <4>1, <5>1 DEF At
      <4>2. CASE i # 0
        BY <1>1, <1>3, <2>1, <2>2, <4>2 DEF At
      <4> QED
        BY <4>1, <4>2
    <3> QED
      BY <1>6, <2>1, <2>2, <3>1, <3>2
  <2>3. CASE Code[p].op = "bl"
    <3>1. /\ Len(to.calls) = Len(c) + 1 /\ FunctionAt(At(to.pc, to.calls, j + 1)) = FunctionAt(At(p, c, j))
          /\ to.calls[1] = p + 1 /\ \A k \in 1 .. Len(c) : to.calls[k + 1] = c[k]
      BY <2>1, <2>3, FunctionsAfter, Executes
    <3>2. At(to.pc, to.calls, i + 1) \in low .. t
      <4>1. CASE i = 0
        <5>1. p + 1 \in low .. t
          BY <1>4, <1>5, <4>1
        <5> QED
          BY <3>1, <4>1, <5>1 DEF At
      <4>2. CASE i # 0
        <5>1. At(to.pc, to.calls, i + 1) = At(p, c, i)
          BY <2>1, <3>1, <4>2 DEF At
        <5> QED
          BY <1>1, <1>3, <5>1
      <4> QED
        BY <4>1, <4>2
    <3> QED
      BY <1>6, <2>1, <3>1, <3>2
  <2>4. CASE Code[p].op = "ret"
    <3>1. i # 0 /\ i - 1 >= 0 /\ i \in 1 .. Len(c) /\ j \in 1 .. Len(c)
      BY <1>5, <2>1, <2>4
    <3>2. Len(to.calls) = Len(c) - 1 /\ \A k \in 1 .. Len(c) : At(to.pc, to.calls, k - 1) = At(p, c, k)
      BY <2>4, FunctionsAfter
    <3>3. At(to.pc, to.calls, i + (-1)) = At(p, c, i) /\ At(to.pc, to.calls, j + (-1)) = At(p, c, j)
      <4>1. i + (-1) = i - 1 /\ j + (-1) = j - 1
        BY <2>1
      <4> QED
        BY <3>1, <3>2, <4>1
    <3>4. Len(to.calls) = Len(c) + (-1) /\ i + (-1) >= 0
      BY <2>1, <3>1, <3>2
    <3> QED
      BY <1>1, <1>3, <1>6, <3>3, <3>4
  <2> QED
    BY <2>2, <2>3, <2>4, FunctionsAfter
<1>7. i + d \in 0 .. Len(to.calls) /\ j + d \in i + d .. Len(to.calls) /\ Len(to.calls) - (j + d) = Len(c) - j
  BY <1>2, <1>6
<1>8. Anchored(to.pc, to.calls, i + d)
  BY <1>2, <1>6, <1>7 DEF Anchored
<1> QED
  BY <1>1, <1>3, <1>6, <1>7, <1>8 DEF Comes

\* An instruction that next steps: it stays in its function, or returns from it,
\* and then to another one only if it has come back from where next started.
LEMMA NextSteps ==
    ASSUME Separate, NEW rank, DirectRecursion(rank), pc \in Address, calls \in Seq(Address),
           cmd.start[1] \in Address, Len(cmd.start[2]) \in Nat, cmd.orig = line_entry(cmd.start[1]),
           Linked(pc, calls), Layered(rank, pc, calls),
           FunctionAt(pc) = FunctionAt(cmd.start[1]), Anchored(pc, calls, 0),
           NEW to \in Execute(pc, calls), to # Gone, Code[pc].op # "bl"
    PROVE  /\ Len(to.calls) <= Len(cmd.start[2]) \/ FunctionAt(to.pc) = FunctionAt(cmd.start[1])
           /\ SameLine(cmd.orig, to.pc) => /\ FunctionAt(to.pc) = FunctionAt(cmd.start[1])
                                           /\ Anchored(to.pc, to.calls, 0)
<1>1. PICK j \in 0 .. Len(calls) :
        /\ Len(calls) - j <= Len(cmd.start[2]) /\ FunctionAt(At(pc, calls, j)) = FunctionAt(cmd.start[1])
  BY DEF Anchored
<1>2. Len(calls) \in Nat
  OBVIOUS
<1>3. CASE /\ Code[pc].op \in {"op", "cbz"} /\ to.calls = calls
           /\ \A i \in 0 .. Len(calls) : FunctionAt(At(to.pc, to.calls, i)) = FunctionAt(At(pc, calls, i))
  <2>1. 0 \in 0 .. Len(calls)
    BY <1>2
  <2>2. FunctionAt(At(to.pc, to.calls, 0)) = FunctionAt(At(pc, calls, 0))
    BY <1>3, <2>1
  <2>3. FunctionAt(to.pc) = FunctionAt(cmd.start[1])
    BY <2>2 DEF At
  <2>4. Anchored(to.pc, to.calls, 0)
    BY <1>1, <1>3 DEF Anchored
  <2> QED
    BY <2>3, <2>4
<1>4. CASE /\ Code[pc].op = "ret" /\ Len(calls) > 0 /\ Len(to.calls) = Len(calls) - 1
           /\ \A i \in 1 .. Len(calls) : At(to.pc, to.calls, i - 1) = At(pc, calls, i)
  <2>1. to.pc = calls[1] /\ 1 \in 1 .. Len(calls)
    BY <1>4, Executes
  <2>2. CASE j = 0
    <3>1. Len(to.calls) <= Len(cmd.start[2]) /\ Len(to.calls) \in Nat
      BY <1>1, <1>2, <1>4, <2>2
    <3>2. ASSUME SameLine(cmd.orig, to.pc) PROVE FunctionAt(to.pc) = FunctionAt(cmd.start[1])
      <4>1. PICK b \in Address : /\ calls[1] = b + 1 /\ Code[b].op = "bl"
                                 /\ FunctionAt(Code[b].to) = FunctionAt(At(pc, calls, 1 - 1))
        BY <2>1 DEF Linked
      <4>2. At(pc, calls, 1 - 1) = pc
        BY DEF At
      <4>3. FunctionAt(Code[b].to) = FunctionAt(cmd.start[1])
        BY <4>1, <4>2
      <4>4. FunctionAt(b) = FunctionAt(to.pc)
        BY <2>1, <4>1 DEF Separate
      <4>5. SameLine(line_entry(cmd.start[1]), b + 1)
        BY <2>1, <3>2, <4>1
      <4>6. ~(FunctionAt(cmd.start[1]) # FunctionAt(b))
        BY <4>1, <4>3, <4>5, Zenon DEF Separate
      <4> QED
        BY <4>4, <4>6
    <3>3. FunctionAt(to.pc) = FunctionAt(cmd.start[1]) => Anchored(to.pc, to.calls, 0)
      <4>1. At(to.pc, to.calls, 0) = to.pc /\ 0 \in 0 .. Len(to.calls) /\ Len(to.calls) - 0 = Len(to.calls)
        BY <3>1 DEF At
      <4> QED
        BY <3>1, <4>1 DEF Anchored
    <3> QED
      BY <3>1, <3>2, <3>3
  <2>3. CASE j # 0
    <3>1. /\ j \in 1 .. Len(calls) /\ 1 <= j /\ 0 <= 1
          /\ 0 \in 0 .. Len(calls) /\ 1 \in 0 .. Len(calls)
      BY <1>2, <1>4, <2>3
    <3>2. At(pc, calls, 0) = pc /\ At(pc, calls, 1) = to.pc
      BY <2>1 DEF At
    <3>3. FunctionAt(pc) = FunctionAt(to.pc) \/ rank[FunctionAt(pc)] < rank[FunctionAt(to.pc)]
      BY <3>1, <3>2 DEF Layered
    <3>4. \/ FunctionAt(to.pc) = FunctionAt(At(pc, calls, j))
          \/ rank[FunctionAt(to.pc)] < rank[FunctionAt(At(pc, calls, j))]
      BY <3>1, <3>2 DEF Layered
    <3>5. rank[FunctionAt(pc)] \in Nat /\ rank[FunctionAt(to.pc)] \in Nat
      <4>1. to.pc \in Address
        BY <2>1
      <4> QED
        BY <4>1 DEF DirectRecursion
    <3>6. FunctionAt(to.pc) = FunctionAt(cmd.start[1])
      BY <1>1, <3>3, <3>4, <3>5
    <3>7. Anchored(to.pc, to.calls, 0)
      <4>1. At(to.pc, to.calls, j - 1) = At(pc, calls, j)
        BY <1>4, <3>1
      <4>2. j - 1 \in 0 .. Len(to.calls) /\ Len(to.calls) - (j - 1) = Len(calls) - j
        BY <1>2, <1>4, <3>1
      <4> QED
        BY <1>1, <4>1, <4>2 DEF Anchored
    <3> QED
      BY <3>6, <3>7
  <2> QED
    BY <2>2, <2>3
<1> QED
  BY <1>3, <1>4, FunctionsAfter

\* What next runs over ends in the function it is in, and control comes there.
LEMMA SkipEnclosed ==
    ASSUME WellDescribed, Separate, pc \in Address, Skips, inline_height \in Nat,
           inline_height <= reset_inline_height(pc), inline_height <= Len(inline_stack_at_address(pc))
    PROVE  \E low \in Address :
             Enclosed(low, skip_target) /\ pc \in low .. skip_target - 1 /\ skip_target \in Address
<1>1. PICK s : s = inline_stack_at_address(pc)
  OBVIOUS
<1>2. skip_target = IF inline_height > 0 THEN s[Len(s) - inline_height + 1].high ELSE pc + 1
  BY <1>1 DEF skip_target
<1>3. CASE inline_height > 0
  <2>1. Len(s) \in Nat /\ inline_height <= Len(s) /\ reset_inline_height(pc) \in Nat
    BY <1>1, HeightBelow
  <2>2. s # <<>>
    BY <1>3, <2>1
  <2>3. inline_height < Len(s)
    BY <1>1, <2>1, <2>2, HeightBelow
  <2>4. PICK k : k = Len(s) - inline_height + 1
    OBVIOUS
  <2>5. k \in 1 .. Len(s) /\ k - 1 > 0
    BY <1>3, <2>1, <2>3, <2>4
  <2>6. s[k] \in Dies /\ s[k].depth = k - 1 /\ s[k].low <= pc /\ pc < s[k].high
    BY <1>1, <2>5, LevelIs
  <2>7. Enclosed(s[k].low, s[k].high)
    BY <2>5, <2>6 DEF Separate
  <2>8. s[k].low \in Address /\ s[k].high \in Address
    BY <2>7 DEF Enclosed
  <2>9. pc \in s[k].low .. s[k].high - 1
    <3>1. s[k].low \in Nat /\ s[k].high \in Nat /\ pc \in Nat
      BY <2>8, SteppingAssumption
    <3>2. PICK l, h \in Nat : l = s[k].low /\ h = s[k].high
      BY <3>1
    <3>3. pc \in l .. h - 1
      BY <2>6, <3>1, <3>2
    <3> QED
      BY <3>2, <3>3
  <2> QED
    BY <1>2, <1>3, <2>4, <2>7, <2>8, <2>9
<1>4. CASE ~(inline_height > 0)
  <2>1. skip_target = pc + 1 /\ Code[pc].op = "bl"
    BY <1>2, <1>4 DEF Skips
  <2>2. pc + 1 \in Address /\ pc \in Nat
    BY <2>1, SteppingAssumption
  <2>3. FunctionAt(pc) = FunctionAt(pc + 1)
    BY <2>1 DEF Separate
  <2>4. \A a \in pc .. (pc + 1) - 1 : a = pc
    BY <2>2
  <2>5. Enclosed(pc, pc + 1)
    BY <2>1, <2>2, <2>3, <2>4 DEF Enclosed
  <2>6. pc \in pc .. (pc + 1) - 1
    BY <2>2
  <2> QED
    BY <2>1, <2>2, <2>5, <2>6
<1> QED
  BY <1>3, <1>4

LEMMA StepOverCallNext ==
    ASSUME WellDescribed, Separate, SteppingInv, InferiorInv, HeightInv, NextInv, StepOverCall
    PROVE  NextInv'
<1>1. CASE phase' = "undefined"
  BY <1>1 DEF NextInv, NextStaysOut
<1>2. SUFFICES ASSUME run_until_address(skip_target, cmd), ~(inline_height > Len(inline_stack_at_address(pc))),
                      ~cmd'.stale
               PROVE  NextInv'
  BY <1>1 DEF StepOverCall, NextInv
<1>3. /\ phase = "stepping" /\ cmd.op = "next" /\ Skips /\ UNCHANGED <<pc, calls>> /\ phase' = "resume"
      /\ IsCommand(cmd)
  BY <1>2 DEF StepOverCall, run_until_address, SteppingInv, CommandInv
<1>4. PICK t : t = skip_target
  OBVIOUS
<1>5. /\ cmd'.op = "next" /\ cmd'.start = cmd.start /\ cmd'.orig = cmd.orig /\ cmd'.target = t
      /\ cmd'.stale = cmd.stale
  BY <1>2, <1>3, <1>4 DEF run_until_address, IsCommand
<1>6. /\ cmd.start[1] \in Address /\ cmd.start[2] \in Seq(Address)
      /\ cmd.orig = line_entry(cmd.start[1])
      /\ ~stale /\ FunctionAt(pc) = FunctionAt(cmd.start[1]) /\ Anchored(pc, calls, 0)
  BY <1>2, <1>3, <1>5, Zenon DEF NextInv
<1>7. pc \in Address /\ calls \in Seq(Address)
  BY <1>3 DEF InferiorInv
<1>8. inline_height \in Nat /\ inline_height <= reset_inline_height(pc)
  BY <1>3, <1>6, Zenon DEF HeightInv
<1>9. inline_height <= Len(inline_stack_at_address(pc))
  BY <1>2, <1>8, HeightBelow
<1>10. PICK low \in Address : Enclosed(low, t) /\ pc \in low .. t - 1 /\ t \in Address
  BY <1>3, <1>4, <1>7, <1>8, <1>9, SkipEnclosed
<1>11. FunctionAt(t) = FunctionAt(cmd.start[1])
  <2>1. FunctionAt(pc) = FunctionAt(t)
    BY <1>10 DEF Enclosed
  <2> QED
    BY <1>6, <2>1
<1>12. pc # t /\ pc \in low .. t
  BY <1>10, SteppingAssumption
<1>13. Comes(pc, calls)'
  <2>1. 0 \in 0 .. Len(calls) /\ At(pc, calls, 0) = pc
    BY <1>7 DEF At
  <2>2. \E j \in 0 .. Len(calls) :
          /\ Len(calls) - j <= Len(cmd'.start[2])
          /\ FunctionAt(At(pc, calls, j)) = FunctionAt(cmd'.start[1])
    BY <1>5, <1>6, Zenon DEF Anchored
  <2>3. Anchored(pc, calls, 0)'
    BY <1>3, <2>2 DEF Anchored
  <2> QED
    BY <1>3, <1>5, <1>10, <1>12, <2>1, <2>3 DEF Comes
<1>14. NextStaysOut'
  BY <1>3 DEF NextStaysOut
<1> QED
  BY <1>3, <1>5, <1>6, <1>11, <1>12, <1>13, <1>14 DEF NextInv

\* next starts.
LEMMA StepOverNext ==
    ASSUME InferiorInv, StackTyped, step_over
    PROVE  NextInv'
<1>1. phase = "prompt" /\ phase' = "stepping" /\ cmd' = Command("next") /\ UNCHANGED <<pc, calls, stale>>
  BY DEF step_over, stack
<1>2. pc \in Address /\ calls \in Seq(Address)
  BY <1>1 DEF InferiorInv
<1>3. cmd'.start = <<pc, calls>>
  BY <1>1, CommandFields
<1>4. cmd'.orig = line_entry(pc)
  BY <1>1 DEF Command, NoCommand
<1>5. cmd'.stale = stale
  BY <1>1 DEF Command, NoCommand
<1>6. cmd'.start[1] = pc /\ cmd'.start[2] = calls
  BY <1>3
<1>7. Anchored(pc, calls, 0)'
  <2>1. 0 \in 0 .. Len(calls) /\ At(pc, calls, 0) = pc /\ Len(calls) - 0 <= Len(calls)
    BY <1>2 DEF At
  <2> QED
    BY <1>1, <1>6, <2>1 DEF Anchored
<1>8. NextStaysOut'
  BY <1>1 DEF NextStaysOut
<1>9. cmd'.orig = line_entry(cmd'.start[1])
  BY <1>4, <1>6
<1> QED
  BY <1>1, <1>2, <1>5, <1>6, <1>7, <1>8, <1>9, Zenon DEF NextInv

LEMMA StepLoopNext ==
    ASSUME Separate, NEW rank, DirectRecursion(rank), SteppingInv, InferiorInv, StackInv(rank), NextInv, StepLoop
    PROVE  NextInv'
<1>1. CASE phase' = "exited"
  BY <1>1 DEF NextInv, NextStaysOut
<1>2. CASE cmd.op = "step"
  <2>1. cmd' = cmd \/ \E address : run_until_address(address, cmd)
    BY Zenon DEF StepLoop, after_step_in
  <2>2. cmd'.op = "step"
    BY <1>2, <2>1 DEF run_until_address, SteppingInv, CommandInv, IsCommand
  <2> QED
    BY <2>2 DEF NextInv
<1>3. SUFFICES ASSUME phase' # "exited", cmd.op # "step", ~cmd'.stale PROVE NextInv'
  BY <1>1, <1>2 DEF NextInv
<1>4. phase = "stepping" /\ cmd.op = "next" /\ ~Skips
  BY <1>3 DEF StepLoop, SteppingInv, CommandInv
<1>5. PICK to \in Execute(pc, calls) :
        /\ to # Gone /\ Move(to) /\ unwind(to.pc, to.calls, FALSE) /\ UNCHANGED cmd
        /\ \/ phase' = "prompt" /\ reason' = "software_break"
           \/ phase' = "stepping" /\ SameLine(cmd.orig, to.pc)
           \/ phase' = "prompt" /\ reason' = "single_step"
  <2>1. PICK to \in Execute(pc, calls) :
          /\ Move(to)
          /\ \/ Exited("exited")
             \/ /\ to # Gone /\ unwind(to.pc, to.calls, FALSE)
                /\ \/ ~is_step(Landed(to)) /\ Return(Landed(to)) /\ UNCHANGED cmd
                   \/ SameLine(cmd.orig, to.pc) /\ UNCHANGED <<phase, cmd>>
                   \/ Return("single_step") /\ UNCHANGED cmd
    BY <1>3, Zenon DEF StepLoop
  <2>2. ~Exited("exited")
    BY <1>3 DEF Exited
  <2>3. Landed(to) \in {"software_break", "single_step"}
    BY DEF Landed
  <2> QED
    BY <1>4, <2>1, <2>2, <2>3 DEF Return, is_step
<1>6. /\ cmd.start[1] \in Address /\ cmd.start[2] \in Seq(Address)
      /\ cmd.orig = line_entry(cmd.start[1])
      /\ FunctionAt(pc) = FunctionAt(cmd.start[1]) /\ Anchored(pc, calls, 0)
  BY <1>3, <1>4, <1>5, Zenon DEF NextInv
<1>7. pc \in Address /\ calls \in Seq(Address) /\ Linked(pc, calls) /\ Layered(rank, pc, calls)
  BY <1>4 DEF InferiorInv, StackInv
<1>8. Code[pc].op # "bl" /\ Len(cmd.start[2]) \in Nat
  BY <1>4, <1>6 DEF Skips
<1>9. /\ Len(to.calls) <= Len(cmd.start[2]) \/ FunctionAt(to.pc) = FunctionAt(cmd.start[1])
      /\ SameLine(cmd.orig, to.pc) => /\ FunctionAt(to.pc) = FunctionAt(cmd.start[1])
                                      /\ Anchored(to.pc, to.calls, 0)
  BY <1>5, <1>6, <1>7, <1>8, NextSteps
<1>10. pc' = to.pc /\ calls' = to.calls /\ stale' = FALSE /\ cmd' = cmd
  BY <1>5 DEF Move, unwind
<1>11. NextStaysOut'
  <2>1. Len(calls') <= Len(cmd'.start[2]) \/ FunctionAt(pc') = FunctionAt(cmd'.start[1])
    BY <1>9, <1>10, Zenon
  <2> QED
    BY <2>1, Zenon DEF NextStaysOut, FunctionAt
<1>12. CASE phase' = "prompt"
  BY <1>11, <1>12 DEF NextInv
<1>13. CASE phase' = "stepping" /\ SameLine(cmd.orig, to.pc)
  <2>1. FunctionAt(pc') = FunctionAt(cmd'.start[1]) /\ Anchored(to.pc, to.calls, 0)
    BY <1>9, <1>10, <1>13
  <2>2. Anchored(pc, calls, 0)'
    BY <1>10, <2>1 DEF Anchored
  <2> QED
    BY <1>6, <1>10, <1>11, <1>13, <2>1, <2>2 DEF NextInv
<1> QED
  BY <1>5, <1>12, <1>13

\* The run over a call goes on.
LEMMA RunNext ==
    ASSUME Separate, InferiorInv, NextInv, Resume \/ ResumeInterrupted \/ Run
    PROVE  NextInv'
<1>1. CASE phase' = "exited"
  BY <1>1 DEF NextInv, NextStaysOut
<1>2. SUFFICES ASSUME phase' # "exited", cmd.op = "next", ~cmd.stale PROVE NextInv'
  <2>1. UNCHANGED cmd
    BY DEF Resume, ResumeInterrupted, Run
  <2> QED
    BY <1>1, <2>1 DEF NextInv
<1>3. /\ phase \in {"resume", "running"} /\ phase' = "running" /\ UNCHANGED <<cmd, sites>>
      /\ \/ UNCHANGED <<pc, calls>>
         \/ /\ phase = "resume" \/ sites[pc] # "enabled"
            /\ \E to \in Execute(pc, calls) : to # Gone /\ Move(to)
  BY <1>2, Zenon DEF Resume, ResumeInterrupted, Run, Exited
<1>4. /\ cmd.start[1] \in Address /\ cmd.start[2] \in Seq(Address) /\ cmd.orig = line_entry(cmd.start[1])
      /\ FunctionAt(cmd.target) = FunctionAt(cmd.start[1])
      /\ sites[cmd.target] = "enabled" => Comes(pc, calls)
      /\ phase = "resume" => pc # cmd.target
  BY <1>2, <1>3, Zenon DEF NextInv
<1>5. pc \in Address /\ calls \in Seq(Address)
  BY <1>3 DEF InferiorInv
<1>6. ASSUME sites[cmd.target] = "enabled" PROVE Comes(pc, calls)'
  <2>1. CASE UNCHANGED <<pc, calls>>
    BY <1>3, <1>4, <1>6, <2>1 DEF Comes, Anchored
  <2>2. CASE /\ phase = "resume" \/ sites[pc] # "enabled"
             /\ \E to \in Execute(pc, calls) : to # Gone /\ Move(to)
    <3>1. PICK to \in Execute(pc, calls) : to # Gone /\ Move(to)
      BY <2>2
    <3>2. pc # cmd.target
      BY <1>3, <1>4, <1>6, <2>2
    <3>3. Comes(to.pc, to.calls)
      BY <1>4, <1>5, <1>6, <3>1, <3>2, ComesStep
    <3> QED
      BY <1>3, <3>1, <3>3 DEF Comes, Anchored, Move
  <2> QED
    BY <1>3, <2>1, <2>2
<1>7. NextStaysOut'
  BY <1>3 DEF NextStaysOut
<1> QED
  BY <1>3, <1>4, <1>6, <1>7 DEF NextInv

\* A stop, at the target or elsewhere.
LEMMA StopNext ==
    ASSUME InferiorInv, NextInv, Trap \/ Interrupt
    PROVE  NextInv'
<1>1. UNCHANGED cmd
  BY DEF Trap, Interrupt, Stopped, CallStopped
<1>2. SUFFICES ASSUME cmd.op = "next", ~cmd.stale PROVE NextInv'
  BY <1>1 DEF NextInv
<1>3. PICK r \in {"software_break", "interrupt"} :
        Stopped(r) /\ phase = "running" /\ (r = "software_break" => sites[pc] = "enabled")
  BY <1>2 DEF Trap, Interrupt, CallStopped
<1>4. /\ UNCHANGED <<pc, calls>> /\ stale' = FALSE
      /\ \/ phase' = "stepping" /\ pc = cmd.target /\ r = "software_break"
         \/ phase' = "prompt" /\ (reason' = "single_step" => pc = cmd.target)
  <2>1. UNCHANGED <<pc, calls>> /\ stale' = FALSE
    BY <1>3 DEF Stopped, inferior, unwind
  <2>2. PICK result : result = IF is_breakpoint(r) /\ pc = cmd.target THEN "single_step" ELSE r
    OBVIOUS
  <2>3. \/ phase' = "stepping" /\ pc = cmd.target /\ is_step(result)
        \/ phase' = "prompt" /\ reason' = result
    <3>1. ~(cmd.op = "finish")
      BY <1>2
    <3> QED
      BY <1>3, <2>2, <3>1 DEF Stopped, Return
  <2> QED
    BY <1>3, <2>1, <2>2, <2>3 DEF is_step, is_breakpoint
<1>5. /\ cmd.start[1] \in Address /\ cmd.start[2] \in Seq(Address) /\ cmd.orig = line_entry(cmd.start[1])
      /\ FunctionAt(cmd.target) = FunctionAt(cmd.start[1])
      /\ sites[cmd.target] = "enabled" => Comes(pc, calls)
  BY <1>2, <1>3, Zenon DEF NextInv
<1>6. NextStaysOut'
  <2>1. phase' = "prompt" /\ reason' = "single_step" => FunctionAt(pc') = FunctionAt(cmd'.start[1])
    BY <1>1, <1>4, <1>5
  <2> QED
    BY <2>1, Zenon DEF NextStaysOut, FunctionAt
<1>7. CASE phase' = "stepping" /\ pc = cmd.target /\ r = "software_break"
  <2>1. Comes(pc, calls)
    BY <1>3, <1>5, <1>7
  <2>2. PICK i \in 0 .. Len(calls) : Anchored(pc, calls, i)
    BY <2>1 DEF Comes
  <2>3. Len(calls) \in Nat
    BY <1>3 DEF InferiorInv
  <2>4. Anchored(pc, calls, 0)
    <3>1. PICK j \in i .. Len(calls) :
            Len(calls) - j <= Len(cmd.start[2]) /\ FunctionAt(At(pc, calls, j)) = FunctionAt(cmd.start[1])
      BY <2>2 DEF Anchored
    <3>2. j \in 0 .. Len(calls)
      BY <2>3
    <3> QED
      BY <3>1, <3>2 DEF Anchored
  <2>5. Anchored(pc, calls, 0)'
    BY <1>1, <1>4, <2>4 DEF Anchored
  <2>6. FunctionAt(pc') = FunctionAt(cmd'.start[1])
    BY <1>1, <1>4, <1>5, <1>7
  <2> QED
    BY <1>1, <1>4, <1>5, <1>6, <1>7, <2>5, <2>6 DEF NextInv
<1>8. CASE phase' = "prompt"
  BY <1>6, <1>8 DEF NextInv
<1> QED
  BY <1>4, <1>7, <1>8

LEMMA NextStep ==
    ASSUME WellDescribed, Separate, NEW rank, DirectRecursion(rank),
           SteppingInv, InferiorInv, StackTyped, HeightInv, StackInv(rank), NextInv, [Next]_vars
    PROVE  NextInv'
<1>1. CASE Continue \/ step_in \/ step_out \/ \E f \in Callable : inferior_call(f)
  <2>1. cmd'.op # "next"
    <3>1. CASE Continue \/ step_in
      <4>1. PICK op \in {"continue", "step"} : cmd' = Command(op)
        BY <3>1 DEF Continue, step_in
      <4> QED
        BY <4>1, CommandFields
    <3>2. CASE step_out
      <4>1. pc \in Address
        BY <3>2 DEF step_out, InferiorInv
      <4> QED
        BY <3>2, <4>1, StepOutTyped
    <3>3. CASE \E f \in Callable : inferior_call(f)
      <4>1. PICK k : k = Command("call")
        OBVIOUS
      <4>2. IsCommand(k) /\ k.op = "call"
        BY <4>1, CommandFields
      <4>3. \E from : cmd' = [k EXCEPT !.from = from, !.target = Main,
                                       !.own = sites[Main] = "none", !.was = sites[Main]]
        BY <3>3, <4>1 DEF inferior_call
      <4> QED
        BY <4>2, <4>3 DEF IsCommand
    <3> QED
      BY <1>1, <3>1, <3>2, <3>3
  <2> QED
    BY <2>1 DEF NextInv
<1>2. CASE (\E a \in Breakable, s \in State : SetSite(a, s)) \/ up \/ down
  <2>1. phase = "prompt" /\ UNCHANGED <<pc, calls, phase, cmd, reason>>
    BY <1>2 DEF SetSite, up, down
  <2> QED
    BY <2>1 DEF NextInv, NextStaysOut
<1>3. CASE StepInterrupted
  <2>1. phase' = "prompt" /\ reason' = "interrupt"
    BY <1>3 DEF StepInterrupted, Return
  <2> QED
    BY <2>1 DEF NextInv, NextStaysOut
<1>4. CASE UNCHANGED vars
  BY <1>4 DEF vars, NextInv, NextStaysOut, Anchored, Comes
<1>5. CASE Throws
  <2>1. phase' \in {"prompt", "failed", "undefined"} /\ reason' = "error"
    BY <1>5 DEF Throws, StopThrows, CallThrows, CallReturnThrows, StepThrows, Throw
  <2> QED
    BY <2>1 DEF NextInv, NextStaysOut
<1> QED
  BY <1>1, <1>2, <1>3, <1>4, <1>5, StepOverNext, StepLoopNext, StepOverCallNext, RunNext, StopNext
     DEF Next, Commands, Progress, State

\* In a program that is well described, whose functions are separate and recurse
\* only directly, a next that ends as a step has not ended in a function it
\* called, unless that is a deeper call of the function it started in: however
\* calls nest, whatever breakpoints the user has set or exceptions have left and
\* wherever Ctrl-C hits.
THEOREM NextKeepsOut ==
    ASSUME WellDescribed, Separate, NEW rank, DirectRecursion(rank)
    PROVE  Spec => []NextStaysOut
<1> DEFINE Inv == StackInv(rank) /\ NextInv
<1>1. Init => Inv
  <2> SUFFICES ASSUME Init PROVE Inv
    OBVIOUS
  <2>1. cmd.op = "none" /\ phase = "prompt" /\ pc = Main /\ calls = <<>>
    BY DEF Init, NoCommand
  <2>2. Len(calls) = 0 /\ \A i, j \in 0 .. 0 : i = j
    BY <2>1
  <2>3. Linked(pc, calls) /\ Layered(rank, pc, calls)
    BY <2>2 DEF Linked, Layered
  <2> QED
    BY <2>1, <2>3 DEF StackInv, NextInv
<1>2. (SteppingInv /\ InferiorInv) /\ StackTyped /\ HeightInv /\ Inv /\ [Next]_vars => Inv'
  BY StackInvStep, NextStep
<1>3. Inv => NextStaysOut
  BY DEF NextInv, NextStaysOut
<1> HIDE DEF Inv
<1> QED
  BY <1>1, <1>2, <1>3, SteppingInvHolds, StackTypedHolds, HeightHolds, PTL DEF Spec
=============================================================================
