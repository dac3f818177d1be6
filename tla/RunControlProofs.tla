-------------------------- MODULE RunControlProofs --------------------------
(***************************************************************************)
(* Proofs about RunControl: for any number of threads, any code, any sites *)
(* and handlers, however deep the calls of resume, step_instruction and    *)
(* wait_on_signal nest.                                                    *)
(***************************************************************************)
EXTENDS RunControl, FiniteSetTheorems, SequenceTheorems, TLAPS

-----------------------------------------------------------------------------
(* The calls that are under way.  A task of s is identified by the number  *)
(* of tasks behind it, which does not change while others come and go in   *)
(* front of it.                                                            *)

Frames(s, op) == {<<Len(s) - i, s[i]>> : i \in {j \in 1 .. Len(s) : s[j].op = op}}

\* The step_instruction calls that wait for their step, and the system call loops.
Steps == Frames(todo, "stepped")
Traces == Frames(todo, "trace") \cup Frames(todo, "traced")

\* The steps that have begun and have not ended: they wait, or a throw cut them off.
Tag(e) == [throw |-> lost.throws, behind |-> e[1], step |-> e[2]]
Begun == {Tag(e) : e \in Steps} \cup lost.steps

Waits == {"wait", "waitpid"}
Threaded == {"resume", "trace", "traced", "step", "stepped"}

\* What the caller does when a function is done.
After(op) ==
    CASE op \in {"resume", "trace", "traced", "send_continue"} -> Waits
      [] op \in {"step", "stepped"} -> {"send_continue", "traced", "report"}
      [] op \in Waits -> {"report", "stepped"}
      [] OTHER -> {}

Follows(a, b) == b.op \in After(a.op) /\ (b.op = "traced" => b.t = a.t)

\* The tasks are those of functions that call one another as the code's do.
WellNested(s) ==
    \A i \in 1 .. Len(s) :
        /\ s[i].op \in Threaded => s[i].t \in Thread
        /\ IF i = Len(s) THEN s[i].op = "report" ELSE Follows(s[i], s[i + 1])

-----------------------------------------------------------------------------
(* The invariants. *)

\* What the debugger knows of the inferior where it is.
ControlInv ==
    /\ WellNested(todo)
    /\ event # None => state = "running"
    /\ state = "running" => queued = None /\ todo # <<>> /\ Head(todo).op \in Waits
    /\ state = "stopped" => ports = live /\ current \in live
    /\ queued # None => IF todo = <<>> THEN lost.throws > 0 \/ state = "exited" ELSE Head(todo).op \in Waits
    /\ queued.kind # "single_step"
    /\ todo # <<>> /\ Head(todo).op \in {"resume", "trace", "step"} => state = "stopped"
    /\ state = "exited" /\ todo # <<>> /\ Head(todo).op \in {"stepped", "traced"} => ~IsStep(ret)
    /\ tracing => Traces # {}
    /\ stepping /\ state # "exited" => Begun # {}

\* The sites that are out are those that steps which have begun took out.
SiteInv ==
    state # "exited" =>
        /\ enabled = Sites \ UNION {c.step.site : c \in Begun}
        /\ \A c, d \in Begun : c # d => c.step.site \cap d.step.site = {}
        /\ step_bit \subseteq {c.step.t : c \in Begun}

\* The steps that have begun and hold thread u.
Holding(u) == {c \in Begun : u \in c.step.held}

\* A live thread is suspended once by every step that has begun and holds it.
\* Steps that were cut off are told from later ones by the number of the throw.
HeldInv ==
    /\ IsFiniteSet(lost.steps) /\ \A c \in lost.steps : c.throw < lost.throws
    /\ state = "stopped" \/ todo # <<>> =>
        /\ \A c \in Begun : c.step.held \subseteq live
        /\ \A u \in live : suspended[u] = Cardinality(Holding(u))

\* Where a signal is before it is delivered.
SignalInv ==
    /\ pending <= sent
    /\ delivered \subseteq 1 .. sent
    /\ SignalOnce
    /\ event.kind = "signal" => sent > 0 /\ sent \notin delivered

\* Without hit handlers, only one step is under way at a time: it waits or
\* has just waited.
OneStep ==
    Steps # {} => \/ Head(todo).op = "stepped" /\ Frames(Tail(todo), "stepped") = {}
                  \/ /\ Head(todo).op \in Waits
                     /\ Tail(todo) # <<>> /\ Head(Tail(todo)).op = "stepped"
                     /\ Frames(Tail(Tail(todo)), "stepped") = {}

\* While it waits, it holds every other known thread.
Guarded ==
    state = "running" =>
        \A e \in Steps : /\ e[2].held = ports \ {e[2].t}
                         /\ e[2].t \in ports \cap live => e[2].t \in step_bit

\* A traced thread is alive, and is stepped only where the loop has looked.
Looked ==
    /\ state # "exited" => step_bit \subseteq live
    /\ event.kind = "trap" => \E w \in live : pc[w] \in enabled \/ w \in step_bit
    /\ state = "stopped" /\ todo # <<>> =>
         /\ Head(todo).op \in {"resume", "trace", "step"} => Head(todo).t \in live
         /\ Head(todo).op \in {"stepped", "traced"} /\ IsStep(ret) => Head(todo).t \in live
         /\ Head(todo).op = "resume" => tracing = FALSE
         /\ Head(todo).op = "step" /\ tracing = TRUE => pc[Head(todo).t] \notin Svc \ Sites \/ expecting = TRUE
    /\ state = "running" /\ event = None /\ tracing = TRUE =>
         \A t \in step_bit : pc[t] \notin Svc \ Sites \/ expecting = TRUE

\* The exit of the entry queued last is expected, and nothing excuses its loss.
Awaited == expecting = TRUE /\ caught.excused = FALSE

\* Such an entry is that of the current thread, which the loop takes up again.
Entered ==
    /\ Traces # {} \/ Awaited => catching = TRUE
    /\ Awaited /\ tracing = FALSE /\ state # "exited" => caught.t = current
    /\ Awaited /\ (state = "running" \/ Steps # {}) => tracing = TRUE
    /\ Awaited /\ state = "running" /\ event = None => \A t \in step_bit : caught.t = t
    /\ state = "running" => \A e \in Steps : e[2].t = current
    /\ todo # <<>> =>
         /\ Head(todo).op = "trace" => tracing = TRUE
         /\ Head(todo).op \in {"step", "send_continue"} /\ Awaited => tracing = TRUE
         /\ Head(todo).op \in {"trace", "step"} /\ Awaited => caught.t = Head(todo).t
         /\ Head(todo).op \in {"resume", "trace", "step"} => Head(todo).t = current
         /\ Head(todo).op \in {"stepped", "traced"} /\ IsStep(ret) => Head(todo).t = current

PlainInv == handled = {} /\ lost = NothingLost => OneStep /\ Guarded /\ Looked /\ Entered

RunControlInv == TypeOK /\ ControlInv /\ SiteInv /\ HeldInv /\ SignalInv

-----------------------------------------------------------------------------
(* Tasks put in front. *)

Push(a, s) == <<a>> \o s
FitsOn(a, s) == IF s = <<>> THEN a.op = "report" ELSE Follows(a, Head(s))

LEMMA PushSeq ==
    ASSUME NEW a \in TaskType, NEW s \in Seq(TaskType)
    PROVE  /\ Push(a, s) \in Seq(TaskType)
           /\ Push(a, s) # <<>>
           /\ Head(Push(a, s)) = a
           /\ Tail(Push(a, s)) = s
           /\ Len(Push(a, s)) = Len(s) + 1
           /\ \A i \in 1 .. Len(s) : Push(a, s)[i + 1] = s[i]
           /\ Push(a, s)[1] = a
  BY DEF Push

\* The tasks behind a new one are where they were.
LEMMA PushFrames ==
    ASSUME NEW a \in TaskType, NEW s \in Seq(TaskType), NEW op
    PROVE  /\ Frames(Push(a, s), op) =
                Frames(s, op) \cup (IF a.op = op THEN {<<Len(s), a>>} ELSE {})
           /\ \A x : <<Len(s), x>> \notin Frames(s, op)
<1> DEFINE p == Push(a, s)
<1>1. p \in Seq(TaskType) /\ Len(p) = Len(s) + 1 /\ p[1] = a
      /\ \A i \in 1 .. Len(s) : p[i + 1] = s[i]
  BY PushSeq
<1>2. Len(s) \in Nat
  OBVIOUS
<1> HIDE DEF p
<1>3. ASSUME NEW e \in Frames(p, op)
      PROVE  e \in Frames(s, op) \/ (a.op = op /\ e = <<Len(s), a>>)
  <2>1. PICK i \in 1 .. Len(p) : p[i].op = op /\ e = <<Len(p) - i, p[i]>>
    BY <1>3 DEF Frames
  <2>2. CASE i = 1
    BY <2>1, <2>2, <1>1, <1>2
  <2>3. CASE i # 1
    <3>0. i - 1 \in 1 .. Len(s) /\ (i - 1) + 1 = i
      BY <2>1, <2>3, <1>1, <1>2
    <3>1. p[i] = s[i - 1]
      <4>1. p[(i - 1) + 1] = s[i - 1]
        BY <3>0, <1>1
      <4> QED
        BY <4>1, <3>0
    <3>2. Len(p) - i = Len(s) - (i - 1)
      BY <2>1, <1>1, <1>2
    <3>3. e = <<Len(s) - (i - 1), s[i - 1]>> /\ s[i - 1].op = op
      BY <3>1, <3>2, <2>1
    <3> QED
      BY <3>0, <3>3 DEF Frames
  <2> QED
    BY <2>2, <2>3
<1>4. ASSUME NEW e \in Frames(s, op)
      PROVE  e \in Frames(p, op)
  <2>1. PICK i \in 1 .. Len(s) : s[i].op = op /\ e = <<Len(s) - i, s[i]>>
    BY <1>4 DEF Frames
  <2>2. i + 1 \in 1 .. Len(p) /\ p[i + 1] = s[i] /\ Len(p) - (i + 1) = Len(s) - i
    BY <2>1, <1>1, <1>2
  <2> QED
    BY <2>1, <2>2 DEF Frames
<1>5. ASSUME a.op = op
      PROVE  <<Len(s), a>> \in Frames(p, op)
  <2>1. 1 \in 1 .. Len(p) /\ Len(p) - 1 = Len(s)
    BY <1>1, <1>2
  <2> QED
    BY <2>1, <1>1, <1>5 DEF Frames
<1>6. ASSUME NEW x, <<Len(s), x>> \in Frames(s, op)
      PROVE  FALSE
  <2>1. PICK i \in 1 .. Len(s) : <<Len(s), x>> = <<Len(s) - i, s[i]>>
    BY <1>6 DEF Frames
  <2>2. Len(s) = Len(s) - i
    BY <2>1
  <2> QED
    BY <2>2, <1>2
<1> QED
  BY <1>3, <1>4, <1>5, <1>6 DEF p

\* A well-nested sequence is one of which every task fits on the rest.
LEMMA PushNested ==
    ASSUME NEW a \in TaskType, NEW s \in Seq(TaskType)
    PROVE  WellNested(Push(a, s)) <=>
              (a.op \in Threaded => a.t \in Thread) /\ FitsOn(a, s) /\ WellNested(s)
<1> DEFINE p == Push(a, s)
           Good(q, i) == /\ q[i].op \in Threaded => q[i].t \in Thread
                         /\ IF i = Len(q) THEN q[i].op = "report" ELSE Follows(q[i], q[i + 1])
<1>1. p \in Seq(TaskType) /\ Len(p) = Len(s) + 1 /\ p[1] = a
      /\ \A i \in 1 .. Len(s) : p[i + 1] = s[i]
  BY PushSeq
<1>2. Len(s) \in Nat /\ (s = <<>> <=> Len(s) = 0) /\ (s # <<>> => Head(s) = s[1])
  OBVIOUS
<1> HIDE DEF p
<1>3. Good(p, 1) <=> (a.op \in Threaded => a.t \in Thread) /\ FitsOn(a, s)
  <2>1. CASE s = <<>>
    BY <2>1, <1>1, <1>2 DEF FitsOn
  <2>2. CASE s # <<>>
    <3>1. Len(p) # 1 /\ p[1 + 1] = Head(s)
      BY <2>2, <1>1, <1>2
    <3> QED
      BY <3>1, <2>2, <1>1 DEF FitsOn
  <2> QED
    BY <2>1, <2>2
<1>4. ASSUME NEW i \in 1 .. Len(s)
      PROVE  Good(p, i + 1) <=> Good(s, i)
  <2>1. p[i + 1] = s[i] /\ (i + 1 = Len(p) <=> i = Len(s))
    BY <1>1, <1>2
  <2>2. i # Len(s) => p[(i + 1) + 1] = s[i + 1]
    BY <1>1, <1>2
  <2> QED
    BY <2>1, <2>2
<1>5. WellNested(p) <=> \A i \in 1 .. Len(p) : Good(p, i)
  BY DEF WellNested
<1>6. WellNested(s) <=> \A i \in 1 .. Len(s) : Good(s, i)
  BY DEF WellNested
<1> HIDE DEF Good
<1>7. (\A i \in 1 .. Len(p) : Good(p, i)) <=> Good(p, 1) /\ \A i \in 1 .. Len(s) : Good(p, i + 1)
  <2>1. ASSUME \A i \in 1 .. Len(p) : Good(p, i)
        PROVE  Good(p, 1) /\ \A i \in 1 .. Len(s) : Good(p, i + 1)
    <3>1. 1 \in 1 .. Len(p) /\ \A i \in 1 .. Len(s) : i + 1 \in 1 .. Len(p)
      BY <1>1, <1>2
    <3> QED
      BY <3>1, <2>1
  <2>2. ASSUME Good(p, 1), \A i \in 1 .. Len(s) : Good(p, i + 1), NEW i \in 1 .. Len(p)
        PROVE  Good(p, i)
    <3>1. CASE i = 1
      BY <3>1, <2>2
    <3>2. CASE i # 1
      <4>1. i - 1 \in 1 .. Len(s) /\ (i - 1) + 1 = i
        BY <3>2, <1>1, <1>2
      <4>2. Good(p, (i - 1) + 1)
        BY <4>1, <2>2
      <4> QED
        BY <4>1, <4>2
    <3> QED
      BY <3>1, <3>2
  <2> QED
    BY <2>1, <2>2
<1> QED
  BY <1>3, <1>4, <1>5, <1>6, <1>7, Zenon DEF p

\* Every task at the head was pushed.
LEMMA SplitHead ==
    ASSUME NEW s \in Seq(TaskType), s # <<>>
    PROVE  /\ Head(s) \in TaskType /\ Tail(s) \in Seq(TaskType)
           /\ s = Push(Head(s), Tail(s))
  BY DEF Push

LEMMA NoFrames ==
    /\ \A op : Frames(<<>>, op) = {}
    /\ WellNested(<<>>)
  BY DEF Frames, WellNested

LEMMA FramesFinite ==
    ASSUME NEW s \in Seq(TaskType), NEW op
    PROVE  IsFiniteSet(Frames(s, op))
<1>1. Len(s) \in Nat
  OBVIOUS
<1>2. IsFiniteSet(1 .. Len(s))
  BY <1>1, FS_Interval
<1>3. IsFiniteSet({j \in 1 .. Len(s) : s[j].op = op})
  BY <1>2, FS_Subset
<1> DEFINE I == {j \in 1 .. Len(s) : s[j].op = op}
           f == [i \in I |-> <<Len(s) - i, s[i]>>]
<1>4. f \in Surjection(I, Frames(s, op))
  BY DEF Surjection, Frames
<1> QED
  BY <1>3, <1>4, FS_Surjection

-----------------------------------------------------------------------------
(* What the steps do to the tasks. *)

TracesOf(s) == Frames(s, "trace") \cup Frames(s, "traced")

\* All there is to know of a task and the tasks behind it.
LEMMA PushFacts ==
    ASSUME NEW a \in TaskType, NEW s \in Seq(TaskType)
    PROVE  /\ Push(a, s) \in Seq(TaskType)
           /\ Push(a, s) # <<>>
           /\ Head(Push(a, s)) = a
           /\ Tail(Push(a, s)) = s
           /\ WellNested(Push(a, s)) <=>
                (a.op \in Threaded => a.t \in Thread) /\ FitsOn(a, s) /\ WellNested(s)
           /\ a.op # "stepped" => Frames(Push(a, s), "stepped") = Frames(s, "stepped")
           /\ a.op = "stepped" =>
                Frames(Push(a, s), "stepped") = Frames(s, "stepped") \cup {<<Len(s), a>>}
           /\ <<Len(s), a>> \notin Frames(s, "stepped")
           /\ a.op \notin {"trace", "traced"} => TracesOf(Push(a, s)) = TracesOf(s)
           /\ a.op \in {"trace", "traced"} => TracesOf(Push(a, s)) # {}
<1>1. /\ Frames(Push(a, s), "stepped") = Frames(s, "stepped") \cup (IF a.op = "stepped" THEN {<<Len(s), a>>} ELSE {})
      /\ \A x : <<Len(s), x>> \notin Frames(s, "stepped")
  BY PushFrames
<1>2. Frames(Push(a, s), "trace") = Frames(s, "trace") \cup (IF a.op = "trace" THEN {<<Len(s), a>>} ELSE {})
  BY PushFrames
<1>3. Frames(Push(a, s), "traced") = Frames(s, "traced") \cup (IF a.op = "traced" THEN {<<Len(s), a>>} ELSE {})
  BY PushFrames
<1>4. a.op \notin {"trace", "traced"} => TracesOf(Push(a, s)) = TracesOf(s)
  BY <1>2, <1>3 DEF TracesOf
<1>5. a.op \in {"trace", "traced"} => TracesOf(Push(a, s)) # {}
  BY <1>2, <1>3 DEF TracesOf
<1> QED
  BY <1>1, <1>4, <1>5, PushSeq, PushNested

\* The task at the head, and what is behind it.
LEMMA HeadFacts ==
    ASSUME todo \in Seq(TaskType), todo # <<>>, WellNested(todo)
    PROVE  \E h \in TaskType, T \in Seq(TaskType) :
              /\ h = Head(todo) /\ T = Tail(todo) /\ todo = Push(h, T)
              /\ h.op \in Threaded => h.t \in Thread
              /\ FitsOn(h, T) /\ WellNested(T)
              /\ h.op # "stepped" => Steps = Frames(T, "stepped")
              /\ h.op = "stepped" => Steps = Frames(T, "stepped") \cup {<<Len(T), h>>}
              /\ <<Len(T), h>> \notin Frames(T, "stepped")
              /\ h.op \notin {"trace", "traced"} => Traces = TracesOf(T)
              /\ T # <<>> => Head(T) \in TaskType
<1>1. /\ Head(todo) \in TaskType /\ Tail(todo) \in Seq(TaskType)
      /\ todo = Push(Head(todo), Tail(todo))
  BY SplitHead
<1>2. PICK h \in TaskType, T \in Seq(TaskType) : h = Head(todo) /\ T = Tail(todo) /\ todo = Push(h, T)
  BY <1>1
<1>3. Steps = Frames(Push(h, T), "stepped") /\ Traces = TracesOf(Push(h, T))
  BY <1>2 DEF Steps, Traces, TracesOf
<1>4. T # <<>> => Head(T) \in TaskType
  OBVIOUS
<1>5. WellNested(Push(h, T))
  BY <1>2
<1> QED
  BY <1>2, <1>3, <1>4, <1>5, PushFacts, Zenon

\* New tasks are tasks.
LEMMA NewTasks ==
    /\ \A op \in Ops : Call(op) \in TaskType /\ Call(op).op = op
    /\ \A op \in Ops, t \in Thread : Task(op, t) \in TaskType /\ Task(op, t).op = op /\ Task(op, t).t = t
  BY DEF Call, Task, TaskType, Ops

\* How tasks may follow one another.
LEMMA Nesting ==
    ASSUME NEW a, NEW s
    PROVE  /\ a.op = "report" /\ s = <<>> => FitsOn(a, s)
           /\ s # <<>> => (FitsOn(a, s) <=> Follows(a, Head(s)))
           /\ s = <<>> => (FitsOn(a, s) <=> a.op = "report")
  BY DEF FitsOn

\* A step that leaves the steps that have begun, the sites and the threads alone.
LEMMA KeepsBegun ==
    ASSUME SiteInv, HeldInv, Begun' = Begun, UNCHANGED <<enabled, live, suspended, step_bit>>,
           IsFiniteSet(lost.steps)', (\A c \in lost.steps : c.throw < lost.throws)',
           state' # "exited" => state # "exited",
           state' = "stopped" \/ todo' # <<>> => state = "stopped" \/ todo # <<>>
    PROVE  SiteInv' /\ HeldInv'
<1>1. SiteInv'
  BY DEF SiteInv
<1>2. \A u : Holding(u)' = Holding(u)
  BY DEF Holding
<1>3. HeldInv'
  BY <1>2 DEF HeldInv
<1> QED
  BY <1>1, <1>3

LEMMA SameBegun ==
    ASSUME Steps' = Steps, lost' = lost
    PROVE  Begun' = Begun
  BY DEF Begun, Tag

LEMMA KeepsSteps ==
    ASSUME SiteInv, HeldInv, Steps' = Steps, UNCHANGED <<enabled, live, suspended, step_bit, lost>>,
           state' # "exited" => state # "exited",
           state' = "stopped" \/ todo' # <<>> => state = "stopped" \/ todo # <<>>
    PROVE  SiteInv' /\ HeldInv'
<1>1. Begun' = Begun
  BY SameBegun
<1>2. IsFiniteSet(lost.steps)' /\ (\A c \in lost.steps : c.throw < lost.throws)'
  BY DEF HeldInv
<1> QED
  BY <1>1, <1>2, KeepsBegun

\* What becomes of the entry queued last.
LEMMA KeepsEntry ==
    ASSUME TypeOK,
           \/ Excuse \/ caught' = NoEntry \/ caught' = caught
           \/ \E t \in Thread : Leaves(t) \/ caught' = [t |-> t, excused |-> FALSE]
    PROVE  caught' \in EntryType
<1>1. caught \in EntryType /\ expecting \in BOOLEAN
  BY DEF TypeOK
<1>2. CASE Excuse
  BY <1>1, <1>2 DEF Excuse, EntryType
<1>3. CASE \E t \in Thread : Leaves(t)
  BY <1>1, <1>3 DEF Leaves, EntryType
<1>4. CASE caught' = NoEntry
  BY <1>4 DEF NoEntry, EntryType
<1>5. CASE \E t \in Thread : caught' = [t |-> t, excused |-> FALSE]
  <2>1. PICK t \in Thread : caught' = [t |-> t, excused |-> FALSE]
    BY <1>5
  <2> QED
    BY <2>1 DEF EntryType
<1> QED
  BY <1>1, <1>2, <1>3, <1>4, <1>5

\* A step that leaves the signals alone.
LEMMA KeepsSignals ==
    ASSUME SignalInv, UNCHANGED <<pending, sent, delivered>>, event'.kind = "signal" => event.kind = "signal"
    PROVE  SignalInv'
  BY DEF SignalInv, SignalOnce

-----------------------------------------------------------------------------
(* The commands keep the invariant. *)

\* The last task of every command.
LEMMA ReportLast ==
    ASSUME NEW c \in TaskType, c.op = "report"
    PROVE  \E s \in Seq(TaskType) : /\ s = Push(c, <<>>) /\ s # <<>> /\ Head(s) = c
                                    /\ WellNested(s) /\ Frames(s, "stepped") = {} /\ TracesOf(s) = {}
<1>0. <<>> \in Seq(TaskType)
  OBVIOUS
<1>1. PICK e \in Seq(TaskType) : e = <<>>
  BY <1>0, Zenon
<1>2. Frames(e, "stepped") = {} /\ TracesOf(e) = {} /\ WellNested(e) /\ FitsOn(c, e)
  BY <1>1, NoFrames DEF FitsOn, TracesOf
<1>3. c.op # "stepped" /\ c.op \notin {"trace", "traced"} /\ c.op \notin Threaded
  BY DEF Threaded
<1>4. /\ Push(c, e) \in Seq(TaskType) /\ Push(c, e) # <<>> /\ Head(Push(c, e)) = c
      /\ WellNested(Push(c, e)) /\ Frames(Push(c, e), "stepped") = {} /\ TracesOf(Push(c, e)) = {}
  BY <1>2, <1>3, PushFacts
<1> QED
  BY <1>1, <1>4

LEMMA KeepsContinue ==
    ASSUME RunControlInv, Continue
    PROVE  RunControlInv' /\ Steps' = {} /\ Traces' = {}
<1>1. /\ todo = <<>> /\ state = "stopped" /\ queued = None
      /\ todo' = <<Task("resume", current), Call("wait"), Call("report")>>
      /\ ret' = None
      /\ command' = [op |-> "continue", t |-> current, from |-> pc[current]]
      /\ UNCHANGED <<state, current, ports, enabled, stepping, pending, catching, tracing,
                     expecting, queued, live, pc, suspended, step_bit, event, sent, delivered, caught, lost>>
  BY Zenon DEF Continue, Followed, Prompt, inferiorVars
<1>2. TypeOK /\ ControlInv /\ SiteInv /\ HeldInv /\ SignalInv
  BY DEF RunControlInv
<1>3. current \in Thread
  BY <1>2 DEF TypeOK
<1> DEFINE a == Task("resume", current)  b == Call("wait")  c == Call("report")
<1>4. /\ a \in TaskType /\ b \in TaskType /\ c \in TaskType
      /\ a.op = "resume" /\ a.t = current /\ b.op = "wait" /\ c.op = "report"
  BY <1>3, NewTasks DEF Ops
<1> HIDE DEF a, b, c
<1>5. todo' = Push(a, Push(b, Push(c, <<>>)))
  BY <1>1, <1>4 DEF Push, a, b, c
<1>6. /\ Push(c, <<>>) \in Seq(TaskType) /\ Push(c, <<>>) # <<>> /\ Head(Push(c, <<>>)) = c
      /\ WellNested(Push(c, <<>>)) /\ Frames(Push(c, <<>>), "stepped") = {} /\ TracesOf(Push(c, <<>>)) = {}
  BY <1>4, ReportLast
<1>7. PICK s \in Seq(TaskType) : s = Push(b, Push(c, <<>>))
  BY <1>4, <1>6, PushFacts
<1>8. s # <<>> /\ Head(s) = b /\ WellNested(s) /\ Frames(s, "stepped") = {} /\ TracesOf(s) = {}
  BY <1>4, <1>6, <1>7, PushFacts DEF FitsOn, Follows, After, Waits, Threaded
<1>9. /\ todo' \in Seq(TaskType) /\ todo' # <<>> /\ Head(todo') = a /\ WellNested(todo')
      /\ Frames(todo', "stepped") = {} /\ TracesOf(todo') = {}
  <2>1. FitsOn(a, s) /\ a.op \notin {"stepped", "trace", "traced"} /\ a.t \in Thread
    BY <1>3, <1>4, <1>8 DEF FitsOn, Follows, After, Waits
  <2>2. todo' = Push(a, s)
    BY <1>5, <1>7
  <2> QED
    BY <2>1, <2>2, <1>4, <1>8, PushFacts
<1>10. Steps' = {} /\ Steps = {} /\ Traces = {} /\ Traces' = {}
  BY <1>9, <1>1, NoFrames DEF Steps, Traces, TracesOf
<1>11. TypeOK'
  BY <1>1, <1>2, <1>9 DEF TypeOK, None, Reason, ReasonType, Kinds
<1>12. ControlInv'
  BY <1>1, <1>2, <1>4, <1>9, <1>10, SameBegun DEF ControlInv, Waits
<1>13. SiteInv' /\ HeldInv'
  BY <1>1, <1>2, <1>10, KeepsSteps
<1>14. SignalInv'
  BY <1>1, <1>2, KeepsSignals
<1> QED
  BY <1>10, <1>11, <1>12, <1>13, <1>14 DEF RunControlInv

LEMMA KeepsStepI ==
    ASSUME RunControlInv, StepI
    PROVE  RunControlInv' /\ Steps' = {} /\ Traces' = {}
<1>1. /\ todo = <<>> /\ state = "stopped" /\ queued = None /\ Excuse
      /\ todo' = <<Task("step", current), Call("report")>>
      /\ ret' = None
      /\ command' = [op |-> "stepi", t |-> current, from |-> pc[current]]
      /\ UNCHANGED <<state, current, ports, enabled, stepping, pending, catching, tracing,
                     expecting, queued, live, pc, suspended, step_bit, event, sent, delivered, lost>>
  BY Zenon DEF StepI, Followed, Prompt, inferiorVars
<1>2. TypeOK /\ ControlInv /\ SiteInv /\ HeldInv /\ SignalInv
  BY DEF RunControlInv
<1>3. current \in Thread
  BY <1>2 DEF TypeOK
<1> DEFINE a == Task("step", current)  c == Call("report")
<1>4. a \in TaskType /\ c \in TaskType /\ a.op = "step" /\ a.t = current /\ c.op = "report"
  BY <1>3, NewTasks DEF Ops
<1> HIDE DEF a, c
<1>5. todo' = Push(a, Push(c, <<>>))
  BY <1>1, <1>4 DEF Push, a, c
<1>6. PICK s \in Seq(TaskType) :
        s = Push(c, <<>>) /\ s # <<>> /\ Head(s) = c /\ WellNested(s) /\ Frames(s, "stepped") = {} /\ TracesOf(s) = {}
  BY <1>4, ReportLast
<1>8. /\ todo' \in Seq(TaskType) /\ todo' # <<>> /\ Head(todo') = a /\ WellNested(todo')
      /\ Frames(todo', "stepped") = {} /\ TracesOf(todo') = {}
  BY <1>3, <1>4, <1>5, <1>6, PushFacts DEF FitsOn, Follows, After, Waits, Threaded
<1>10. Steps' = {} /\ Steps = {} /\ Traces = {} /\ Traces' = {}
  BY <1>8, <1>1, NoFrames DEF Steps, Traces, TracesOf
<1>11. TypeOK'
  BY <1>1, <1>2, <1>8, KeepsEntry DEF TypeOK, None, Reason, ReasonType, Kinds
<1>12. ControlInv'
  BY <1>1, <1>2, <1>4, <1>8, <1>10, SameBegun DEF ControlInv, Waits
<1>13. SiteInv' /\ HeldInv'
  BY <1>1, <1>2, <1>10, KeepsSteps
<1>14. SignalInv'
  BY <1>1, <1>2, KeepsSignals
<1> QED
  BY <1>10, <1>11, <1>12, <1>13, <1>14 DEF RunControlInv

LEMMA KeepsSettings ==
    ASSUME RunControlInv, SetCatchPolicy \/ \E t \in Thread : SelectThread(t)
    PROVE  RunControlInv'
<1>1. /\ todo = <<>> /\ Excuse
      /\ UNCHANGED <<todo, ret, state, ports, enabled, stepping, pending, tracing, expecting,
                     queued, live, pc, suspended, step_bit, event, sent, command, delivered, lost>>
  BY Zenon DEF SetCatchPolicy, SelectThread, Prompt, inferiorVars
<1>2. \/ catching' = ~catching /\ current' = current
      \/ catching' = catching /\ current' \in ports
  BY Zenon DEF SetCatchPolicy, SelectThread
<1>3. TypeOK /\ ControlInv /\ SiteInv /\ HeldInv /\ SignalInv
  BY DEF RunControlInv
<1>4. catching' \in BOOLEAN /\ current' \in Thread
  BY <1>2, <1>3 DEF TypeOK
<1>5. Steps' = Steps /\ Traces' = Traces
  BY <1>1 DEF Steps, Traces
<1>11. TypeOK'
  BY <1>1, <1>3, <1>4, KeepsEntry DEF TypeOK
<1>12. ControlInv'
  BY <1>1, <1>2, <1>3, <1>5, SameBegun DEF ControlInv
<1>13. SiteInv' /\ HeldInv'
  BY <1>1, <1>3, <1>5, KeepsSteps
<1>14. SignalInv'
  BY <1>1, <1>3, KeepsSignals
<1> QED
  BY <1>11, <1>12, <1>13, <1>14 DEF RunControlInv

-----------------------------------------------------------------------------
(* What returning and calling do to the tasks. *)

Loops == {"trace", "traced"}

\* Returning to the caller.
LEMMA PopFacts ==
    ASSUME TypeOK, ControlInv, todo # <<>>, todo' = Tail(todo), Head(todo).op # "stepped"
    PROVE  /\ todo' \in Seq(TaskType) /\ WellNested(todo') /\ Steps' = Steps
           /\ Head(todo).op \notin Loops => Traces' = Traces
           /\ todo' = <<>> <=> Head(todo).op = "report"
           /\ todo' # <<>> => Follows(Head(todo), Head(todo')) /\ Head(todo') \in TaskType
<1>1. todo \in Seq(TaskType) /\ WellNested(todo)
  BY DEF TypeOK, ControlInv
<1>2. PICK h \in TaskType, T \in Seq(TaskType) :
        /\ h = Head(todo) /\ T = Tail(todo)
        /\ FitsOn(h, T) /\ WellNested(T)
        /\ h.op # "stepped" => Steps = Frames(T, "stepped")
        /\ h.op \notin {"trace", "traced"} => Traces = TracesOf(T)
        /\ T # <<>> => Head(T) \in TaskType
  BY <1>1, HeadFacts, Zenon
<1>3. todo' = T
  BY <1>2
<1>4. Steps' = Frames(T, "stepped") /\ Traces' = TracesOf(T)
  BY <1>3 DEF Steps, Traces, TracesOf
<1>5. T = <<>> <=> h.op = "report"
  BY <1>2 DEF FitsOn, Follows, After, Waits
<1>6. T # <<>> => Follows(h, Head(T))
  BY <1>2 DEF FitsOn
<1> QED
  BY <1>2, <1>3, <1>4, <1>5, <1>6 DEF Loops

\* One task in the place of another.
LEMMA ReplaceFacts ==
    ASSUME TypeOK, ControlInv, todo # <<>>, NEW a \in TaskType, todo' = <<a>> \o Tail(todo),
           Head(todo).op \notin {"stepped", "report"}, a.op # "stepped",
           a.op \in Threaded => a.t \in Thread,
           After(a.op) = After(Head(todo).op), "traced" \notin After(a.op)
    PROVE  /\ todo' \in Seq(TaskType) /\ WellNested(todo') /\ Steps' = Steps
           /\ todo' # <<>> /\ Head(todo') = a /\ Tail(todo') = Tail(todo)
           /\ Head(todo).op \notin Loops /\ a.op \notin Loops => Traces' = Traces
           /\ a.op \in Loops => Traces' # {}
<1>1. todo \in Seq(TaskType) /\ WellNested(todo)
  BY DEF TypeOK, ControlInv
<1>2. PICK h \in TaskType, T \in Seq(TaskType) :
        /\ h = Head(todo) /\ T = Tail(todo)
        /\ FitsOn(h, T) /\ WellNested(T)
        /\ h.op # "stepped" => Steps = Frames(T, "stepped")
        /\ h.op \notin {"trace", "traced"} => Traces = TracesOf(T)
        /\ T # <<>> => Head(T) \in TaskType
  BY <1>1, HeadFacts, Zenon
<1>3. todo' = Push(a, T)
  BY <1>2 DEF Push
<1>4. Steps' = Frames(Push(a, T), "stepped") /\ Traces' = TracesOf(Push(a, T))
  BY <1>3 DEF Steps, Traces, TracesOf
<1>5. T # <<>>
  BY <1>2 DEF FitsOn, Follows, After, Waits
<1>6. FitsOn(a, T)
  BY <1>2, <1>5, Zenon DEF FitsOn, Follows
<1>7. /\ Push(a, T) \in Seq(TaskType) /\ Push(a, T) # <<>> /\ Head(Push(a, T)) = a
      /\ Tail(Push(a, T)) = T /\ WellNested(Push(a, T))
      /\ Frames(Push(a, T), "stepped") = Frames(T, "stepped")
  BY <1>2, <1>6, PushFacts
<1>8. /\ a.op \notin {"trace", "traced"} => TracesOf(Push(a, T)) = TracesOf(T)
      /\ a.op \in {"trace", "traced"} => TracesOf(Push(a, T)) # {}
  BY PushFacts
<1> QED
  BY <1>2, <1>3, <1>4, <1>7, <1>8, Zenon DEF Loops

LEMMA PairUp ==
    ASSUME NEW a \in TaskType, NEW b \in TaskType
    PROVE  <<a>> \o <<b>> = <<a, b>>
<1> DEFINE l == <<a>> \o <<b>>
<1>1. l \in Seq(TaskType) /\ Len(l) = 2 /\ l[1] = a /\ l[2] = b
  OBVIOUS
<1> HIDE DEF l
<1>2. l = <<a, b>>
  BY <1>1
<1> QED
  BY <1>2 DEF l

LEMMA PushTwo ==
    ASSUME NEW a \in TaskType, NEW b \in TaskType, NEW T \in Seq(TaskType)
    PROVE  <<a, b>> \o T = Push(a, Push(b, T))
<1>1. <<a>> \in Seq(TaskType) /\ <<b>> \in Seq(TaskType)
  OBVIOUS
<1>2. <<a>> \o (<<b>> \o T) = (<<a>> \o <<b>>) \o T
  BY <1>1, ConcatAssociative
<1> QED
  BY <1>2, PairUp DEF Push

\* Two tasks in the place of one.
LEMMA ReplaceTwoFacts ==
    ASSUME TypeOK, ControlInv, todo # <<>>, NEW a \in TaskType, NEW b \in TaskType,
           todo' = <<a, b>> \o Tail(todo),
           Head(todo).op \notin {"stepped", "report"}, {a.op, b.op} \cap {"stepped"} = {},
           a.op \in Threaded => a.t \in Thread, b.op \in Threaded => b.t \in Thread,
           Follows(a, b), After(b.op) = After(Head(todo).op), "traced" \notin After(b.op)
    PROVE  /\ todo' \in Seq(TaskType) /\ WellNested(todo') /\ Steps' = Steps
           /\ todo' # <<>> /\ Head(todo') = a
           /\ {Head(todo).op, a.op, b.op} \cap Loops = {} => Traces' = Traces
           /\ b.op \in Loops /\ a.op \notin Loops => Traces' # {}
<1>1. todo \in Seq(TaskType) /\ WellNested(todo)
  BY DEF TypeOK, ControlInv
<1>2. PICK h \in TaskType, T \in Seq(TaskType) :
        /\ h = Head(todo) /\ T = Tail(todo)
        /\ FitsOn(h, T) /\ WellNested(T)
        /\ h.op # "stepped" => Steps = Frames(T, "stepped")
        /\ h.op \notin {"trace", "traced"} => Traces = TracesOf(T)
        /\ T # <<>> => Head(T) \in TaskType
  BY <1>1, HeadFacts, Zenon
<1>3. todo' = Push(a, Push(b, T)) /\ a.op # "stepped" /\ b.op # "stepped"
  BY <1>2, PushTwo
<1>5. T # <<>>
  BY <1>2 DEF FitsOn, Follows, After, Waits
<1>6. FitsOn(b, T)
  BY <1>2, <1>5, Zenon DEF FitsOn, Follows
<1>7. PICK s \in Seq(TaskType) : s = Push(b, T)
  BY PushFacts
<1>8. /\ s # <<>> /\ Head(s) = b /\ WellNested(s)
      /\ Frames(s, "stepped") = Frames(T, "stepped")
      /\ b.op \notin {"trace", "traced"} => TracesOf(s) = TracesOf(T)
      /\ b.op \in {"trace", "traced"} => TracesOf(s) # {}
  BY <1>2, <1>6, <1>7, PushFacts
<1>9. FitsOn(a, s)
  BY <1>8 DEF FitsOn
<1>10. /\ todo' \in Seq(TaskType) /\ WellNested(todo') /\ todo' # <<>> /\ Head(todo') = a /\ Tail(todo') = s
       /\ Frames(todo', "stepped") = Frames(s, "stepped")
       /\ a.op \notin {"trace", "traced"} => TracesOf(todo') = TracesOf(s)
  <2>1. todo' = Push(a, s)
    BY <1>3, <1>7
  <2>2. /\ Push(a, s) \in Seq(TaskType) /\ WellNested(Push(a, s)) /\ Push(a, s) # <<>>
        /\ Head(Push(a, s)) = a /\ Tail(Push(a, s)) = s
        /\ Frames(Push(a, s), "stepped") = Frames(s, "stepped")
        /\ a.op \notin {"trace", "traced"} => TracesOf(Push(a, s)) = TracesOf(s)
    BY <1>3, <1>8, <1>9, PushFacts
  <2> QED
    BY <2>1, <2>2, Zenon
<1>11. Steps' = Frames(todo', "stepped") /\ Traces' = TracesOf(todo')
  BY DEF Steps, Traces, TracesOf
<1> QED
  BY <1>2, <1>8, <1>10, <1>11 DEF Loops

-----------------------------------------------------------------------------
(* resume and its loop keep the invariant. *)

LEMMA KeepsResume ==
    ASSUME RunControlInv, DoResume
    PROVE  /\ RunControlInv' /\ Steps' = Steps
           /\ todo' # <<>> /\ Head(todo').op \in {"trace", "send_continue", "step"}
           /\ Head(todo').op # "send_continue" => Head(todo').t = Head(todo).t
           /\ Head(todo').op # "trace" => tracing' = tracing
           /\ Head(todo').op = "trace" => tracing' = TRUE
           /\ catching = TRUE \/ Traces' = Traces
<1> DEFINE t == Head(todo).t
           trace == catching /\ ~tracing
           over == IF pc[t] \in enabled THEN <<Task("step", t)>> ELSE <<>>
<1>1. /\ todo # <<>> /\ Head(todo).op = "resume"
      /\ todo' = (IF trace THEN <<Task("trace", t)>> ELSE over \o <<Call("send_continue")>>) \o Tail(todo)
      /\ tracing' = (tracing \/ trace)
      /\ UNCHANGED <<ret, state, current, ports, enabled, stepping, pending, catching, expecting,
                     queued, live, pc, suspended, step_bit, event, sent, command, delivered, caught, lost>>
  BY Zenon DEF DoResume, Doing, Perform, inferiorVars
<1>2. TypeOK /\ ControlInv /\ SiteInv /\ HeldInv /\ SignalInv
  BY DEF RunControlInv
<1>3. t \in Thread /\ state = "stopped" /\ {tracing, catching} \subseteq BOOLEAN
  BY <1>1, <1>2, HeadFacts DEF TypeOK, ControlInv, Threaded
<1>4. /\ Task("step", t) \in TaskType /\ Task("step", t).op = "step" /\ Task("step", t).t = t
      /\ Task("trace", t) \in TaskType /\ Task("trace", t).op = "trace" /\ Task("trace", t).t = t
      /\ Call("send_continue") \in TaskType /\ Call("send_continue").op = "send_continue"
  BY <1>3, NewTasks DEF Ops
<1>5. \/ todo' = <<Task("trace", t)>> \o Tail(todo) /\ trace
      \/ todo' = <<Call("send_continue")>> \o Tail(todo) /\ ~trace
      \/ todo' = <<Task("step", t), Call("send_continue")>> \o Tail(todo) /\ ~trace
  <2>1. <<Task("step", t)>> \o <<Call("send_continue")>> = <<Task("step", t), Call("send_continue")>>
    BY <1>4, PairUp
  <2>2. <<>> \o <<Call("send_continue")>> = <<Call("send_continue")>>
    OBVIOUS
  <2> QED
    BY <1>1, <2>1, <2>2, Zenon
<1> HIDE DEF t, trace, over
<1>6. /\ todo' \in Seq(TaskType) /\ WellNested(todo') /\ Steps' = Steps /\ todo' # <<>>
      /\ Head(todo').op \in {"trace", "send_continue", "step"}
      /\ Head(todo').op # "send_continue" => Head(todo').t = t
      /\ Head(todo').op # "trace" => ~trace
      /\ Head(todo').op = "trace" => trace
      /\ IF trace THEN Traces' # {} ELSE Traces' = Traces
  <2>0. /\ After("trace") = After("resume") /\ After("send_continue") = After("resume")
        /\ "traced" \notin After("resume") /\ "send_continue" \in After("step")
    BY DEF After, Waits
  <2>1. CASE todo' = <<Task("trace", t)>> \o Tail(todo) /\ trace
    BY <2>0, <2>1, <1>1, <1>2, <1>3, <1>4, ReplaceFacts DEF Loops, Threaded
  <2>2. CASE todo' = <<Call("send_continue")>> \o Tail(todo) /\ ~trace
    BY <2>0, <2>2, <1>1, <1>2, <1>3, <1>4, ReplaceFacts DEF Loops, Threaded
  <2>3. CASE todo' = <<Task("step", t), Call("send_continue")>> \o Tail(todo) /\ ~trace
    <3>1. Follows(Task("step", t), Call("send_continue"))
      BY <2>0, <1>4 DEF Follows
    <3> QED
      BY <3>1, <2>0, <2>3, <1>1, <1>2, <1>3, <1>4, ReplaceTwoFacts DEF Loops, Threaded
  <2> QED
    BY <1>5, <2>1, <2>2, <2>3
<1>7. tracing' \in BOOLEAN /\ (tracing' => tracing \/ trace)
  BY <1>1, <1>3
<1>11. TypeOK'
  BY <1>1, <1>2, <1>6, <1>7 DEF TypeOK
<1>12. ControlInv'
  BY <1>1, <1>2, <1>3, <1>6, <1>7, SameBegun DEF ControlInv, Waits
<1>13. SiteInv' /\ HeldInv'
  BY <1>1, <1>2, <1>6, KeepsSteps
<1>14. SignalInv'
  BY <1>1, <1>2, KeepsSignals
<1>15. /\ Head(todo').op # "send_continue" => Head(todo').t = Head(todo).t
       /\ Head(todo').op # "trace" => tracing' = tracing
  BY <1>1, <1>3, <1>6 DEF t
<1>16. /\ Head(todo').op = "trace" => tracing' = TRUE
       /\ catching = TRUE \/ Traces' = Traces
  BY <1>1, <1>3, <1>6 DEF trace
<1> QED
  BY <1>6, <1>11, <1>12, <1>13, <1>14, <1>15, <1>16 DEF RunControlInv

LEMMA KeepsTrace ==
    ASSUME RunControlInv, DoTrace
    PROVE  /\ RunControlInv' /\ Steps' = Steps
           /\ todo' # <<>> /\ Head(todo').op \in Waits \cup {"step"}
           /\ Head(todo').op = "step" =>
                Head(todo').t = Head(todo).t /\ (SvcMatches(Head(todo).t) => expecting = TRUE)
<1> DEFINE t == Head(todo).t
           entry == SvcMatches(t) /\ ~expecting
<1>1. /\ todo # <<>> /\ Head(todo).op = "trace"
      /\ IF entry THEN todo' = Tail(todo)
                  ELSE todo' = <<Task("step", t), Task("traced", t)>> \o Tail(todo)
      /\ expecting' = (expecting \/ entry)
      /\ queued' = IF entry THEN Reason("syscall_entry", t) ELSE queued
      /\ tracing' = ~entry
      /\ caught' = IF entry THEN [t |-> t, excused |-> FALSE] ELSE caught
      /\ UNCHANGED <<ret, state, current, ports, enabled, stepping, pending, catching,
                     live, pc, suspended, step_bit, event, sent, command, delivered, lost>>
  BY Zenon DEF DoTrace, Doing, Perform, Return, inferiorVars
<1>2. TypeOK /\ ControlInv /\ SiteInv /\ HeldInv /\ SignalInv
  BY DEF RunControlInv
<1>3. t \in Thread /\ state = "stopped"
  BY <1>1, <1>2, HeadFacts DEF TypeOK, ControlInv, Threaded
<1>4. /\ Task("step", t) \in TaskType /\ Task("step", t).op = "step" /\ Task("step", t).t = t
      /\ Task("traced", t) \in TaskType /\ Task("traced", t).op = "traced" /\ Task("traced", t).t = t
  BY <1>3, NewTasks DEF Ops
<1>5. entry \in BOOLEAN /\ expecting' \in BOOLEAN
  BY <1>1, <1>2 DEF TypeOK
<1>6. Reason("syscall_entry", t) \in ReasonType /\ Reason("syscall_entry", t).kind = "syscall_entry"
  BY <1>3 DEF Reason, ReasonType, Kinds
<1> HIDE DEF t, entry
<1>7. /\ todo' \in Seq(TaskType) /\ WellNested(todo') /\ Steps' = Steps /\ todo' # <<>>
      /\ IF entry THEN Head(todo').op \in Waits ELSE Head(todo') = Task("step", t) /\ Traces' # {}
  <2>0. /\ After("traced") = After("trace") /\ After("trace") = Waits
        /\ "traced" \notin After("trace") /\ "traced" \in After("step")
    BY DEF After, Waits
  <2>1. CASE entry
    BY <2>0, <2>1, <1>1, <1>2, PopFacts DEF Follows
  <2>2. CASE ~entry
    <3>1. Follows(Task("step", t), Task("traced", t))
      BY <2>0, <1>4 DEF Follows
    <3> QED
      BY <3>1, <2>0, <2>2, <1>1, <1>2, <1>3, <1>4, ReplaceTwoFacts DEF Loops, Threaded
  <2> QED
    BY <2>1, <2>2
<1>8. queued' \in ReasonType /\ (queued' # None /\ ~entry => queued # None) /\ queued'.kind # "single_step"
  BY <1>1, <1>2, <1>6 DEF TypeOK, ControlInv
<1>9. tracing' \in BOOLEAN /\ (tracing' => ~entry)
  BY <1>1, <1>5
<1>10. Head(todo').op \in Waits \/ (~entry /\ Head(todo').op = "step" /\ Head(todo').t = t)
  BY <1>4, <1>7
<1>11. TypeOK'
  BY <1>1, <1>2, <1>3, <1>5, KeepsEntry, <1>7, <1>8, <1>9 DEF TypeOK
<1>12. ControlInv'
  BY <1>1, <1>2, <1>3, <1>7, <1>8, <1>9, <1>10, SameBegun DEF ControlInv, Waits
<1>13. SiteInv' /\ HeldInv'
  BY <1>1, <1>2, <1>7, KeepsSteps
<1>14. SignalInv'
  BY <1>1, <1>2, KeepsSignals
<1>15. Head(todo').op = "step" =>
         Head(todo').t = Head(todo).t /\ (SvcMatches(Head(todo).t) => expecting = TRUE)
  BY <1>2, <1>10 DEF t, entry, Waits, TypeOK
<1> QED
  BY <1>7, <1>10, <1>11, <1>12, <1>13, <1>14, <1>15 DEF RunControlInv

LEMMA KeepsTraced ==
    ASSUME RunControlInv, DoTraced
    PROVE  /\ RunControlInv' /\ Steps' = Steps
           /\ todo' # <<>> /\ Head(todo').op \in Waits \cup {"trace"}
           /\ Head(todo').op = "trace" => Head(todo').t = Head(todo).t /\ IsStep(ret)
<1> DEFINE t == Head(todo).t
           again == IsStep(ret) /\ ~expecting
<1>1. /\ todo # <<>> /\ Head(todo).op = "traced"
      /\ IF again THEN todo' = <<Task("trace", t)>> \o Tail(todo) ELSE todo' = Tail(todo)
      /\ queued' = CASE again -> queued
                     [] IsStep(ret) /\ expecting -> Reason("syscall_exit", t)
                     [] OTHER -> ret
      /\ expecting' = (expecting /\ ~IsStep(ret))
      /\ tracing' = again
      /\ caught' = NoEntry \/ Excuse
      /\ UNCHANGED <<ret, state, current, ports, enabled, stepping, pending, catching,
                     live, pc, suspended, step_bit, event, sent, command, delivered, lost>>
  BY Zenon DEF DoTraced, Doing, Perform, Return, inferiorVars
<1>2. TypeOK /\ ControlInv /\ SiteInv /\ HeldInv /\ SignalInv
  BY DEF RunControlInv
<1>3. t \in Thread /\ state # "running" /\ (state = "exited" => ~again)
  BY <1>1, <1>2, HeadFacts DEF TypeOK, ControlInv, Threaded, Waits
<1>4. Task("trace", t) \in TaskType /\ Task("trace", t).op = "trace" /\ Task("trace", t).t = t
  BY <1>3, NewTasks DEF Ops
<1>5. again \in BOOLEAN /\ expecting' \in BOOLEAN
  BY <1>1, <1>2 DEF TypeOK, IsStep
<1>6. Reason("syscall_exit", t) \in ReasonType /\ Reason("syscall_exit", t).kind = "syscall_exit"
  BY <1>3 DEF Reason, ReasonType, Kinds
<1>8. queued' \in ReasonType /\ (queued' # None /\ again => queued # None) /\ queued'.kind # "single_step"
  BY <1>1, <1>2, <1>6 DEF TypeOK, ControlInv, IsStep
<1> HIDE DEF t, again
<1>7. /\ todo' \in Seq(TaskType) /\ WellNested(todo') /\ Steps' = Steps /\ todo' # <<>>
      /\ IF again THEN Head(todo').op = "trace" /\ Head(todo').t = t /\ Traces' # {} ELSE Head(todo').op \in Waits
  <2>0. /\ After("traced") = After("trace") /\ After("trace") = Waits /\ "traced" \notin After("trace")
    BY DEF After, Waits
  <2>1. CASE ~again
    BY <2>0, <2>1, <1>1, <1>2, PopFacts DEF Follows
  <2>2. CASE again
    BY <2>0, <2>2, <1>1, <1>2, <1>3, <1>4, ReplaceFacts DEF Loops, Threaded
  <2> QED
    BY <2>1, <2>2
<1>9. tracing' \in BOOLEAN /\ (tracing' => again)
  BY <1>1, <1>5
<1>11. TypeOK'
  BY <1>1, <1>2, KeepsEntry, <1>5, <1>7, <1>8, <1>9 DEF TypeOK
<1>12. ControlInv'
  BY <1>1, <1>2, <1>3, <1>7, <1>8, <1>9, SameBegun DEF ControlInv, Waits, TypeOK
<1>13. SiteInv' /\ HeldInv'
  BY <1>1, <1>2, <1>7, KeepsSteps
<1>14. SignalInv'
  BY <1>1, <1>2, KeepsSignals
<1>15. Head(todo').op = "trace" => Head(todo').t = Head(todo).t /\ IsStep(ret)
  BY <1>7 DEF t, again, Waits
<1> QED
  BY <1>7, <1>11, <1>12, <1>13, <1>14, <1>15 DEF RunControlInv
LEMMA KeepsSendContinue ==
    ASSUME RunControlInv, SendContinue
    PROVE  RunControlInv'
<1>1. /\ todo # <<>> /\ Head(todo).op = "send_continue" /\ state = "stopped"
      /\ todo' = Tail(todo)
      /\ state' = "running" /\ pending' = 0
      /\ delivered' = delivered \cup ({pending} \ {0})
      /\ UNCHANGED <<ret, current, ports, enabled, stepping, catching, tracing, expecting,
                     queued, live, pc, suspended, step_bit, event, sent, command, caught, lost>>
  BY Zenon DEF SendContinue, Doing, Return, inferiorVars
<1>2. TypeOK /\ ControlInv /\ SiteInv /\ HeldInv /\ SignalInv
  BY DEF RunControlInv
<1>3. /\ todo' \in Seq(TaskType) /\ WellNested(todo') /\ Steps' = Steps /\ Traces' = Traces
      /\ todo' # <<>> /\ Head(todo').op \in Waits
  BY <1>1, <1>2, PopFacts DEF Loops, Follows, After, Waits
<1>4. queued = None /\ event = None
  BY <1>1, <1>2 DEF ControlInv, Waits
<1>5. event.kind # "signal"
  BY <1>4 DEF None, Reason
<1>6. pending' \in 0 .. MaxSignals /\ delivered' \subseteq 1 .. MaxSignals
  BY <1>1, <1>2, RunControlAssumption DEF TypeOK
<1>11. TypeOK'
  BY <1>1, <1>2, <1>3, <1>6 DEF TypeOK
<1>12. ControlInv'
  BY <1>1, <1>2, <1>3, <1>4, SameBegun DEF ControlInv, Waits
<1>13. SiteInv' /\ HeldInv'
  BY <1>1, <1>2, <1>3, KeepsSteps
<1>7. pending \in Nat /\ sent \in Nat /\ delivered \subseteq Nat
  BY <1>2, RunControlAssumption DEF TypeOK
<1>14. SignalInv'
  BY <1>1, <1>2, <1>5, <1>7 DEF SignalInv, SignalOnce
<1> QED
  BY <1>11, <1>12, <1>13, <1>14 DEF RunControlInv

LEMMA KeepsGoneThrows ==
    ASSUME RunControlInv, GoneThrows
    PROVE  RunControlInv'
<1>1. /\ todo # <<>> /\ Head(todo).op \in {"send_continue", "waitpid"} /\ state = "exited"
      /\ todo' = <<>> /\ ret' = Reason("error", current)
      /\ tracing' = FALSE /\ command' = Idle
      /\ UNCHANGED <<state, current, ports, enabled, stepping, pending, catching, expecting,
                     queued, live, pc, suspended, step_bit, event, sent, delivered, caught, lost>>
  BY Zenon DEF GoneThrows, Doing, inferiorVars
<1>2. TypeOK /\ ControlInv /\ SiteInv /\ HeldInv /\ SignalInv
  BY DEF RunControlInv
<1>4. WellNested(todo')
  BY <1>1, NoFrames
<1>5. ret' \in ReasonType
  BY <1>1, <1>2 DEF TypeOK, Reason, ReasonType, Kinds
<1>6. command' \in [op : {"none", "continue", "stepi"}, t : Thread \cup {NoThread}, from : Addr]
  BY <1>1, RunControlAssumption DEF Idle, Addr
<1>7. todo' \in Seq(TaskType)
  BY <1>1
<1>11. TypeOK'
  BY <1>1, <1>2, <1>5, <1>6, <1>7 DEF TypeOK
<1>12. ControlInv'
  BY <1>1, <1>2, <1>4 DEF ControlInv, Waits
<1>13. SiteInv' /\ HeldInv'
  BY <1>1, <1>2 DEF SiteInv, HeldInv
<1>14. SignalInv'
  BY <1>1, <1>2, KeepsSignals
<1> QED
  BY <1>11, <1>12, <1>13, <1>14 DEF RunControlInv

-----------------------------------------------------------------------------
(* wait_on_signal keeps the invariant. *)

LEMMA KeepsWait ==
    ASSUME RunControlInv, DoWait
    PROVE  RunControlInv'
<1>1. /\ todo # <<>> /\ Head(todo).op = "wait"
      /\ \/ queued # None /\ todo' = Tail(todo) /\ ret' = queued
         \/ queued = None /\ todo' = <<Call("waitpid")>> \o Tail(todo) /\ ret' = ret
      /\ queued' = None
      /\ UNCHANGED <<state, current, ports, enabled, stepping, pending, catching, tracing,
                     expecting, live, pc, suspended, step_bit, event, sent, command, delivered, caught, lost>>
  BY Zenon DEF DoWait, Doing, Perform, Return, inferiorVars
<1>2. TypeOK /\ ControlInv /\ SiteInv /\ HeldInv /\ SignalInv
  BY DEF RunControlInv
<1>3. /\ todo' \in Seq(TaskType) /\ WellNested(todo') /\ Steps' = Steps /\ Traces' = Traces
      /\ todo' # <<>>
      /\ Head(todo').op \in IF queued # None THEN {"report", "stepped"} ELSE {"waitpid"}
  <2>0. /\ After("wait") = {"report", "stepped"} /\ After("waitpid") = {"report", "stepped"}
        /\ Call("waitpid") \in TaskType /\ Call("waitpid").op = "waitpid"
    BY NewTasks DEF After, Waits, Ops
  <2>1. CASE queued # None
    BY <1>1, <1>2, <2>0, <2>1, PopFacts DEF Loops, Follows
  <2>2. CASE queued = None
    <3>1. todo' = <<Call("waitpid")>> \o Tail(todo) /\ todo # <<>> /\ Head(todo).op = "wait"
      BY <1>1, <2>2
    <3>2. "traced" \notin After("waitpid") /\ After("waitpid") = After("wait")
      BY <2>0
    <3>3. /\ todo' \in Seq(TaskType) /\ WellNested(todo') /\ Steps' = Steps /\ Traces' = Traces
          /\ todo' # <<>> /\ Head(todo') = Call("waitpid")
      BY <3>1, <3>2, <1>2, <2>0, ReplaceFacts DEF Loops, Threaded
    <3> QED
      BY <3>3, <2>0, <2>2
  <2> QED
    BY <2>1, <2>2
<1>4. queued'.kind # "single_step" /\ None \in ReasonType
  BY <1>1 DEF None, Reason, ReasonType, Kinds
<1>11. TypeOK'
  BY <1>1, <1>2, <1>3, <1>4 DEF TypeOK
<1>12. ControlInv'
  BY <1>1, <1>2, <1>3, <1>4, SameBegun DEF ControlInv, Waits, IsStep
<1>13. SiteInv' /\ HeldInv'
  BY <1>1, <1>2, <1>3, KeepsSteps
<1>14. SignalInv'
  BY <1>1, <1>2, KeepsSignals
<1> QED
  BY <1>11, <1>12, <1>13, <1>14 DEF RunControlInv

LEMMA KeepsWaitExit ==
    ASSUME RunControlInv, WaitExit
    PROVE  RunControlInv'
<1>1. /\ todo # <<>> /\ Head(todo).op = "waitpid" /\ event.kind = "exited"
      /\ state' = "exited" /\ event' = None /\ ret' = Reason("exited", current)
      /\ todo' = Tail(todo)
      /\ UNCHANGED <<current, ports, enabled, stepping, pending, catching, tracing, expecting,
                     queued, live, pc, suspended, step_bit, sent, command, delivered, caught, lost>>
  BY Zenon DEF WaitExit, Doing, Return
<1>2. TypeOK /\ ControlInv /\ SiteInv /\ HeldInv /\ SignalInv
  BY DEF RunControlInv
<1>3. /\ todo' \in Seq(TaskType) /\ WellNested(todo') /\ Steps' = Steps /\ Traces' = Traces
      /\ todo' # <<>> /\ Head(todo').op \in {"report", "stepped"}
  BY <1>1, <1>2, PopFacts DEF Loops, Follows, After, Waits
<1>4. event # None /\ None.kind = "none"
  BY <1>1 DEF None, Reason
<1>5. queued = None
  BY <1>2, <1>4 DEF ControlInv
<1>6. /\ Reason("exited", current) \in ReasonType /\ None \in ReasonType
      /\ Reason("exited", current).kind = "exited"
  BY <1>2 DEF TypeOK, None, Reason, ReasonType, Kinds
<1>11. TypeOK'
  BY <1>1, <1>2, <1>3, <1>6 DEF TypeOK
<1>12. ControlInv'
  BY <1>1, <1>2, <1>3, <1>5, <1>6, SameBegun DEF ControlInv, Waits, IsStep
<1>13. SiteInv' /\ HeldInv'
  BY <1>1, <1>2, <1>3, KeepsSteps
<1>14. SignalInv'
  BY <1>1, <1>2, <1>4, KeepsSignals
<1> QED
  BY <1>11, <1>12, <1>13, <1>14 DEF RunControlInv

LEMMA KeepsWaitSignal ==
    ASSUME RunControlInv, WaitSignal
    PROVE  RunControlInv'
<1>1. /\ todo # <<>> /\ Head(todo).op = "waitpid" /\ event.kind \in {"signal", "sigstop"}
      /\ state' = "stopped" /\ event' = None /\ ports' = live
      /\ current' \in live /\ ret' = Reason(event.kind, current')
      /\ pending' = IF event.kind = "signal" THEN sent ELSE pending
      /\ todo' = Tail(todo)
      /\ UNCHANGED <<enabled, stepping, catching, tracing, expecting, queued,
                     live, pc, suspended, step_bit, sent, command, delivered, caught, lost>>
  BY Zenon DEF WaitSignal, Doing, Return, StillCurrent
<1>2. TypeOK /\ ControlInv /\ SiteInv /\ HeldInv /\ SignalInv
  BY DEF RunControlInv
<1>3. /\ todo' \in Seq(TaskType) /\ WellNested(todo') /\ Steps' = Steps /\ Traces' = Traces
      /\ todo' # <<>> /\ Head(todo').op \in {"report", "stepped"}
  BY <1>1, <1>2, PopFacts DEF Loops, Follows, After, Waits
<1>4. event # None /\ None.kind = "none"
  BY <1>1 DEF None, Reason
<1>5. queued = None /\ state = "running"
  BY <1>2, <1>4 DEF ControlInv
<1>6. current' \in Thread /\ None \in ReasonType /\ ret' \in ReasonType
  BY <1>1, <1>2 DEF TypeOK, None, Reason, ReasonType, Kinds
<1>11. TypeOK'
  BY <1>1, <1>2, <1>3, <1>6 DEF TypeOK
<1>12. ControlInv'
  BY <1>1, <1>2, <1>3, <1>5, <1>6, SameBegun DEF ControlInv, Waits
<1>13. SiteInv' /\ HeldInv'
  BY <1>1, <1>2, <1>3, <1>5, KeepsSteps
<1>14. SignalInv'
  BY <1>1, <1>2, <1>4 DEF SignalInv, SignalOnce, TypeOK
<1> QED
  BY <1>11, <1>12, <1>13, <1>14 DEF RunControlInv

\* A trap is attributed to a live thread.
LEMMA AttributedLive ==
    ASSUME NEW r \in Attributed, TypeOK
    PROVE  r.t \in live /\ r \in ReasonType /\ r.kind \in {"software_break", "single_step", "unknown"}
<1>1. live \subseteq Thread
  BY DEF TypeOK
<1>2. PICK t \in live, k \in {"software_break", "single_step", "unknown"} : r = Reason(k, t)
  BY Zenon DEF Attributed, StillCurrent
<1> QED
  BY <1>1, <1>2 DEF Reason, ReasonType, Kinds

LEMMA KeepsWaitTrap ==
    ASSUME RunControlInv, WaitTrap
    PROVE  RunControlInv'
<1>1. PICK r \in Attributed :
      /\ todo # <<>> /\ Head(todo).op = "waitpid" /\ event.kind = "trap"
      /\ state' = "stopped" /\ event' = None /\ ports' = live
      /\ current' = r.t
      /\ \/ todo' = <<Task("resume", r.t), Call("waitpid")>> \o Tail(todo) /\ ret' = ret
         \/ todo' = Tail(todo) /\ ret' = r
      /\ UNCHANGED <<enabled, stepping, pending, catching, tracing, expecting, queued,
                     live, pc, suspended, step_bit, sent, command, delivered, caught, lost>>
  BY Zenon DEF WaitTrap, Doing, Return, Perform
<1>2. TypeOK /\ ControlInv /\ SiteInv /\ HeldInv /\ SignalInv
  BY DEF RunControlInv
<1>a. r.t \in live /\ r \in ReasonType /\ r.t \in Thread
  BY <1>2, AttributedLive DEF TypeOK
<1>3. /\ todo' \in Seq(TaskType) /\ WellNested(todo') /\ Steps' = Steps /\ Traces' = Traces
      /\ todo' # <<>> /\ Head(todo').op \in {"report", "stepped", "resume"}
  <2>0. /\ After("waitpid") = {"report", "stepped"} /\ "waitpid" \in After("resume")
        /\ Call("waitpid") \in TaskType /\ Call("waitpid").op = "waitpid"
        /\ Task("resume", r.t) \in TaskType /\ Task("resume", r.t).op = "resume" /\ Task("resume", r.t).t = r.t
    BY <1>a, NewTasks DEF After, Waits, Ops
  <2>1. CASE todo' = Tail(todo)
    BY <1>1, <1>2, <2>0, <2>1, PopFacts DEF Loops, Follows
  <2>2. CASE todo' = <<Task("resume", r.t), Call("waitpid")>> \o Tail(todo)
    <3>1. Follows(Task("resume", r.t), Call("waitpid"))
      BY <2>0 DEF Follows
    <3>2. "traced" \notin After("waitpid") /\ todo # <<>> /\ Head(todo).op = "waitpid"
      BY <2>0, <1>1
    <3>3. /\ todo' \in Seq(TaskType) /\ WellNested(todo') /\ Steps' = Steps /\ Traces' = Traces
          /\ todo' # <<>> /\ Head(todo') = Task("resume", r.t)
      BY <3>1, <3>2, <1>2, <1>a, <2>0, <2>2, ReplaceTwoFacts DEF Loops, Threaded
    <3> QED
      BY <3>3, <2>0
  <2> QED
    BY <1>1, <2>1, <2>2
<1>4. event # None /\ None.kind = "none" /\ None \in ReasonType
  BY <1>1 DEF None, Reason, ReasonType, Kinds
<1>5. queued = None /\ state = "running"
  BY <1>2, <1>4 DEF ControlInv
<1>11. TypeOK'
  BY <1>1, <1>2, <1>3, <1>4, <1>a DEF TypeOK
<1>12. ControlInv'
  BY <1>1, <1>2, <1>3, <1>5, <1>a, SameBegun DEF ControlInv, Waits
<1>13. SiteInv' /\ HeldInv'
  BY <1>1, <1>2, <1>3, <1>5, KeepsSteps
<1>14. SignalInv'
  BY <1>1, <1>2, <1>4, KeepsSignals
<1> QED
  BY <1>11, <1>12, <1>13, <1>14 DEF RunControlInv

LEMMA KeepsReport ==
    ASSUME RunControlInv, Report
    PROVE  RunControlInv'
<1>1. /\ todo # <<>> /\ Head(todo).op = "report" /\ todo' = Tail(todo) /\ command' = Idle
      /\ UNCHANGED <<ret, state, current, ports, enabled, stepping, pending, catching, tracing,
                     expecting, queued, live, pc, suspended, step_bit, event, sent, delivered, caught, lost>>
  BY Zenon DEF Report, Doing, Return, inferiorVars
<1>2. TypeOK /\ ControlInv /\ SiteInv /\ HeldInv /\ SignalInv
  BY DEF RunControlInv
<1>3. /\ todo' \in Seq(TaskType) /\ WellNested(todo') /\ Steps' = Steps /\ Traces' = Traces
      /\ todo' = <<>>
  BY <1>1, <1>2, PopFacts DEF Loops
<1>11. TypeOK'
  BY <1>1, <1>2, <1>3, RunControlAssumption DEF TypeOK, Idle, Addr, NoThread
<1>12. ControlInv'
  BY <1>1, <1>2, <1>3, SameBegun DEF ControlInv, Waits
<1>13. SiteInv' /\ HeldInv'
  BY <1>1, <1>2, <1>3, KeepsSteps
<1>14. SignalInv'
  BY <1>1, <1>2, KeepsSignals
<1> QED
  BY <1>11, <1>12, <1>13, <1>14 DEF RunControlInv

-----------------------------------------------------------------------------
(* step_instruction keeps the invariant. *)

LEMMA HoldingFinite ==
    ASSUME TypeOK, HeldInv, NEW u
    PROVE  IsFiniteSet(Holding(u)) /\ Cardinality(Holding(u)) \in Nat
<1>1. todo \in Seq(TaskType) /\ IsFiniteSet(lost.steps)
  BY DEF TypeOK, HeldInv
<1>2. IsFiniteSet(Steps)
  BY <1>1, FramesFinite DEF Steps
<1> DEFINE f == [e \in Steps |-> Tag(e)]
<1>3. f \in Surjection(Steps, {Tag(e) : e \in Steps})
  BY DEF Surjection
<1>4. IsFiniteSet({Tag(e) : e \in Steps})
  BY <1>2, <1>3, FS_Surjection
<1>5. IsFiniteSet(Begun)
  BY <1>1, <1>4, FS_Union DEF Begun
<1>6. Holding(u) \subseteq Begun
  BY DEF Holding
<1> QED
  BY <1>5, <1>6, FS_Subset, FS_CardinalityType

\* A step that begins or ends is told from all the others.
LEMMA NewTag ==
    ASSUME TypeOK, HeldInv, NEW A, NEW x, x \notin A, \A e \in A \cup {x} : e = <<e[1], e[2]>>
    PROVE  Tag(x) \notin {Tag(e) : e \in A} \cup lost.steps /\ Tag(x).step = x[2]
<1>1. lost.throws \in Nat /\ \A c \in lost.steps : c.throw < lost.throws
  BY DEF TypeOK, HeldInv
<1>2. Tag(x).throw = lost.throws /\ Tag(x).behind = x[1] /\ Tag(x).step = x[2]
  BY DEF Tag
<1>3. \A e \in A : Tag(e).behind = e[1] /\ Tag(e).step = e[2]
  BY DEF Tag
<1>4. \A e \in A : Tag(e) # Tag(x)
  BY <1>2, <1>3
<1>5. Tag(x) \notin lost.steps
  BY <1>1, <1>2
<1> QED
  BY <1>2, <1>4, <1>5

LEMMA StepPairs == /\ \A e \in Steps : e = <<e[1], e[2]>>
                   /\ \A e \in Steps' : e = <<e[1], e[2]>>
  BY DEF Steps, Frames

LEMMA BegunGrows ==
    ASSUME TypeOK, HeldInv, NEW x, x \notin Steps, Steps' = Steps \cup {x}, lost' = lost
    PROVE  \E y : y.step = x[2] /\ Begun' = Begun \cup {y} /\ y \notin Begun
<1>1. Tag(x) \notin {Tag(e) : e \in Steps} \cup lost.steps /\ Tag(x).step = x[2]
  BY StepPairs, NewTag
<1>2. Begun' = Begun \cup {Tag(x)}
  BY DEF Begun, Tag
<1> QED
  BY <1>1, <1>2 DEF Begun

LEMMA BegunShrinks ==
    ASSUME TypeOK, HeldInv, NEW x, x \notin Steps', Steps = Steps' \cup {x}, lost' = lost
    PROVE  \E y : y.step = x[2] /\ Begun = Begun' \cup {y} /\ y \notin Begun'
<1>1. PICK A : A = Steps'
  OBVIOUS
<1>2. Tag(x) \notin {Tag(e) : e \in A} \cup lost.steps /\ Tag(x).step = x[2]
  BY <1>1, StepPairs, NewTag
<1>3. Begun' = {Tag(e) : e \in A} \cup lost.steps
  BY <1>1 DEF Begun, Tag
<1>4. Begun = Begun' \cup {Tag(x)}
  BY <1>1, <1>3 DEF Begun
<1> QED
  BY <1>2, <1>3, <1>4

\* The step_instruction that begins is one more step under way.
LEMMA StepBegins ==
    ASSUME RunControlInv, DoStep
    PROVE  \E e \in TaskType, T \in Seq(TaskType) :
              /\ e.op = "stepped" /\ e.t = Head(todo).t /\ e.site = {pc[e.t]} \cap enabled
              /\ e.held = ports \ {e.t} /\ e.t \in Thread
              /\ todo' \in Seq(TaskType) /\ todo' # <<>> /\ WellNested(todo')
              /\ Head(todo').op = "wait" /\ Tail(todo') = Push(e, T) /\ T = Tail(todo)
              /\ Traces' = Traces /\ Steps = Frames(T, "stepped")
              /\ Steps' = Steps \cup {<<Len(T), e>>} /\ <<Len(T), e>> \notin Steps
<1>1. TypeOK /\ todo # <<>> /\ Head(todo).op = "step" /\ todo \in Seq(TaskType) /\ WellNested(todo)
  BY DEF RunControlInv, TypeOK, ControlInv, DoStep, Doing
<1>2. PICK h \in TaskType, T \in Seq(TaskType) :
        /\ h = Head(todo) /\ T = Tail(todo)
        /\ h.op \in Threaded => h.t \in Thread
        /\ FitsOn(h, T) /\ WellNested(T)
        /\ h.op # "stepped" => Steps = Frames(T, "stepped")
        /\ h.op \notin {"trace", "traced"} => Traces = TracesOf(T)
  BY <1>1, HeadFacts, Zenon
<1> DEFINE site == {pc[h.t]} \cap enabled
           others == ports \ {h.t}
           e == [op |-> "stepped", t |-> h.t, site |-> site, held |-> others]
<1>3. h.t \in Thread /\ site \subseteq Sites /\ others \subseteq Thread
  BY <1>1, <1>2 DEF TypeOK, Threaded
<1>4. todo' = <<Call("wait"), e>> \o T
  BY <1>2, Zenon DEF DoStep, Perform
<1> HIDE DEF site, others
<1>5. /\ e \in TaskType /\ e.op = "stepped" /\ e.t = h.t /\ e.site = site /\ e.held = others
  BY <1>3 DEF TaskType, Ops
<1> HIDE DEF e
<1>6. Call("wait") \in TaskType /\ Call("wait").op = "wait"
  BY NewTasks DEF Ops
<1>7. todo' = Push(Call("wait"), Push(e, T))
  BY <1>4, <1>5, <1>6, PushTwo
<1>8. FitsOn(e, T)
  BY <1>1, <1>2, <1>5 DEF FitsOn, Follows, After, Waits
<1>9. PICK s \in Seq(TaskType) : s = Push(e, T)
  BY <1>5, PushFacts
<1>10. /\ s # <<>> /\ Head(s) = e /\ WellNested(s)
       /\ Frames(s, "stepped") = Frames(T, "stepped") \cup {<<Len(T), e>>}
       /\ <<Len(T), e>> \notin Frames(T, "stepped")
       /\ TracesOf(s) = TracesOf(T)
  BY <1>2, <1>3, <1>5, <1>8, <1>9, PushFacts
<1>11. FitsOn(Call("wait"), s)
  BY <1>5, <1>6, <1>10 DEF FitsOn, Follows, After, Waits
<1>12. /\ todo' \in Seq(TaskType) /\ todo' # <<>> /\ WellNested(todo') /\ Head(todo') = Call("wait")
       /\ Tail(todo') = s /\ Frames(todo', "stepped") = Frames(s, "stepped") /\ TracesOf(todo') = TracesOf(s)
  <2>1. todo' = Push(Call("wait"), s)
    BY <1>7, <1>9
  <2>2. LET p == Push(Call("wait"), s)
        IN  /\ p \in Seq(TaskType) /\ p # <<>> /\ WellNested(p) /\ Head(p) = Call("wait")
            /\ Tail(p) = s /\ Frames(p, "stepped") = Frames(s, "stepped") /\ TracesOf(p) = TracesOf(s)
    BY <1>6, <1>10, <1>11, PushFacts DEF Threaded
  <2> QED
    BY <2>1, <2>2, Zenon
<1>13. Steps' = Frames(todo', "stepped") /\ Traces' = TracesOf(todo')
  BY DEF Steps, Traces, TracesOf
<1>14. Steps = Frames(T, "stepped") /\ Traces = TracesOf(T)
  BY <1>1, <1>2
<1>15. Steps' = Steps \cup {<<Len(T), e>>} /\ <<Len(T), e>> \notin Steps /\ Traces' = Traces
  BY <1>10, <1>12, <1>13, <1>14
<1> QED
  BY <1>2, <1>3, <1>5, <1>6, <1>9, <1>12, <1>14, <1>15 DEF site, others

LEMMA KeepsStep ==
    ASSUME RunControlInv, DoStep
    PROVE  RunControlInv'
<1>1. PICK e \in TaskType, T \in Seq(TaskType) :
        /\ e.op = "stepped" /\ e.t = Head(todo).t /\ e.site = {pc[e.t]} \cap enabled
        /\ e.held = ports \ {e.t} /\ e.t \in Thread
        /\ todo' \in Seq(TaskType) /\ todo' # <<>> /\ WellNested(todo')
        /\ Head(todo').op = "wait" /\ Tail(todo') = Push(e, T) /\ T = Tail(todo)
        /\ Traces' = Traces /\ Steps = Frames(T, "stepped")
        /\ Steps' = Steps \cup {<<Len(T), e>>} /\ <<Len(T), e>> \notin Steps
  BY StepBegins, Zenon
<1>2. /\ todo # <<>> /\ Head(todo).op = "step"
      /\ current' = e.t /\ enabled' = enabled \ e.site
      /\ suspended' = [u \in Thread |-> suspended[u] + (IF u \in e.held THEN 1 ELSE 0)]
      /\ step_bit' = step_bit \cup {e.t}
      /\ stepping' = TRUE /\ state' = "running"
      /\ UNCHANGED <<ret, ports, pending, catching, tracing, expecting, queued,
                     live, pc, event, sent, command, delivered, caught, lost>>
  BY <1>1, Zenon DEF DoStep, Doing
<1>3. TypeOK /\ ControlInv /\ SiteInv /\ HeldInv /\ SignalInv
  BY DEF RunControlInv
<1>4. state = "stopped" /\ ports = live /\ queued = None
  BY <1>2, <1>3 DEF ControlInv, Waits
<1>5. PICK y : y.step = e /\ Begun' = Begun \cup {y} /\ y \notin Begun
  <2>1. PICK x : x[2] = e /\ Steps' = Steps \cup {x} /\ x \notin Steps
    BY <1>1
  <2> QED
    BY <2>1, <1>2, <1>3, BegunGrows
<1>6. suspended' \in [Thread -> Nat]
  BY <1>2, <1>3 DEF TypeOK
<1>11. TypeOK'
  BY <1>1, <1>2, <1>3, <1>6 DEF TypeOK
<1>12. ControlInv'
  BY <1>1, <1>2, <1>3, <1>4, <1>5 DEF ControlInv, Waits
<1>13. SiteInv'
  <2>1. /\ enabled = Sites \ UNION {f.step.site : f \in Begun}
        /\ \A f, g \in Begun : f # g => f.step.site \cap g.step.site = {}
        /\ step_bit \subseteq {f.step.t : f \in Begun}
    BY <1>3, <1>4 DEF SiteInv
  <2>2. enabled' = Sites \ UNION {f.step.site : f \in Begun'}
    BY <2>1, <1>2, <1>5
  <2>3. ASSUME NEW f \in Begun', NEW g \in Begun', f # g
        PROVE  f.step.site \cap g.step.site = {}
    <3>1. e.site \subseteq enabled
      BY <1>1
    <3> QED
      BY <3>1, <2>1, <2>3, <1>5
  <2>4. step_bit' \subseteq {f.step.t : f \in Begun'}
    BY <2>1, <1>2, <1>5
  <2> QED
    BY <2>2, <2>3, <2>4 DEF SiteInv
<1>14. HeldInv'
  <2>1. /\ \A f \in Begun : f.step.held \subseteq live
        /\ \A u \in live : suspended[u] = Cardinality(Holding(u))
    BY <1>3, <1>4 DEF HeldInv
  <2>2. \A f \in Begun' : f.step.held \subseteq live'
    BY <2>1, <1>1, <1>2, <1>4, <1>5
  <2>3. ASSUME NEW u \in live
        PROVE  suspended'[u] = Cardinality(Holding(u)')
    <3>1. IsFiniteSet(Holding(u)) /\ Cardinality(Holding(u)) \in Nat /\ y \notin Holding(u)
      BY <1>3, <1>5, HoldingFinite DEF Holding
    <3>2. u \in Thread
      BY <1>3 DEF TypeOK
    <3>3. CASE u \in e.held
      <4>1. Holding(u)' = Holding(u) \cup {y}
        BY <3>3, <1>5 DEF Holding
      <4>2. Cardinality(Holding(u)') = Cardinality(Holding(u)) + 1
        BY <4>1, <3>1, FS_AddElement
      <4> QED
        BY <4>2, <3>2, <3>3, <2>1, <1>2
    <3>4. CASE u \notin e.held
      <4>1. Holding(u)' = Holding(u)
        BY <3>4, <1>5 DEF Holding
      <4>2. suspended'[u] = suspended[u]
        BY <3>2, <3>4, <1>2, <1>3 DEF TypeOK
      <4> QED
        BY <4>1, <4>2, <2>1
    <3> QED
      BY <3>3, <3>4
  <2>9. IsFiniteSet(lost.steps)' /\ (\A c \in lost.steps : c.throw < lost.throws)'
    BY <1>2, <1>3 DEF HeldInv
  <2> QED
    BY <2>9, <2>2, <2>3, <1>2 DEF HeldInv
<1>15. SignalInv'
  BY <1>2, <1>3, KeepsSignals
<1> QED
  BY <1>11, <1>12, <1>13, <1>14, <1>15 DEF RunControlInv

\* The step_instruction that ends is one step under way less.
LEMMA StepEnds ==
    ASSUME TypeOK, ControlInv, todo # <<>>, Head(todo).op = "stepped", todo' = Tail(todo)
    PROVE  \E h, x :
              /\ h \in TaskType /\ h = Head(todo) /\ x[2] = h /\ h.t \in Thread
              /\ todo' \in Seq(TaskType) /\ todo' # <<>> /\ WellNested(todo')
              /\ Head(todo').op \in {"send_continue", "traced", "report"}
              /\ Head(todo').op = "traced" => Head(todo').t = h.t
              /\ Traces' = Traces
              /\ Steps = Steps' \cup {x} /\ x \notin Steps'
<1>1. todo \in Seq(TaskType) /\ WellNested(todo)
  BY DEF TypeOK, ControlInv
<1>2. PICK h \in TaskType, T \in Seq(TaskType) :
        /\ h = Head(todo) /\ T = Tail(todo)
        /\ h.op \in Threaded => h.t \in Thread
        /\ FitsOn(h, T) /\ WellNested(T)
        /\ h.op = "stepped" => Steps = Frames(T, "stepped") \cup {<<Len(T), h>>}
        /\ <<Len(T), h>> \notin Frames(T, "stepped")
        /\ h.op \notin {"trace", "traced"} => Traces = TracesOf(T)
  BY <1>1, HeadFacts, Zenon
<1>3. todo' = T /\ Steps' = Frames(T, "stepped") /\ Traces' = TracesOf(T)
  BY <1>2 DEF Steps, Traces, TracesOf
<1>4. /\ T # <<>> /\ Head(T).op \in {"send_continue", "traced", "report"}
      /\ Head(T).op = "traced" => Head(T).t = h.t
  BY <1>2 DEF FitsOn, Follows, After, Waits
<1>5. h.t \in Thread
  BY <1>2 DEF Threaded
<1>6. PICK x : x = <<Len(T), h>>
  OBVIOUS
<1>7. x[2] = h /\ Steps = Steps' \cup {x} /\ x \notin Steps' /\ Traces' = Traces
  BY <1>2, <1>3, <1>6
<1> QED
  BY <1>2, <1>3, <1>4, <1>5, <1>7

LEMMA KeepsStepped ==
    ASSUME RunControlInv, DoStepped
    PROVE  RunControlInv'
<1>0. TypeOK /\ ControlInv /\ SiteInv /\ HeldInv /\ SignalInv
  BY DEF RunControlInv
<1>1. todo # <<>> /\ Head(todo).op = "stepped" /\ todo' = Tail(todo)
  BY DEF DoStepped, Doing, Return
<1>2. PICK h, x :
        /\ h \in TaskType /\ h = Head(todo) /\ x[2] = h /\ h.t \in Thread
        /\ todo' \in Seq(TaskType) /\ todo' # <<>> /\ WellNested(todo')
        /\ Head(todo').op \in {"send_continue", "traced", "report"}
        /\ Traces' = Traces
        /\ Steps = Steps' \cup {x} /\ x \notin Steps'
  BY <1>0, <1>1, StepEnds, Zenon
<1>3. /\ stepping' = FALSE
      /\ step_bit' = IF state = "stopped" THEN step_bit \ {h.t} ELSE step_bit
      /\ suspended' = [u \in Thread |-> suspended[u] - (IF u \in h.held \cap live THEN 1 ELSE 0)]
      /\ enabled' = IF state = "stopped" THEN enabled \cup h.site ELSE enabled
      /\ UNCHANGED <<ret, state, current, ports, pending, catching, tracing, expecting,
                     queued, live, pc, event, sent, command, delivered, caught, lost>>
  BY <1>2, Zenon DEF DoStepped
<1>a. PICK y : y.step = h /\ Begun = Begun' \cup {y} /\ y \notin Begun'
  BY <1>0, <1>2, <1>3, BegunShrinks
<1>4. /\ \A f \in Begun : f.step.held \subseteq live
      /\ \A u \in live : suspended[u] = Cardinality(Holding(u))
  BY <1>0, <1>1 DEF HeldInv
<1>5. state # "running" /\ queued = None
  BY <1>0, <1>1 DEF ControlInv, Waits
<1>6. ASSUME NEW u \in live
      PROVE  suspended'[u] = Cardinality(Holding(u)') /\ Cardinality(Holding(u)') \in Nat
  <2>1. IsFiniteSet(Holding(u)) /\ Cardinality(Holding(u)) \in Nat
    BY <1>0, HoldingFinite
  <2>2. u \in Thread
    BY <1>0 DEF TypeOK
  <2>3. CASE u \in h.held
    <3>1. Holding(u)' = Holding(u) \ {y} /\ y \in Holding(u)
      BY <2>3, <1>2, <1>a DEF Holding
    <3>2. Cardinality(Holding(u)') = Cardinality(Holding(u)) - 1 /\ IsFiniteSet(Holding(u)')
      BY <3>1, <2>1, FS_RemoveElement
    <3>3. Cardinality(Holding(u)') \in Nat
      BY <3>2, FS_CardinalityType
    <3> QED
      BY <3>2, <3>3, <2>2, <2>3, <1>3, <1>4
  <2>4. CASE u \notin h.held
    <3>1. Holding(u)' = Holding(u)
      BY <2>4, <1>2, <1>a DEF Holding
    <3>2. suspended'[u] = suspended[u]
      BY <2>2, <2>4, <1>0, <1>3 DEF TypeOK
    <3> QED
      BY <3>1, <3>2, <2>1, <1>4
  <2> QED
    BY <2>3, <2>4
<1>7. suspended' \in [Thread -> Nat]
  <2>1. ASSUME NEW u \in Thread \ live
        PROVE  suspended'[u] \in Nat
    BY <1>0, <1>3 DEF TypeOK
  <2>2. \A u \in Thread : suspended'[u] \in Nat
    BY <2>1, <1>6
  <2> QED
    BY <2>2, <1>3
<1>8. h.site \subseteq Sites
  BY <1>2 DEF TaskType
<1>11. TypeOK'
  BY <1>0, <1>2, <1>3, <1>7, <1>8 DEF TypeOK
<1>12. ControlInv'
  BY <1>0, <1>1, <1>2, <1>3, <1>5 DEF ControlInv, Waits
<1>13. SiteInv'
  <2> SUFFICES ASSUME state # "exited"
               PROVE  SiteInv'
    BY <1>3 DEF SiteInv
  <2>1. /\ enabled = Sites \ UNION {f.step.site : f \in Begun}
        /\ \A f, g \in Begun : f # g => f.step.site \cap g.step.site = {}
        /\ step_bit \subseteq {f.step.t : f \in Begun}
    BY <1>0 DEF SiteInv
  <2>2. state = "stopped"
    BY <1>0, <1>5 DEF TypeOK
  <2>3. \A f \in Begun' : f.step.site \cap h.site = {}
    BY <2>1, <1>a
  <2>4. enabled' = Sites \ UNION {f.step.site : f \in Begun'}
    BY <2>1, <2>2, <2>3, <1>a, <1>3, <1>8
  <2>5. \A f, g \in Begun' : f # g => f.step.site \cap g.step.site = {}
    BY <2>1, <1>a
  <2>6. step_bit' \subseteq {f.step.t : f \in Begun'}
    BY <2>1, <2>2, <1>a, <1>3
  <2> QED
    BY <2>4, <2>5, <2>6 DEF SiteInv
<1>14. HeldInv'
  <2>1. \A f \in Begun' : f.step.held \subseteq live'
    BY <1>a, <1>3, <1>4
  <2>9. IsFiniteSet(lost.steps)' /\ (\A c \in lost.steps : c.throw < lost.throws)'
    BY <1>0, <1>3 DEF HeldInv
  <2> QED
    BY <2>9, <2>1, <1>3, <1>6 DEF HeldInv
<1>15. SignalInv'
  BY <1>0, <1>3, KeepsSignals
<1> QED
  BY <1>11, <1>12, <1>13, <1>14, <1>15 DEF RunControlInv

-----------------------------------------------------------------------------
(* The inferior keeps the invariant. *)

\* While the debugger waits, nothing of its own changes.
LEMMA KeepsControl ==
    ASSUME ControlInv, UNCHANGED debuggerVars, lost' = lost, state = "running"
    PROVE  ControlInv' /\ Steps' = Steps /\ Begun' = Begun /\ Traces' = Traces /\ todo # <<>>
<1>1. UNCHANGED <<todo, ret, state, current, ports, stepping, tracing, queued>>
  BY DEF debuggerVars
<1>2. Steps' = Steps /\ Traces' = Traces
  BY <1>1 DEF Steps, Traces
<1>3. Begun' = Begun
  BY <1>2, SameBegun
<1> QED
  BY <1>1, <1>2, <1>3 DEF ControlInv

LEMMA KeepsEvent ==
    ASSUME RunControlInv, UNCHANGED debuggerVars, Executing,
           \/ \E t \in Thread : HitTrap(t) \/ Execute(t) \/ EndProcess(t)
           \/ Signal \/ Interrupt
    PROVE  RunControlInv'
<1>0. TypeOK /\ ControlInv /\ SiteInv /\ HeldInv /\ SignalInv
  BY DEF RunControlInv
<1>1. /\ UNCHANGED <<todo, ret, state, current, ports, enabled, stepping, pending, catching,
                     tracing, expecting, queued>>
      /\ state = "running" /\ event = None
  BY DEF debuggerVars, Executing
<1>2. /\ UNCHANGED <<live, suspended, step_bit, command, delivered, lost>>
      /\ caught' = caught \/ \E t \in Thread : Leaves(t)
  BY Zenon DEF HitTrap, Execute, EndProcess, Signal, Interrupt
<1>3. ControlInv' /\ Steps' = Steps
  BY <1>0, <1>1, <1>2, KeepsControl
<1>4. SiteInv' /\ HeldInv'
  BY <1>0, <1>1, <1>2, <1>3, KeepsSteps
<1>5. pc' \in [Thread -> Addr]
  <2>1. CASE \E t \in Thread : Execute(t)
    <3>1. PICK t \in Thread : pc' = [pc EXCEPT ![t] = (pc[t] + 1) % Size]
      BY <2>1, Zenon DEF Execute
    <3>2. pc \in [Thread -> Addr] /\ pc[t] \in Addr
      BY <1>0 DEF TypeOK
    <3>3. (pc[t] + 1) % Size \in Addr
      BY <3>2, RunControlAssumption DEF Addr
    <3> QED
      BY <3>1, <3>2, <3>3
  <2>2. CASE pc' = pc
    BY <2>2, <1>0 DEF TypeOK
  <2> QED
    BY <2>1, <2>2, Zenon DEF HitTrap, EndProcess, Signal, Interrupt
<1>6. event' \in ReasonType
  <2>1. None \in ReasonType /\ Reason("sigstop", NoThread) \in ReasonType
        /\ Reason("signal", NoThread) \in ReasonType
        /\ \A t \in Thread : Reason("trap", t) \in ReasonType /\ Reason("exited", t) \in ReasonType
    BY DEF None, Reason, ReasonType, Kinds
  <2> QED
    BY <2>1, Zenon DEF HitTrap, Execute, EndProcess, Signal, Interrupt
<1>9. caught' \in EntryType
  BY <1>0, <1>2, KeepsEntry
<1>7. CASE Signal
  <2>1. sent' = sent + 1 /\ sent < MaxSignals
    BY <1>7, Zenon DEF Signal
  <2>2. sent' \in 0 .. MaxSignals
    BY <2>1, <1>0, RunControlAssumption DEF TypeOK
  <2>3. SignalInv'
    BY <2>1, <1>0, <1>1, <1>2 DEF SignalInv, SignalOnce, TypeOK
  <2>4. TypeOK'
    BY <2>2, <1>0, <1>1, <1>2, <1>5, <1>6, <1>9 DEF TypeOK
  <2> QED
    BY <2>3, <2>4, <1>3, <1>4 DEF RunControlInv
<1>8. CASE ~Signal
  <2>1. sent' = sent
    BY <1>8, Zenon DEF HitTrap, Execute, EndProcess, Interrupt
  <2>2. \/ event' = None \/ event' = Reason("sigstop", NoThread)
        \/ \E t \in Thread : event' \in {Reason("trap", t), Reason("exited", t)}
    BY <1>8, Zenon DEF HitTrap, Execute, EndProcess, Interrupt
  <2>3. event'.kind # "signal"
    BY <2>2 DEF None, Reason
  <2>4. SignalInv'
    BY <2>1, <2>3, <1>0, <1>1, <1>2, KeepsSignals
  <2>5. TypeOK'
    BY <2>1, <1>0, <1>1, <1>2, <1>5, <1>6, <1>9 DEF TypeOK
  <2> QED
    BY <2>4, <2>5, <1>3, <1>4 DEF RunControlInv
<1> QED
  BY <1>7, <1>8

(* A throw keeps the invariant: what the steps it cuts off have done is left,
   and stays with them. *)

LEMMA ThrowKeepsBegun ==
    ASSUME TypeOK, HeldInv, NEW t, Throw(t)
    PROVE  /\ Begun' = Begun /\ Steps' = {} /\ Traces' = {}
           /\ IsFiniteSet(lost.steps)' /\ (\A c \in lost.steps : c.throw < lost.throws)'
           /\ lost.throws' = lost.throws + 1 /\ lost.throws' \in 0 .. MaxThrows
           /\ lost.steps' \subseteq [throw : Nat, behind : Nat, step : TaskType]
<1>1. /\ todo' = <<>> /\ lost.throws < MaxThrows
      /\ lost' = [throws |-> lost.throws + 1, steps |-> lost.steps \cup UnderWay]
  BY Zenon DEF Throw
<1>2. /\ todo \in Seq(TaskType) /\ lost.throws \in 0 .. MaxThrows /\ MaxThrows \in Nat
      /\ lost.steps \subseteq [throw : Nat, behind : Nat, step : TaskType]
      /\ IsFiniteSet(lost.steps) /\ \A c \in lost.steps : c.throw < lost.throws
  BY RunControlAssumption DEF TypeOK, HeldInv
<1>3. lost'.throws = lost.throws + 1 /\ lost'.steps = lost.steps \cup UnderWay
  BY <1>1
<1>4. UnderWay = {Tag(e) : e \in Steps}
  <2> DEFINE I == {j \in 1 .. Len(todo) : todo[j].op = "stepped"}
             g(i) == <<Len(todo) - i, todo[i]>>
  <2>1. Steps = {g(i) : i \in I}
    BY DEF Steps, Frames
  <2>2. UnderWay = {[throw |-> lost.throws, behind |-> Len(todo) - i, step |-> todo[i]] : i \in I}
    BY DEF UnderWay
  <2>3. \A i \in I : Tag(g(i)) = [throw |-> lost.throws, behind |-> Len(todo) - i, step |-> todo[i]]
    BY DEF Tag
  <2> HIDE DEF I, g
  <2> QED
    BY <2>1, <2>2, <2>3
<1>5. Steps' = {} /\ Traces' = {}
  BY <1>1, NoFrames DEF Steps, Traces
<1>6. Begun' = Begun /\ lost'.steps = Begun
  BY <1>3, <1>4, <1>5 DEF Begun
<1>7. IsFiniteSet(lost'.steps)
  <2>2. IsFiniteSet(Steps)
    BY <1>2, FramesFinite DEF Steps
  <2> DEFINE f == [e \in Steps |-> Tag(e)]
  <2>3. f \in Surjection(Steps, {Tag(e) : e \in Steps})
    BY DEF Surjection
  <2>4. IsFiniteSet({Tag(e) : e \in Steps})
    BY <2>2, <2>3, FS_Surjection
  <2> QED
    BY <2>4, <1>2, <1>6, FS_Union DEF Begun
<1>8. \A c \in UnderWay : c.throw = lost.throws /\ c \in [throw : Nat, behind : Nat, step : TaskType]
  BY <1>2 DEF UnderWay
<1>9. \A c \in lost'.steps : c.throw < lost'.throws
  BY <1>2, <1>3, <1>8
<1>10. lost'.throws \in 0 .. MaxThrows
  BY <1>1, <1>2, <1>3
<1>11. lost'.steps \subseteq [throw : Nat, behind : Nat, step : TaskType]
  BY <1>2, <1>3, <1>8
<1> QED
  BY <1>3, <1>5, <1>6, <1>7, <1>9, <1>10, <1>11

LEMMA KeepsThrow ==
    ASSUME RunControlInv, NEW t \in Thread, Throw(t), state' = "stopped", event' = None, queued' = queued,
           ports' = live, current' \in live, sent' = sent, caught' = caught, delivered' = delivered,
           state = "exited" => FALSE, todo # <<>> \/ state = "stopped",
           UNCHANGED <<enabled, stepping, catching, expecting, live, pc, suspended, step_bit>>,
           pending' = pending \/ (event.kind = "signal" /\ pending' = sent)
    PROVE  RunControlInv'
<1>0. TypeOK /\ ControlInv /\ SiteInv /\ HeldInv /\ SignalInv
  BY DEF RunControlInv
<1>1. /\ todo' = <<>> /\ ret' = Reason("error", t) /\ tracing' = FALSE /\ command' = Idle
  BY Zenon DEF Throw
<1>2. /\ Begun' = Begun /\ Steps' = {} /\ Traces' = {}
      /\ IsFiniteSet(lost.steps)' /\ (\A c \in lost.steps : c.throw < lost.throws)'
      /\ lost.throws' = lost.throws + 1 /\ lost.throws' \in 0 .. MaxThrows
      /\ lost.steps' \subseteq [throw : Nat, behind : Nat, step : TaskType]
  BY <1>0, ThrowKeepsBegun
<1>3. /\ ret' \in ReasonType /\ None \in ReasonType /\ None.kind = "none"
      /\ command' \in [op : {"none", "continue", "stepi"}, t : Thread \cup {NoThread}, from : Addr]
      /\ todo' \in Seq(TaskType) /\ WellNested(todo')
  BY <1>1, NoFrames, RunControlAssumption DEF None, Reason, ReasonType, Kinds, Idle, Addr
<1>4. TypeOK'
  BY <1>0, <1>1, <1>2, <1>3 DEF TypeOK
<1>5. ControlInv'
  BY <1>0, <1>1, <1>2, <1>3 DEF ControlInv, TypeOK
<1>6. SiteInv' /\ HeldInv'
  BY <1>0, <1>1, <1>2, KeepsBegun
<1>7. SignalInv'
  BY <1>0, <1>3 DEF SignalInv, SignalOnce, TypeOK
<1> QED
  BY <1>4, <1>5, <1>6, <1>7 DEF RunControlInv

LEMMA KeepsWaitThrows ==
    ASSUME RunControlInv, WaitThrows
    PROVE  RunControlInv'
<1>0. TypeOK /\ ControlInv
  BY DEF RunControlInv
<1>1. PICK r \in IF event.kind = "trap" THEN Attributed ELSE {Reason(event.kind, t) : t \in StillCurrent} :
        /\ todo # <<>> /\ event.kind \in {"signal", "sigstop", "trap"}
        /\ state' = "stopped" /\ event' = None /\ ports' = live
        /\ current' = r.t /\ Throw(r.t)
        /\ pending' = IF event.kind = "signal" THEN sent ELSE pending
        /\ UNCHANGED <<enabled, stepping, catching, expecting, queued,
                       live, pc, suspended, step_bit, sent, delivered, caught>>
  BY Zenon DEF WaitThrows, Doing
<1>2. r.t \in live /\ r.t \in Thread
  <2>1. CASE event.kind = "trap"
    BY <2>1, <1>0, <1>1, AttributedLive DEF TypeOK
  <2>2. CASE event.kind # "trap"
    <3>1. PICK t \in StillCurrent : r = Reason(event.kind, t)
      BY <2>2
    <3> QED
      BY <3>1, <1>0 DEF StillCurrent, Reason, TypeOK
  <2> QED
    BY <2>1, <2>2
<1>3. state = "running"
  BY <1>0, <1>1 DEF ControlInv, None, Reason
<1> QED
  BY <1>1, <1>2, <1>3, KeepsThrow

LEMMA KeepsNotifyThrows ==
    ASSUME RunControlInv, NotifyThrows
    PROVE  RunControlInv'
<1>0. TypeOK /\ ControlInv
  BY DEF RunControlInv
<1>1. /\ todo # <<>> /\ state = "stopped" /\ Throw(current)
      /\ UNCHANGED <<state, current, ports, enabled, stepping, pending, catching, expecting,
                     queued, live, pc, suspended, step_bit, event, sent, delivered, caught>>
  BY Zenon DEF NotifyThrows, Doing, inferiorVars
<1>2. event = None /\ ports = live /\ current \in live /\ current \in Thread
  BY <1>0, <1>1 DEF ControlInv, TypeOK
<1> QED
  BY <1>1, <1>2, KeepsThrow

-----------------------------------------------------------------------------
\* A suspended thread does not end.
LEMMA KeepsEndThread ==
    ASSUME RunControlInv, NEW t \in Thread, EndThread(t)
    PROVE  RunControlInv'
<1>0. TypeOK /\ ControlInv /\ SiteInv /\ HeldInv /\ SignalInv
  BY DEF RunControlInv
<1>1. /\ state = "running" /\ event = None /\ t \in live /\ suspended[t] = 0
      /\ live' = live \ {t} /\ step_bit' = step_bit \ {t}
      /\ UNCHANGED debuggerVars /\ UNCHANGED <<pc, suspended, event, sent, command, delivered, lost>>
      /\ Leaves(t)
  BY Zenon DEF EndThread, Runnable, Executing
<1>2. UNCHANGED <<todo, ret, state, current, ports, enabled, stepping, pending, catching,
                  tracing, expecting, queued>>
  BY <1>1 DEF debuggerVars
<1>3. ControlInv' /\ Begun' = Begun /\ todo # <<>>
  BY <1>0, <1>1, KeepsControl
<1>4. TypeOK'
  BY <1>0, <1>1, <1>2, KeepsEntry DEF TypeOK
<1>5. SiteInv'
  BY <1>0, <1>1, <1>2, <1>3 DEF SiteInv
<1>6. HeldInv'
  <2>1. /\ \A f \in Begun : f.step.held \subseteq live
        /\ \A u \in live : suspended[u] = Cardinality(Holding(u))
    BY <1>0, <1>3 DEF HeldInv
  <2>2. \A u : Holding(u)' = Holding(u)
    BY <1>3 DEF Holding
  <2>3. Holding(t) = {}
    <3>1. IsFiniteSet(Holding(t)) /\ Cardinality(Holding(t)) = 0
      BY <1>0, <1>1, <2>1, HoldingFinite
    <3> QED
      BY <3>1, FS_EmptySet
  <2>4. \A f \in Begun : t \notin f.step.held
    BY <2>3 DEF Holding
  <2>9. IsFiniteSet(lost.steps)' /\ (\A c \in lost.steps : c.throw < lost.throws)'
    BY <1>0, <1>1 DEF HeldInv
  <2> QED
    BY <2>9, <2>1, <2>2, <2>4, <1>1, <1>3 DEF HeldInv
<1>7. SignalInv'
  BY <1>0, <1>1, <1>2, KeepsSignals
<1> QED
  BY <1>3, <1>4, <1>5, <1>6, <1>7 DEF RunControlInv

LEMMA KeepsStartThread ==
    ASSUME RunControlInv, NEW t \in Thread, StartThread(t)
    PROVE  RunControlInv'
<1>0. TypeOK /\ ControlInv /\ SiteInv /\ HeldInv /\ SignalInv
  BY DEF RunControlInv
<1>1. /\ state = "running" /\ event = None /\ t \notin live
      /\ live' = live \cup {t} /\ pc' = [pc EXCEPT ![t] = 0]
      /\ suspended' = [suspended EXCEPT ![t] = 0]
      /\ UNCHANGED debuggerVars /\ UNCHANGED <<step_bit, event, sent, command, delivered, caught, lost>>
  BY Zenon DEF StartThread, Executing
<1>2. UNCHANGED <<todo, ret, state, current, ports, enabled, stepping, pending, catching,
                  tracing, expecting, queued>>
  BY <1>1 DEF debuggerVars
<1>3. ControlInv' /\ Begun' = Begun /\ todo # <<>>
  BY <1>0, <1>1, KeepsControl
<1>4. TypeOK'
  <2>1. 0 \in Addr
    BY RunControlAssumption DEF Addr
  <2>2. pc' \in [Thread -> Addr] /\ suspended' \in [Thread -> Nat]
    BY <2>1, <1>0, <1>1 DEF TypeOK
  <2> QED
    BY <2>2, <1>0, <1>1, <1>2 DEF TypeOK
<1>5. SiteInv'
  BY <1>0, <1>1, <1>2, <1>3 DEF SiteInv
<1>6. HeldInv'
  <2>1. /\ \A f \in Begun : f.step.held \subseteq live
        /\ \A u \in live : suspended[u] = Cardinality(Holding(u))
    BY <1>0, <1>3 DEF HeldInv
  <2>2. \A u : Holding(u)' = Holding(u)
    BY <1>3 DEF Holding
  <2>3. Holding(t) = {}
    BY <2>1, <1>1 DEF Holding
  <2>4. suspended'[t] = Cardinality(Holding(t)')
    BY <2>2, <2>3, <1>0, <1>1, FS_EmptySet DEF TypeOK
  <2>5. \A u \in live : suspended'[u] = suspended[u]
    BY <1>0, <1>1 DEF TypeOK
  <2>9. IsFiniteSet(lost.steps)' /\ (\A c \in lost.steps : c.throw < lost.throws)'
    BY <1>0, <1>1 DEF HeldInv
  <2> QED
    BY <2>9, <2>1, <2>2, <2>4, <2>5, <1>1, <1>3 DEF HeldInv
<1>7. SignalInv'
  BY <1>0, <1>1, <1>2, KeepsSignals
<1> QED
  BY <1>3, <1>4, <1>5, <1>6, <1>7 DEF RunControlInv

-----------------------------------------------------------------------------
(* The theorems. *)

LEMMA RunControlStart ==
    ASSUME Init
    PROVE  RunControlInv
<1>1. PICK t \in Thread : live = {t} /\ current = t
  BY DEF Init
<1>2. Steps = {} /\ Begun = {} /\ Traces = {} /\ WellNested(todo) /\ \A u : Holding(u) = {}
  BY NoFrames DEF Init, Steps, Begun, Traces, Holding, NothingLost
<1>3. todo \in Seq(TaskType)
  BY DEF Init
<1>4. None \in ReasonType /\ None.kind = "none"
  BY DEF None, Reason, ReasonType, Kinds
<1>5. 0 \in Addr
  BY RunControlAssumption DEF Addr
<1>6. TypeOK
  <2>1. pc \in [Thread -> Addr] /\ suspended \in [Thread -> Nat]
    BY <1>5 DEF Init
  <2>2. command \in [op : {"none", "continue", "stepi"}, t : Thread \cup {NoThread}, from : Addr]
    BY <1>5 DEF Init, Idle
  <2>3. /\ ret \in ReasonType /\ queued \in ReasonType /\ event \in ReasonType
        /\ state \in {"stopped", "running", "exited"}
        /\ {stepping, catching, tracing, expecting} \subseteq BOOLEAN
        /\ enabled \subseteq Sites /\ step_bit \subseteq Thread
    BY <1>4 DEF Init
  <2>4. pending \in 0 .. MaxSignals /\ sent \in 0 .. MaxSignals /\ delivered \subseteq 1 .. MaxSignals
    BY RunControlAssumption DEF Init
  <2>5. current \in Thread /\ ports \subseteq Thread /\ live \subseteq Thread
    BY <1>1 DEF Init
  <2>6. caught \in EntryType
    BY DEF Init, NoEntry, EntryType
  <2>7. lost.throws \in 0 .. MaxThrows /\ lost.steps = {}
    BY RunControlAssumption DEF Init, NothingLost
  <2> QED
    BY <1>3, <2>1, <2>2, <2>3, <2>4, <2>5, <2>6, <2>7 DEF TypeOK
<1>7. ControlInv
  BY <1>1, <1>2, <1>4 DEF Init, ControlInv
<1>8. SiteInv
  BY <1>2 DEF Init, SiteInv
<1>9. HeldInv
  BY <1>1, <1>2, FS_EmptySet DEF Init, HeldInv, NothingLost
<1>10. SignalInv
  BY <1>4 DEF Init, SignalInv, SignalOnce
<1> QED
  BY <1>6, <1>7, <1>8, <1>9, <1>10 DEF RunControlInv

LEMMA RunControlStep ==
    ASSUME RunControlInv, [Next]_vars
    PROVE  RunControlInv'
<1>1. CASE UNCHANGED vars
  <2>1. UNCHANGED <<todo, ret, state, current, ports, enabled, stepping, pending, catching, tracing,
                    expecting, queued, live, pc, suspended, step_bit, event, sent, command, delivered, caught, lost>>
    BY <1>1, Zenon DEF vars, debuggerVars, inferiorVars
  <2>2. Steps' = Steps /\ Traces' = Traces
    BY <2>1 DEF Steps, Traces
  <2>3. TypeOK'
    BY <2>1 DEF RunControlInv, TypeOK
  <2>4. ControlInv'
    BY <2>1, <2>2, SameBegun DEF RunControlInv, ControlInv
  <2> QED
    BY <2>1, <2>2, <2>3, <2>4, KeepsSteps, KeepsSignals DEF RunControlInv
<1>2. CASE User
  BY <1>2, KeepsContinue, KeepsStepI, KeepsSettings, Zenon DEF User
<1>3. CASE Debugger
  <2>1. CASE DoResume
    BY <2>1, KeepsResume
  <2>2. CASE DoTrace
    BY <2>2, KeepsTrace
  <2>3. CASE DoTraced
    BY <2>3, KeepsTraced
  <2>4. CASE SendContinue \/ GoneThrows \/ DoStep \/ DoStepped \/ DoWait
    BY <2>4, KeepsSendContinue, KeepsGoneThrows, KeepsStep, KeepsStepped, KeepsWait
  <2>5. CASE WaitExit \/ WaitSignal \/ WaitTrap \/ Report
    BY <2>5, KeepsWaitExit, KeepsWaitSignal, KeepsWaitTrap, KeepsReport
  <2> QED
    BY <1>3, <2>1, <2>2, <2>3, <2>4, <2>5, Zenon DEF Debugger
<1>4. CASE \E t \in Thread : Run(t) \/ StartThread(t)
  <2>1. PICK t \in Thread : HitTrap(t) \/ Execute(t) \/ EndThread(t) \/ EndProcess(t) \/ StartThread(t)
    BY <1>4, Zenon DEF Run
  <2>2. CASE EndThread(t)
    BY <2>2, KeepsEndThread
  <2>3. CASE StartThread(t)
    BY <2>3, KeepsStartThread
  <2>4. CASE HitTrap(t) \/ Execute(t) \/ EndProcess(t)
    <3>1. UNCHANGED debuggerVars /\ Executing
      BY <2>4, Zenon DEF HitTrap, Execute, EndProcess, Runnable
    <3> QED
      BY <3>1, <2>4, KeepsEvent, Zenon
  <2> QED
    BY <2>1, <2>2, <2>3, <2>4
<1>5. CASE Signal \/ Interrupt
  <2>1. UNCHANGED debuggerVars /\ Executing
    BY <1>5, Zenon DEF Signal, Interrupt
  <2> QED
    BY <2>1, <1>5, KeepsEvent, Zenon
<1>6. CASE WaitThrows \/ NotifyThrows
  BY <1>6, KeepsWaitThrows, KeepsNotifyThrows
<1> QED
  BY <1>1, <1>2, <1>3, <1>4, <1>5, <1>6, Zenon DEF Next

LEMMA RunControlInvariant == Spec => []RunControlInv
<1>1. Init => RunControlInv
  BY RunControlStart
<1>2. RunControlInv /\ [Next]_vars => RunControlInv'
  BY RunControlStep
<1> QED
  BY <1>1, <1>2, PTL DEF Spec

\* Every variable of run control keeps its type: in particular, no thread is
\* resumed more often than it was suspended, however the calls of resume,
\* step_instruction and wait_on_signal nest.
THEOREM RunControlTyped == Spec => []TypeOK
<1>1. RunControlInv => TypeOK
  BY DEF RunControlInv
<1> QED
  BY <1>1, RunControlInvariant, PTL

\* Whenever the prompt is back and the process has stopped, all that is left of
\* resume, step_instruction and wait_on_signal is what the steps had done that a
\* throw cut off: without one, the sites are in, no thread is suspended or
\* single-stepped and no flag is set.  The thread table is that of the inferior.
THEOREM PromptIsClean == Spec => []CleanPrompt
<1>1. RunControlInv => CleanPrompt
  <2> SUFFICES ASSUME RunControlInv, todo = <<>>, state = "stopped"
               PROVE  CleanPrompt
    BY DEF CleanPrompt, Prompt
  <2>0. TypeOK /\ ControlInv /\ SiteInv /\ HeldInv
    BY DEF RunControlInv
  <2>1. Steps = {} /\ Traces = {}
    BY NoFrames DEF Steps, Traces
  <2>2. Begun = lost.steps /\ \A u : Holding(u) = LostHolding(u)
    BY <2>1 DEF Begun, Holding, LostHolding
  <2>3. /\ enabled = Sites \ UNION {c.step.site : c \in lost.steps}
        /\ step_bit \subseteq {c.step.t : c \in lost.steps}
    BY <2>0, <2>2 DEF SiteInv
  <2>4. \A t \in live : suspended[t] = Cardinality(LostHolding(t))
    BY <2>0, <2>2 DEF HeldInv
  <2>5. /\ stepping => lost.steps # {}
        /\ ~tracing /\ (queued # None => lost.throws > 0) /\ ports = live /\ current \in live
    BY <2>0, <2>1, <2>2 DEF ControlInv
  <2> QED
    BY <2>3, <2>4, <2>5 DEF CleanPrompt
<1> QED
  BY <1>1, RunControlInvariant, PTL

\* A signal that stopped the inferior is handed back to it at most once.
THEOREM SignalsDeliveredOnce == Spec => []SignalOnce
<1>1. RunControlInv => SignalOnce
  BY DEF RunControlInv, SignalInv
<1> QED
  BY <1>1, RunControlInvariant, PTL

-----------------------------------------------------------------------------
(* Without hit handlers. *)

\* The step under way is the one whose task is at hand.
LEMMA OnlyStep ==
    ASSUME NEW s \in Seq(TaskType), s # <<>>, Head(s).op = "stepped", Frames(Tail(s), "stepped") = {}
    PROVE  \A e \in Frames(s, "stepped") : e[2] = Head(s)
<1>1. PICK h \in TaskType, T \in Seq(TaskType) : h = Head(s) /\ T = Tail(s) /\ s = Push(h, T)
  BY SplitHead
<1>2. Frames(Push(h, T), "stepped") = Frames(T, "stepped") \cup {<<Len(T), h>>}
  BY <1>1, PushFacts
<1> QED
  BY <1>1, <1>2

\* When nothing was lost, the steps that have begun are those under way.
LEMMA PlainSites ==
    ASSUME SiteInv, lost = NothingLost, state # "exited"
    PROVE  /\ enabled = Sites \ UNION {e[2].site : e \in Steps}
           /\ step_bit \subseteq {e[2].t : e \in Steps}
<1>1. lost.steps = {} /\ \A e \in Steps : Tag(e).step = e[2]
  BY DEF NothingLost, Tag
<1>2. {c.step.site : c \in Begun} = {e[2].site : e \in Steps} /\ {c.step.t : c \in Begun} = {e[2].t : e \in Steps}
  BY <1>1 DEF Begun
<1> QED
  BY <1>2 DEF SiteInv

\* Where no step can be under way.
LEMMA NoStep ==
    ASSUME OneStep, todo # <<>>, Head(todo).op \notin Waits \cup {"stepped"}
    PROVE  Steps = {}
  BY DEF OneStep

LEMMA PlainUser ==
    ASSUME RunControlInv, OneStep, Guarded, Looked, User
    PROVE  OneStep' /\ Guarded' /\ Looked'
<1>0. TypeOK /\ ControlInv /\ SiteInv /\ todo = <<>> /\ state # "running"
  BY Zenon DEF RunControlInv, ControlInv, User, Continue, StepI, SetCatchPolicy, SelectThread, Followed, Prompt
<1>1. Traces = {} /\ tracing = FALSE
  BY <1>0, NoFrames DEF Traces, ControlInv, TypeOK
<1>2. UNCHANGED <<state, ports, enabled, tracing, expecting, live, pc, suspended, step_bit, event>>
  BY Zenon DEF User, Continue, StepI, SetCatchPolicy, SelectThread, inferiorVars
<1>3. CASE Continue \/ StepI
  <2>1. Steps' = {}
    BY <1>3, KeepsContinue, KeepsStepI
  <2>2. state = "stopped" /\ current \in live
    BY <1>0, <1>3, Zenon DEF Continue, StepI, Followed, ControlInv
  <2>3. PICK op \in {"resume", "step"} : Head(todo') = Task(op, current)
    <3>1. CASE Continue
      <4>1. todo' = <<Task("resume", current), Call("wait"), Call("report")>>
        BY <3>1 DEF Continue
      <4>2. Head(todo') = Task("resume", current)
        BY <4>1
      <4> QED
        BY <4>2
    <3>2. CASE StepI
      <4>1. todo' = <<Task("step", current), Call("report")>>
        BY <3>2 DEF StepI
      <4>2. Head(todo') = Task("step", current)
        BY <4>1
      <4> QED
        BY <4>2
    <3> QED
      BY <1>3, <3>1, <3>2
  <2>4. Head(todo').op = op /\ Head(todo').t = current
    BY <2>3 DEF Task
  <2>5. Looked'
    BY <2>2, <2>4, <1>0, <1>1, <1>2 DEF Looked
  <2> QED
    BY <2>1, <2>5 DEF OneStep, Guarded
<1>4. CASE SetCatchPolicy \/ \E t \in Thread : SelectThread(t)
  <2>1. todo' = todo
    BY <1>4, Zenon DEF SetCatchPolicy, SelectThread
  <2>2. Steps' = {}
    BY <2>1, <1>0, NoFrames DEF Steps
  <2>3. Looked'
    BY <2>1, <1>0, <1>2 DEF Looked
  <2> QED
    BY <2>2, <2>3 DEF OneStep, Guarded
<1> QED
  BY <1>3, <1>4, Zenon DEF User

LEMMA PlainResume ==
    ASSUME RunControlInv, OneStep, Guarded, Looked, DoResume \/ DoTrace \/ DoTraced
    PROVE  OneStep' /\ Guarded' /\ Looked'
<1>0. TypeOK /\ ControlInv
  BY DEF RunControlInv
<1>1. todo # <<>> /\ Head(todo).op \in {"resume", "trace", "traced"}
  BY Zenon DEF DoResume, DoTrace, DoTraced, Doing
<1>2. Steps = {} /\ state # "running"
  BY <1>0, <1>1, NoStep DEF Waits, ControlInv
<1>3. UNCHANGED <<ret, state, ports, enabled, live, pc, suspended, step_bit, event>>
  BY Zenon DEF DoResume, DoTrace, DoTraced, inferiorVars
<1>4. Steps' = {} /\ todo' # <<>>
  BY <1>2, KeepsResume, KeepsTrace, KeepsTraced
<1>5. CASE DoResume
  <2>1. /\ Head(todo).op = "resume"
        /\ Head(todo').op \in {"trace", "send_continue", "step"}
        /\ Head(todo').op # "send_continue" => Head(todo').t = Head(todo).t
        /\ Head(todo').op # "trace" => tracing' = tracing
    BY <1>5, KeepsResume DEF DoResume, Doing
  <2>2. Looked'
    BY <2>1, <1>0, <1>1, <1>2, <1>3, <1>4 DEF Looked, TypeOK
  <2> QED
    BY <2>2, <1>4 DEF OneStep, Guarded
<1>6. CASE DoTrace
  <2>1. /\ Head(todo).op = "trace"
        /\ Head(todo').op \in Waits \cup {"step"}
        /\ Head(todo').op = "step" =>
             Head(todo').t = Head(todo).t /\ (SvcMatches(Head(todo).t) => expecting = TRUE)
    BY <1>6, KeepsTrace DEF DoTrace, Doing
  <2>2. expecting = TRUE => expecting' = TRUE
    BY <1>6, Zenon DEF DoTrace
  <2>3. pc[Head(todo).t] \in Svc \ Sites => SvcMatches(Head(todo).t)
    BY <1>0 DEF SvcMatches, TypeOK
  <2>4. Looked'
    BY <2>1, <2>2, <2>3, <1>0, <1>1, <1>2, <1>3, <1>4 DEF Looked, Waits
  <2> QED
    BY <2>4, <1>4 DEF OneStep, Guarded
<1>7. CASE DoTraced
  <2>1. /\ Head(todo).op = "traced"
        /\ Head(todo').op \in Waits \cup {"trace"}
        /\ Head(todo').op = "trace" => Head(todo').t = Head(todo).t /\ IsStep(ret)
    BY <1>7, KeepsTraced DEF DoTraced, Doing
  <2>2. Looked'
    BY <2>1, <1>0, <1>1, <1>2, <1>3, <1>4 DEF Looked, Waits
  <2> QED
    BY <2>2, <1>4 DEF OneStep, Guarded
<1> QED
  BY <1>5, <1>6, <1>7

LEMMA PlainSendContinue ==
    ASSUME RunControlInv, lost = NothingLost, OneStep, Guarded, Looked, SendContinue \/ GoneThrows \/ Report
    PROVE  OneStep' /\ Guarded' /\ Looked'
<1>0. TypeOK /\ ControlInv /\ SiteInv
  BY DEF RunControlInv
<1>1. SendContinue \/ Report => todo # <<>> /\ Head(todo).op \in {"send_continue", "report"}
  BY Zenon DEF SendContinue, Report, Doing
<1>2. SendContinue => Steps = {} /\ (state # "exited" => step_bit = {})
  BY <1>0, <1>1, NoStep, PlainSites DEF Waits
<1>3. UNCHANGED <<ports, enabled, live, pc, suspended, step_bit, event>>
  BY Zenon DEF SendContinue, GoneThrows, Report, inferiorVars
<1>4. CASE SendContinue
  <2>1. todo' = Tail(todo) /\ state = "stopped" /\ state' = "running"
    BY <1>4, Zenon DEF SendContinue, Return
  <2>2. Steps' = {}
    BY <2>1, <1>0, <1>1, <1>2, <1>4, PopFacts
  <2>3. Looked'
    BY <2>1, <1>2, <1>3, <1>4 DEF Looked
  <2> QED
    BY <2>2, <2>3 DEF OneStep, Guarded
<1>5. CASE GoneThrows \/ Report
  <2>1. state' = state /\ state # "running"
    BY <1>0, <1>1, <1>5 DEF GoneThrows, Report, ControlInv, Waits
  <2>2. todo' = <<>>
    <3>1. CASE GoneThrows
      BY <3>1, Zenon DEF GoneThrows
    <3>2. CASE Report
      <4>1. todo' = Tail(todo) /\ Head(todo).op = "report"
        BY <3>2, Zenon DEF Report, Return, Doing
      <4> QED
        BY <4>1, <3>2, <1>0, <1>1, PopFacts
    <3> QED
      BY <1>5, <3>1, <3>2
  <2>3. Steps' = {}
    BY <2>2, NoFrames DEF Steps
  <2>4. Looked'
    BY <2>1, <2>2, <1>3 DEF Looked
  <2> QED
    BY <2>3, <2>4 DEF OneStep, Guarded
<1> QED
  BY <1>4, <1>5

LEMMA PlainStep ==
    ASSUME RunControlInv, lost = NothingLost, OneStep, Guarded, Looked, DoStep
    PROVE  OneStep' /\ Guarded' /\ Looked'
<1>0. TypeOK /\ ControlInv /\ SiteInv
  BY DEF RunControlInv
<1>1. PICK e \in TaskType, T \in Seq(TaskType) :
        /\ e.op = "stepped" /\ e.t = Head(todo).t /\ e.site = {pc[e.t]} \cap enabled
        /\ e.held = ports \ {e.t} /\ e.t \in Thread
        /\ todo' \in Seq(TaskType) /\ todo' # <<>> /\ WellNested(todo')
        /\ Head(todo').op = "wait" /\ Tail(todo') = Push(e, T) /\ T = Tail(todo)
        /\ Traces' = Traces /\ Steps = Frames(T, "stepped")
        /\ Steps' = Steps \cup {<<Len(T), e>>} /\ <<Len(T), e>> \notin Steps
  BY StepBegins, Zenon
<1>2. /\ todo # <<>> /\ Head(todo).op = "step"
      /\ step_bit' = step_bit \cup {e.t} /\ state' = "running"
      /\ UNCHANGED <<ports, tracing, expecting, live, pc, event>>
  BY <1>1, Zenon DEF DoStep, Doing
<1>3. Steps = {} /\ state = "stopped"
  BY <1>0, <1>2, NoStep DEF Waits, ControlInv
<1>4. step_bit = {} /\ event = None
  BY <1>0, <1>3, PlainSites DEF ControlInv
<1>5. OneStep'
  <2>1. Push(e, T) # <<>> /\ Head(Push(e, T)) = e /\ Tail(Push(e, T)) = T
    BY <1>1, PushFacts
  <2> QED
    BY <2>1, <1>1, <1>3 DEF OneStep, Waits
<1>6. Guarded'
  BY <1>1, <1>2, <1>3 DEF Guarded
<1>7. Looked'
  <2>1. e.t \in live /\ (tracing = TRUE => pc[e.t] \notin Svc \ Sites \/ expecting = TRUE)
    BY <1>1, <1>2, <1>3 DEF Looked
  <2>2. event'.kind # "trap"
    BY <1>2, <1>4 DEF None, Reason
  <2> QED
    BY <2>1, <2>2, <1>2, <1>4 DEF Looked
<1> QED
  BY <1>5, <1>6, <1>7

LEMMA PlainStepped ==
    ASSUME RunControlInv, OneStep, Guarded, Looked, DoStepped
    PROVE  OneStep' /\ Guarded' /\ Looked'
<1>0. TypeOK /\ ControlInv /\ SiteInv
  BY DEF RunControlInv
<1>1. todo # <<>> /\ Head(todo).op = "stepped" /\ todo' = Tail(todo)
  BY DEF DoStepped, Doing, Return
<1>2. PICK h, x :
        /\ h \in TaskType /\ h = Head(todo)
        /\ Head(todo').op \in {"send_continue", "traced", "report"}
        /\ Head(todo').op = "traced" => Head(todo').t = h.t
        /\ Steps = Steps' \cup {x}
  BY <1>0, <1>1, StepEnds, Zenon
<1>3. /\ UNCHANGED <<ret, state, ports, tracing, expecting, live, pc, event>>
      /\ step_bit' = IF state = "stopped" THEN step_bit \ {h.t} ELSE step_bit
  BY <1>2, Zenon DEF DoStepped
<1>4. state # "running" /\ event = None
  BY <1>0, <1>1 DEF ControlInv, Waits
<1>5. Steps' = {}
  BY <1>1, <1>2 DEF OneStep, Steps, Waits
<1>6. event'.kind # "trap"
  BY <1>3, <1>4 DEF None, Reason
<1>7. Looked'
  BY <1>1, <1>2, <1>3, <1>4, <1>6 DEF Looked
<1> QED
  BY <1>5, <1>7 DEF OneStep, Guarded
\* A wait that returns leaves its step at the head.
LEMMA PlainReturn ==
    ASSUME TypeOK, ControlInv, OneStep, todo # <<>>, Head(todo).op \in Waits, todo' = Tail(todo)
    PROVE  /\ OneStep' /\ todo' # <<>> /\ Head(todo').op \in {"report", "stepped"}
           /\ Steps' = Steps /\ todo' \in Seq(TaskType)
           /\ Head(todo').op = "stepped" => Frames(Tail(todo'), "stepped") = {}
<1>1. /\ todo' # <<>> /\ Head(todo').op \in {"report", "stepped"} /\ Steps' = Steps
      /\ todo' \in Seq(TaskType)
  BY PopFacts DEF Waits, Follows, After
<1>2. Head(todo').op = "stepped" => Steps # {}
  <2> SUFFICES ASSUME Head(todo').op = "stepped"
               PROVE  Steps' # {}
    BY <1>1
  <2>1. PICK h \in TaskType, T \in Seq(TaskType) : h = Head(todo') /\ todo' = Push(h, T)
    BY <1>1, SplitHead
  <2>2. Frames(Push(h, T), "stepped") = Frames(T, "stepped") \cup {<<Len(T), h>>}
    BY <2>1, PushFacts
  <2> QED
    BY <2>1, <2>2 DEF Steps
<1>3. Steps # {} => /\ Head(Tail(todo)).op = "stepped"
                    /\ Frames(Tail(Tail(todo)), "stepped") = {}
  BY DEF OneStep, Waits
<1> QED
  BY <1>1, <1>2, <1>3 DEF OneStep

LEMMA PlainWait ==
    ASSUME RunControlInv, OneStep, Guarded, Looked, DoWait
    PROVE  OneStep' /\ Guarded' /\ Looked'
<1>0. TypeOK /\ ControlInv /\ SiteInv
  BY DEF RunControlInv
<1>1. /\ todo # <<>> /\ Head(todo).op = "wait"
      /\ \/ queued # None /\ todo' = Tail(todo) /\ ret' = queued
         \/ queued = None /\ todo' = <<Call("waitpid")>> \o Tail(todo) /\ ret' = ret
      /\ UNCHANGED <<state, ports, enabled, tracing, expecting, live, pc, step_bit, event>>
  BY Zenon DEF DoWait, Doing, Perform, Return, inferiorVars
<1>2. CASE queued # None /\ todo' = Tail(todo) /\ ret' = queued
  <2>1. state # "running" /\ ~IsStep(ret')
    BY <1>0, <1>2 DEF ControlInv, IsStep
  <2>2. OneStep' /\ todo' # <<>> /\ Head(todo').op \in {"report", "stepped"}
    BY <1>0, <1>1, <1>2, PlainReturn DEF Waits
  <2>3. Guarded'
    BY <2>1, <1>1 DEF Guarded
  <2>4. Looked'
    BY <2>1, <2>2, <1>1 DEF Looked
  <2> QED
    BY <2>2, <2>3, <2>4
<1>3. CASE queued = None /\ todo' = <<Call("waitpid")>> \o Tail(todo) /\ ret' = ret
  <2>0. /\ After("waitpid") = After("wait") /\ "traced" \notin After("waitpid")
        /\ Call("waitpid") \in TaskType /\ Call("waitpid").op = "waitpid"
    BY NewTasks DEF After, Waits, Ops
  <2>1. /\ Steps' = Steps /\ todo' # <<>> /\ Head(todo') = Call("waitpid")
        /\ Tail(todo') = Tail(todo)
    BY <2>0, <1>0, <1>1, <1>3, ReplaceFacts DEF Threaded
  <2>2. Head(todo').op = "waitpid"
    BY <2>0, <2>1
  <2>3. OneStep'
    BY <2>1, <2>2, <1>1 DEF OneStep, Waits
  <2>4. Guarded'
    BY <2>1, <1>1 DEF Guarded
  <2>5. Looked'
    BY <2>2, <1>1 DEF Looked
  <2> QED
    BY <2>3, <2>4, <2>5
<1> QED
  BY <1>1, <1>2, <1>3

LEMMA PlainWaitpid ==
    ASSUME RunControlInv, lost = NothingLost, OneStep, Guarded, Looked, handled = {}, WaitExit \/ WaitSignal \/ WaitTrap
    PROVE  OneStep' /\ Guarded' /\ Looked'
<1>0. TypeOK /\ ControlInv /\ SiteInv
  BY DEF RunControlInv
<1>1. /\ todo # <<>> /\ Head(todo).op = "waitpid" /\ event' = None
      /\ state' \in {"stopped", "exited"}
      /\ UNCHANGED <<enabled, tracing, expecting, live, pc, step_bit>>
  BY Zenon DEF WaitExit, WaitSignal, WaitTrap, Doing
<1>2. todo' = Tail(todo)
  BY Zenon DEF WaitExit, WaitSignal, WaitTrap, Return
<1>3. /\ OneStep' /\ todo' # <<>> /\ Head(todo').op \in {"report", "stepped"}
      /\ Steps' = Steps /\ todo' \in Seq(TaskType)
      /\ Head(todo').op = "stepped" => Frames(Tail(todo'), "stepped") = {}
  BY <1>0, <1>1, <1>2, PlainReturn DEF Waits
<1>4. Guarded'
  BY <1>1 DEF Guarded
<1>5. state = "running"
  BY <1>0 DEF WaitExit, WaitSignal, WaitTrap, ControlInv, None, Reason
<1>6. event'.kind # "trap"
  BY <1>1 DEF None, Reason
<1>7. state' = "stopped" /\ Head(todo').op = "stepped" /\ IsStep(ret') => Head(todo').t \in live
  <2>1. CASE WaitExit \/ WaitSignal
    <3>1. ret'.kind \in {"exited", "signal", "sigstop"}
      BY <2>1 DEF WaitExit, WaitSignal, Reason
    <3> QED
      BY <3>1 DEF IsStep
  <2>2. CASE WaitTrap
    <3> SUFFICES ASSUME Head(todo').op = "stepped", IsStep(ret')
                 PROVE  Head(todo').t \in live
      OBVIOUS
    <3>1. ret' \in Attributed /\ event.kind = "trap"
      BY <2>2, Zenon DEF WaitTrap
    <3>2. {t \in live : pc[t] \in enabled} = {}
      BY <3>1 DEF Attributed, IsStep, Reason
    <3>3. PICK w \in live : w \in step_bit
      BY <3>1, <3>2 DEF Looked
    <3>4. PICK e \in Steps : w = e[2].t
      BY <3>3, <1>0, <1>5, PlainSites
    <3>5. e[2] = Head(todo')
      <4>1. e \in Frames(todo', "stepped")
        BY <3>4, <1>3 DEF Steps
      <4>2. \A f \in Frames(todo', "stepped") : f[2] = Head(todo')
        BY <1>3, OnlyStep
      <4> QED
        BY <4>1, <4>2
    <3> QED
      BY <3>3, <3>4, <3>5
  <2> QED
    BY <2>1, <2>2
<1>8. Looked'
  BY <1>1, <1>3, <1>5, <1>6, <1>7 DEF Looked
<1> QED
  BY <1>3, <1>4, <1>8

LEMMA PlainInferior ==
    ASSUME RunControlInv, OneStep, Guarded, Looked,
           \/ \E t \in Thread : Run(t) \/ StartThread(t)
           \/ Signal \/ Interrupt
    PROVE  OneStep' /\ Guarded' /\ Looked'
<1>0. TypeOK /\ ControlInv /\ SiteInv
  BY DEF RunControlInv
<1>1. UNCHANGED debuggerVars /\ state = "running" /\ event = None
  BY Zenon DEF Run, HitTrap, Execute, EndThread, EndProcess, StartThread, Signal, Interrupt, Runnable, Executing
<1>2. UNCHANGED <<todo, ret, state, ports, enabled, tracing, expecting>>
  BY <1>1 DEF debuggerVars
<1>3. Steps' = Steps /\ OneStep'
  BY <1>2 DEF Steps, OneStep
<1>4. event.kind # "trap"
  BY <1>1 DEF None, Reason
<1>5. CASE Signal \/ Interrupt \/ \E t \in Thread : HitTrap(t) \/ EndProcess(t)
  <2>1. UNCHANGED <<live, pc, step_bit>>
    BY <1>5, Zenon DEF HitTrap, EndProcess, Signal, Interrupt
  <2>2. \/ event' \in {Reason("sigstop", NoThread), Reason("signal", NoThread)}
        \/ \E t \in Thread : event' = Reason("exited", t)
        \/ \E t \in live : event' = Reason("trap", t) /\ pc[t] \in enabled
    BY <1>5, Zenon DEF HitTrap, EndProcess, Signal, Interrupt, Runnable
  <2>3. event' # None /\ (event'.kind = "trap" => \E w \in live : pc[w] \in enabled)
    BY <2>2 DEF None, Reason
  <2>4. Guarded'
    BY <2>1, <1>2, <1>3 DEF Guarded
  <2>5. Looked'
    BY <2>1, <2>3, <1>1, <1>2 DEF Looked
  <2> QED
    BY <2>4, <2>5, <1>3
<1>6. ASSUME NEW t \in Thread, Execute(t)
      PROVE  Guarded' /\ Looked'
  <2>1. /\ t \in live /\ pc' = [pc EXCEPT ![t] = (pc[t] + 1) % Size]
        /\ event' = IF t \in step_bit THEN Reason("trap", t) ELSE None
        /\ UNCHANGED <<live, step_bit>>
    BY <1>6, Zenon DEF Execute, Runnable
  <2>2. \A u \in Thread \ {t} : pc'[u] = pc[u]
    BY <2>1, <1>0 DEF TypeOK
  <2>3. Guarded'
    BY <2>1, <1>2, <1>3 DEF Guarded
  <2>4. step_bit \subseteq Thread
    BY <1>0 DEF TypeOK
  <2>5. CASE t \in step_bit
    <3>1. event' # None
      BY <2>1, <2>5 DEF None, Reason
    <3> QED
      BY <3>1, <2>1, <2>3, <2>5, <1>1, <1>2 DEF Looked
  <2>6. CASE t \notin step_bit
    <3>1. event' = None /\ event'.kind # "trap"
      BY <2>1, <2>6 DEF None, Reason
    <3>2. \A u \in step_bit : pc'[u] = pc[u]
      BY <2>2, <2>4, <2>6
    <3> QED
      BY <3>1, <3>2, <2>1, <2>3, <1>1, <1>2 DEF Looked
  <2> QED
    BY <2>5, <2>6
<1>7. ASSUME NEW t \in Thread, EndThread(t)
      PROVE  Guarded' /\ Looked'
  <2>1. live' = live \ {t} /\ step_bit' = step_bit \ {t} /\ UNCHANGED <<pc, event>>
    BY <1>7, Zenon DEF EndThread
  <2>2. Guarded'
    BY <2>1, <1>2, <1>3 DEF Guarded
  <2>3. Looked'
    BY <2>1, <1>1, <1>2, <1>4 DEF Looked
  <2> QED
    BY <2>2, <2>3
<1>8. ASSUME NEW t \in Thread, StartThread(t)
      PROVE  Guarded' /\ Looked'
  <2>1. /\ t \notin live /\ t \notin ports
        /\ live' = live \cup {t} /\ pc' = [pc EXCEPT ![t] = 0] /\ UNCHANGED <<step_bit, event>>
    BY <1>8, Zenon DEF StartThread
  <2>2. Guarded'
    BY <2>1, <1>2, <1>3 DEF Guarded
  <2>3. step_bit \subseteq live /\ live \subseteq Thread
    BY <1>0, <1>1 DEF Looked, TypeOK
  <2>4. \A u \in step_bit : pc'[u] = pc[u]
    BY <2>1, <2>3, <1>0 DEF TypeOK
  <2>5. Looked'
    BY <2>1, <2>4, <1>1, <1>2, <1>4 DEF Looked
  <2> QED
    BY <2>2, <2>5
<1> QED
  BY <1>3, <1>5, <1>6, <1>7, <1>8, Zenon DEF Run

-----------------------------------------------------------------------------
(* Without hit handlers, an entry that is awaited is that of the thread that *)
(* the loop steps.                                                           *)

LEMMA LoopHead ==
    ASSUME TypeOK, todo # <<>>, Head(todo).op \in Loops
    PROVE  Traces # {}
<1>1. PICK h \in TaskType, T \in Seq(TaskType) : h = Head(todo) /\ todo = Push(h, T)
  BY SplitHead DEF TypeOK
<1>2. h.op \in {"trace", "traced"}
  BY <1>1 DEF Loops
<1>3. TracesOf(Push(h, T)) # {}
  BY <1>2, PushFacts
<1>4. Traces = TracesOf(Push(h, T))
  BY <1>1 DEF Traces, TracesOf
<1> QED
  BY <1>3, <1>4

LEMMA SteppedHead ==
    ASSUME NEW s \in Seq(TaskType), s # <<>>, Head(s).op = "stepped"
    PROVE  \E e \in Frames(s, "stepped") : e[2] = Head(s)
<1>1. PICK h \in TaskType, T \in Seq(TaskType) : h = Head(s) /\ s = Push(h, T)
  BY SplitHead
<1>2. Frames(Push(h, T), "stepped") = Frames(T, "stepped") \cup {<<Len(T), h>>}
  BY <1>1, PushFacts
<1>3. <<Len(T), h>> \in Frames(s, "stepped")
  BY <1>1, <1>2
<1>4. <<Len(T), h>>[2] = Head(s)
  BY <1>1
<1> QED
  BY <1>3, <1>4

LEMMA ExcuseFacts ==
    ASSUME TypeOK, Excuse, expecting' = expecting
    PROVE  ~Awaited'
  BY DEF Excuse, Awaited, TypeOK, EntryType

LEMMA EnteredUser ==
    ASSUME RunControlInv, Looked, Entered, User
    PROVE  Entered'
<1>0. TypeOK /\ ControlInv /\ todo = <<>> /\ state # "running"
  BY Zenon DEF RunControlInv, ControlInv, User, Continue, StepI, SetCatchPolicy, SelectThread, Followed, Prompt
<1>1. Steps = {} /\ Traces = {} /\ tracing = FALSE
  BY <1>0, NoFrames DEF Steps, Traces, ControlInv, TypeOK
<1>2. UNCHANGED <<state, tracing, expecting, step_bit, event>>
  BY Zenon DEF User, Continue, StepI, SetCatchPolicy, SelectThread, inferiorVars
<1>3. CASE Continue
  <2>1. todo' = <<Task("resume", current), Call("wait"), Call("report")>> /\ UNCHANGED <<current, catching, caught>>
    BY <1>3, Zenon DEF Continue
  <2>2. Head(todo').op = "resume" /\ Head(todo').t = current
    BY <2>1 DEF Task
  <2>3. Steps' = {} /\ Traces' = {} /\ Awaited' = Awaited
    BY <2>1, <1>2, <1>3, KeepsContinue DEF Awaited
  <2> QED
    BY <2>1, <2>2, <2>3, <1>0, <1>2 DEF Entered
<1>4. CASE StepI
  <2>1. todo' = <<Task("step", current), Call("report")>> /\ current' = current /\ Excuse
    BY <1>4, Zenon DEF StepI
  <2>2. Head(todo').op = "step" /\ Head(todo').t = current
    BY <2>1 DEF Task
  <2>3. Steps' = {} /\ Traces' = {} /\ ~Awaited'
    BY <2>1, <1>0, <1>2, <1>4, KeepsStepI, ExcuseFacts
  <2> QED
    BY <2>1, <2>2, <2>3, <1>0, <1>2 DEF Entered
<1>5. CASE SetCatchPolicy \/ \E t \in Thread : SelectThread(t)
  <2>1. todo' = todo /\ Excuse
    BY <1>5, Zenon DEF SetCatchPolicy, SelectThread
  <2>2. Steps' = {} /\ Traces' = {} /\ ~Awaited'
    BY <2>1, <1>0, <1>1, <1>2, ExcuseFacts DEF Steps, Traces
  <2> QED
    BY <2>1, <2>2, <1>0, <1>2 DEF Entered
<1> QED
  BY <1>3, <1>4, <1>5, Zenon DEF User

LEMMA EnteredResume ==
    ASSUME RunControlInv, OneStep, Looked, Entered, DoResume
    PROVE  Entered'
<1>0. TypeOK /\ ControlInv /\ todo # <<>> /\ Head(todo).op = "resume"
  BY DEF RunControlInv, DoResume, Doing
<1>1. Steps = {} /\ state = "stopped" /\ tracing = FALSE
  BY <1>0, NoStep DEF Waits, ControlInv, Looked
<1>2. /\ Steps' = Steps /\ todo' # <<>> /\ Head(todo').op \in {"trace", "send_continue", "step"}
      /\ Head(todo').op # "send_continue" => Head(todo').t = Head(todo).t
      /\ Head(todo').op # "trace" => tracing' = tracing
      /\ Head(todo').op = "trace" => tracing' = TRUE
      /\ catching = TRUE \/ Traces' = Traces
  BY KeepsResume
<1>3. /\ tracing' = (tracing \/ (catching /\ ~tracing))
      /\ UNCHANGED <<ret, state, current, catching, expecting, caught>>
  BY Zenon DEF DoResume
<1>4. Awaited' = Awaited
  BY <1>3 DEF Awaited
<1>5. Awaited => Head(todo').op = "trace"
  BY <1>1, <1>2, <1>3 DEF Entered
<1>6. Awaited => caught.t = current
  BY <1>1 DEF Entered
<1> QED
  BY <1>0, <1>1, <1>2, <1>3, <1>4, <1>5, <1>6 DEF Entered

LEMMA EnteredTrace ==
    ASSUME RunControlInv, OneStep, Looked, Entered, DoTrace
    PROVE  Entered'
<1>0. TypeOK /\ ControlInv /\ todo # <<>> /\ Head(todo).op = "trace"
  BY DEF RunControlInv, DoTrace, Doing
<1>1. Steps = {} /\ state = "stopped" /\ catching = TRUE /\ Head(todo).t = current
  BY <1>0, NoStep, LoopHead DEF Waits, ControlInv, Entered, Loops
<1>2. /\ Steps' = Steps /\ todo' # <<>> /\ Head(todo').op \in Waits \cup {"step"}
      /\ Head(todo').op = "step" =>
           Head(todo').t = Head(todo).t /\ (SvcMatches(Head(todo).t) => expecting = TRUE)
  BY KeepsTrace
<1> DEFINE entry == SvcMatches(Head(todo).t) /\ ~expecting
<1>3. /\ expecting' = (expecting \/ entry)
      /\ tracing' = ~entry
      /\ caught' = IF entry THEN [t |-> Head(todo).t, excused |-> FALSE] ELSE caught
      /\ UNCHANGED <<ret, state, current, catching>>
  BY Zenon DEF DoTrace
<1>4. CASE entry
  <2>1. caught'.t = current /\ tracing' = FALSE /\ Head(todo').op \in Waits
    BY <1>1, <1>2, <1>3, <1>4
  <2> QED
    BY <2>1, <1>1, <1>2, <1>3 DEF Entered, Waits
<1>5. CASE ~entry
  <2>1. tracing' = TRUE /\ caught' = caught /\ (expecting' <=> expecting)
    BY <1>3, <1>5
  <2>2. expecting' = TRUE => expecting = TRUE
    BY <2>1, <1>0 DEF TypeOK
  <2>3. Awaited' => Awaited
    BY <2>1, <2>2 DEF Awaited
  <2>4. Awaited => caught.t = Head(todo).t
    BY <1>0 DEF Entered
  <2> QED
    BY <2>1, <2>3, <2>4, <1>1, <1>2, <1>3 DEF Entered, Waits
<1> QED
  BY <1>4, <1>5

LEMMA EnteredTraced ==
    ASSUME RunControlInv, OneStep, Looked, Entered, DoTraced
    PROVE  Entered'
<1>0. TypeOK /\ ControlInv /\ todo # <<>> /\ Head(todo).op = "traced"
  BY DEF RunControlInv, DoTraced, Doing
<1>1. Steps = {} /\ state # "running" /\ catching = TRUE
  BY <1>0, NoStep, LoopHead DEF Waits, ControlInv, Entered, Loops
<1>2. /\ Steps' = Steps /\ todo' # <<>> /\ Head(todo').op \in Waits \cup {"trace"}
      /\ Head(todo').op = "trace" => Head(todo').t = Head(todo).t /\ IsStep(ret)
  BY KeepsTraced
<1>3. /\ expecting' = (expecting /\ ~IsStep(ret)) /\ tracing' = (IsStep(ret) /\ ~expecting)
      /\ IF IsStep(ret) THEN caught' = NoEntry ELSE Excuse
      /\ IF IsStep(ret) /\ ~expecting THEN todo' = <<Task("trace", Head(todo).t)>> \o Tail(todo)
                                      ELSE todo' = Tail(todo)
      /\ UNCHANGED <<ret, state, current, catching>>
  BY Zenon DEF DoTraced, Perform, Return
<1>4. ~Awaited'
  <2>1. CASE IsStep(ret)
    BY <2>1, <1>3 DEF Awaited
  <2>2. CASE ~IsStep(ret)
    <3>1. expecting' = expecting
      BY <2>2, <1>0, <1>3 DEF TypeOK
    <3> QED
      BY <3>1, <2>2, <1>0, <1>3, ExcuseFacts
  <2> QED
    BY <2>1, <2>2
<1>5. Head(todo').op = "trace" => tracing' = TRUE
  <2>1. CASE IsStep(ret) /\ ~expecting
    BY <2>1, <1>3
  <2>2. CASE ~(IsStep(ret) /\ ~expecting)
    <3>1. todo' = Tail(todo)
      BY <2>2, <1>3
    <3>2. Follows(Head(todo), Head(todo'))
      BY <3>1, <1>0, <1>2, PopFacts
    <3> QED
      BY <3>2, <1>0 DEF Follows, After, Waits
  <2> QED
    BY <2>1, <2>2
<1>6. Head(todo').op = "trace" => Head(todo').t = current
  BY <1>0, <1>2 DEF Entered
<1> QED
  BY <1>1, <1>2, <1>3, <1>4, <1>5, <1>6 DEF Entered, Waits

LEMMA EnteredSendContinue ==
    ASSUME RunControlInv, lost = NothingLost, OneStep, Looked, Entered, SendContinue \/ GoneThrows \/ Report
    PROVE  Entered'
<1>0. TypeOK /\ ControlInv /\ SiteInv
  BY DEF RunControlInv
<1>1. UNCHANGED <<current, catching, expecting, caught, step_bit, event>>
  BY Zenon DEF SendContinue, GoneThrows, Report, inferiorVars
<1>2. Awaited' = Awaited
  BY <1>1 DEF Awaited
<1>3. CASE SendContinue
  <2>1. /\ todo # <<>> /\ Head(todo).op = "send_continue" /\ todo' = Tail(todo)
        /\ state = "stopped" /\ state' = "running" /\ tracing' = tracing
    BY <1>3, Zenon DEF SendContinue, Doing, Return
  <2>2. Steps = {} /\ step_bit = {}
    BY <2>1, <1>0, NoStep, PlainSites DEF Waits
  <2>3. Steps' = {} /\ Traces' = Traces /\ todo' # <<>> /\ Head(todo').op \in Waits
    BY <2>1, <2>2, <1>0, PopFacts DEF Loops, Follows, After, Waits
  <2> QED
    BY <2>1, <2>2, <2>3, <1>1, <1>2 DEF Entered, Waits
<1>4. CASE GoneThrows
  <2>1. todo' = <<>> /\ state = "exited" /\ state' = "exited"
    BY <1>4, Zenon DEF GoneThrows
  <2>2. Steps' = {} /\ Traces' = {}
    BY <2>1, NoFrames DEF Steps, Traces
  <2> QED
    BY <2>1, <2>2, <1>1, <1>2 DEF Entered
<1>5. CASE Report
  <2>1. /\ todo # <<>> /\ Head(todo).op = "report" /\ todo' = Tail(todo)
        /\ state' = state /\ tracing' = tracing
    BY <1>5, Zenon DEF Report, Doing, Return
  <2>2. Steps = {} /\ state # "running"
    BY <2>1, <1>0, NoStep DEF Waits, ControlInv
  <2>3. Steps' = {} /\ Traces' = Traces /\ todo' = <<>>
    BY <2>1, <2>2, <1>0, PopFacts DEF Loops
  <2> QED
    BY <2>1, <2>2, <2>3, <1>1, <1>2 DEF Entered
<1> QED
  BY <1>3, <1>4, <1>5

LEMMA EnteredStep ==
    ASSUME RunControlInv, lost = NothingLost, OneStep, Looked, Entered, DoStep
    PROVE  Entered'
<1>0. TypeOK /\ ControlInv /\ SiteInv
  BY DEF RunControlInv
<1>1. PICK e \in TaskType, T \in Seq(TaskType) :
        /\ e.t = Head(todo).t /\ todo' # <<>> /\ Head(todo').op = "wait" /\ Traces' = Traces
        /\ Steps' = Steps \cup {<<Len(T), e>>}
  BY StepBegins, Zenon
<1>2. /\ todo # <<>> /\ Head(todo).op = "step" /\ current' = Head(todo).t
      /\ step_bit' = step_bit \cup {Head(todo).t} /\ state' = "running"
      /\ UNCHANGED <<tracing, catching, expecting, caught>>
  BY Zenon DEF DoStep, Doing
<1>3. Steps = {} /\ state = "stopped"
  BY <1>0, <1>2, NoStep DEF Waits, ControlInv
<1>4. step_bit = {}
  BY <1>0, <1>3, PlainSites
<1>5. Awaited' = Awaited
  BY <1>2 DEF Awaited
<1>6. Awaited => tracing = TRUE /\ caught.t = Head(todo).t
  BY <1>2 DEF Entered
<1> QED
  BY <1>1, <1>2, <1>3, <1>4, <1>5, <1>6 DEF Entered

LEMMA EnteredStepped ==
    ASSUME RunControlInv, OneStep, Looked, Entered, DoStepped
    PROVE  Entered'
<1>0. TypeOK /\ ControlInv
  BY DEF RunControlInv
<1>1. todo # <<>> /\ Head(todo).op = "stepped" /\ todo' = Tail(todo)
  BY DEF DoStepped, Doing, Return
<1>2. PICK h, x :
        /\ h = Head(todo) /\ todo' # <<>>
        /\ Head(todo').op \in {"send_continue", "traced", "report"}
        /\ Head(todo').op = "traced" => Head(todo').t = h.t
        /\ Traces' = Traces /\ Steps = Steps' \cup {x}
  BY <1>0, <1>1, StepEnds, Zenon
<1>3. UNCHANGED <<ret, state, current, tracing, catching, expecting, caught>>
  BY Zenon DEF DoStepped
<1>4. state # "running"
  BY <1>0, <1>1 DEF ControlInv, Waits
<1>5. Awaited' = Awaited
  BY <1>3 DEF Awaited
<1>6. Steps # {} /\ (Awaited => tracing = TRUE) /\ (IsStep(ret) => h.t = current)
  BY <1>1, <1>2 DEF Entered
<1> QED
  BY <1>2, <1>3, <1>4, <1>5, <1>6 DEF Entered

LEMMA EnteredWait ==
    ASSUME RunControlInv, OneStep, Looked, Entered, DoWait
    PROVE  Entered'
<1>0. TypeOK /\ ControlInv
  BY DEF RunControlInv
<1>1. /\ todo # <<>> /\ Head(todo).op = "wait"
      /\ \/ queued # None /\ todo' = Tail(todo) /\ ret' = queued
         \/ queued = None /\ todo' = <<Call("waitpid")>> \o Tail(todo)
      /\ UNCHANGED <<state, current, tracing, catching, expecting, caught, step_bit, event>>
  BY Zenon DEF DoWait, Doing, Perform, Return, inferiorVars
<1>2. Awaited' = Awaited
  BY <1>1 DEF Awaited
<1>3. CASE queued # None /\ todo' = Tail(todo) /\ ret' = queued
  <2>1. ~IsStep(ret')
    BY <1>0, <1>3 DEF ControlInv, IsStep
  <2>2. Steps' = Steps /\ Traces' = Traces /\ todo' # <<>> /\ Head(todo').op \in {"report", "stepped"}
    BY <1>0, <1>1, <1>3, PopFacts DEF Loops, Follows, After, Waits
  <2> QED
    BY <2>1, <2>2, <1>1, <1>2 DEF Entered
<1>4. CASE queued = None /\ todo' = <<Call("waitpid")>> \o Tail(todo)
  <2>0. /\ After("waitpid") = After("wait") /\ "traced" \notin After("waitpid")
        /\ Call("waitpid") \in TaskType /\ Call("waitpid").op = "waitpid"
    BY NewTasks DEF After, Waits, Ops
  <2>1. Steps' = Steps /\ Traces' = Traces /\ todo' # <<>> /\ Head(todo') = Call("waitpid")
    BY <2>0, <1>0, <1>1, <1>4, ReplaceFacts DEF Threaded, Loops
  <2>2. Head(todo').op = "waitpid"
    BY <2>0, <2>1
  <2> QED
    BY <2>1, <2>2, <1>1, <1>2 DEF Entered
<1> QED
  BY <1>1, <1>3, <1>4

LEMMA EnteredWaitpid ==
    ASSUME RunControlInv, lost = NothingLost, OneStep, Guarded, Looked, Entered, handled = {},
           WaitExit \/ WaitSignal \/ WaitTrap
    PROVE  Entered'
<1>0. TypeOK /\ ControlInv /\ Looked'
  BY PlainWaitpid DEF RunControlInv
<1>1. /\ todo # <<>> /\ Head(todo).op = "waitpid" /\ state' \in {"stopped", "exited"}
      /\ UNCHANGED <<tracing, catching, expecting, caught, live>>
  BY Zenon DEF WaitExit, WaitSignal, WaitTrap, Doing
<1>2. todo' = Tail(todo)
  BY Zenon DEF WaitExit, WaitSignal, WaitTrap, Return
<1>3. /\ Steps' = Steps /\ Traces' = Traces /\ todo' # <<>> /\ Head(todo').op \in {"report", "stepped"}
      /\ todo' \in Seq(TaskType)
  BY <1>0, <1>1, <1>2, PopFacts DEF Loops, Follows, After, Waits
<1>4. state = "running"
  BY <1>0 DEF WaitExit, WaitSignal, WaitTrap, ControlInv, None, Reason
<1>5. Awaited' = Awaited /\ (Awaited => tracing = TRUE)
  BY <1>1, <1>4 DEF Awaited, Entered
<1>6. ASSUME Head(todo').op = "stepped", IsStep(ret')
      PROVE  Head(todo').t = current'
  <2>1. WaitTrap
    <3>1. ASSUME WaitExit \/ WaitSignal
          PROVE  FALSE
      <4>1. ret'.kind \in {"exited", "signal", "sigstop"}
        BY <3>1 DEF WaitExit, WaitSignal, Reason
      <4> QED
        BY <4>1, <1>6 DEF IsStep
    <3> QED
      BY <3>1
  <2>2. ret' \in Attributed /\ current' = ret'.t /\ state' = "stopped"
    BY <2>1, Zenon DEF WaitTrap
  <2>3. PICK e \in Steps : e[2] = Head(todo')
    BY <1>3, <1>6, SteppedHead DEF Steps
  <2>4. Head(todo').t = current
    BY <2>3, <1>4 DEF Entered
  <2>5. current \in live
    BY <2>2, <2>4, <1>0, <1>1, <1>3, <1>6 DEF Looked
  <2>6. ret'.t \in StillCurrent
    BY <2>2, <1>6 DEF Attributed, IsStep, Reason
  <2> QED
    BY <2>2, <2>4, <2>5, <2>6 DEF StillCurrent
<1> QED
  BY <1>1, <1>3, <1>5, <1>6 DEF Entered

LEMMA EnteredInferior ==
    ASSUME RunControlInv, OneStep, Looked, Entered,
           \/ \E t \in Thread : Run(t) \/ StartThread(t)
           \/ Signal \/ Interrupt
    PROVE  Entered'
<1>0. TypeOK /\ ControlInv
  BY DEF RunControlInv
<1>1. UNCHANGED debuggerVars /\ state = "running" /\ event = None
  BY Zenon DEF Run, HitTrap, Execute, EndThread, EndProcess, StartThread, Signal, Interrupt, Runnable, Executing
<1>2. UNCHANGED <<todo, ret, state, current, tracing, catching, expecting>>
  BY <1>1 DEF debuggerVars
<1>3. Steps' = Steps /\ Traces' = Traces
  BY <1>2 DEF Steps, Traces
<1>4. Head(todo).op \in Waits
  BY <1>0, <1>1 DEF ControlInv
<1> DEFINE Kept == /\ caught'.excused = caught.excused
                   /\ event' = None => \A u \in step_bit' : u \in step_bit /\ (caught.t = u => caught'.t = u)
<1>5. Kept
  <2>0. caught \in EntryType
    BY <1>0 DEF TypeOK
  <2>1. ASSUME NEW t \in Thread, Execute(t)
        PROVE  Kept
    <3>1. Leaves(t) /\ step_bit' = step_bit /\ event' = IF t \in step_bit THEN Reason("trap", t) ELSE None
      BY <2>1, Zenon DEF Execute
    <3>2. event' = None => t \notin step_bit
      BY <3>1 DEF None, Reason
    <3> QED
      BY <3>1, <3>2, <2>0 DEF Leaves, EntryType
  <2>2. ASSUME NEW t \in Thread, EndThread(t)
        PROVE  Kept
    <3>1. Leaves(t) /\ step_bit' = step_bit \ {t}
      BY <2>2, Zenon DEF EndThread
    <3> QED
      BY <3>1, <2>0 DEF Leaves, EntryType
  <2>3. CASE Signal \/ Interrupt \/ \E t \in Thread : HitTrap(t) \/ EndProcess(t) \/ StartThread(t)
    <3>1. caught' = caught /\ step_bit' = step_bit
      BY <2>3, Zenon DEF HitTrap, EndProcess, Signal, Interrupt, StartThread
    <3> QED
      BY <3>1
  <2> QED
    BY <2>1, <2>2, <2>3, Zenon DEF Run
<1>6. Awaited' = Awaited
  BY <1>2, <1>5 DEF Awaited
<1> QED
  BY <1>1, <1>2, <1>3, <1>4, <1>5, <1>6 DEF Entered, Waits

LEMMA PlainKept ==
    ASSUME RunControlInv, PlainInv, [Next]_vars
    PROVE  PlainInv'
<1>1. CASE UNCHANGED vars
  <2>1. UNCHANGED <<todo, ret, state, current, ports, enabled, catching, tracing, expecting, live, pc,
                    step_bit, event, handled, caught, lost>>
    BY <1>1, Zenon DEF vars, debuggerVars, inferiorVars
  <2>2. Steps' = Steps
    BY <2>1 DEF Steps
  <2>3. OneStep' = OneStep /\ Guarded' = Guarded
    BY <2>1, <2>2 DEF OneStep, Guarded
  <2>4. Looked => Looked'
    BY <2>1 DEF Looked
  <2>5. Traces' = Traces /\ Awaited' = Awaited
    BY <2>1 DEF Traces, Awaited
  <2>6. Entered => Entered'
    BY <2>1, <2>2, <2>5 DEF Entered
  <2> QED
    BY <2>1, <2>3, <2>4, <2>6, Zenon DEF PlainInv
<1>2. CASE Next
  <2>0. handled' = handled
    BY <1>2 DEF Next
  <2> SUFFICES ASSUME handled = {}, lost' = NothingLost
               PROVE  OneStep' /\ Guarded' /\ Looked' /\ Entered'
    BY <2>0 DEF PlainInv
  <2>5. ASSUME WaitThrows \/ NotifyThrows
        PROVE  FALSE
    <3>1. lost' = [throws |-> lost.throws + 1, steps |-> lost.steps \cup UnderWay]
      BY <2>5, Zenon DEF WaitThrows, NotifyThrows, Throw
    <3>2. lost.throws \in 0 .. MaxThrows /\ MaxThrows \in Nat
      BY RunControlAssumption DEF RunControlInv, TypeOK
    <3>3. lost'.throws = lost.throws + 1 /\ lost'.throws = 0
      BY <3>1 DEF NothingLost
    <3> QED
      BY <3>2, <3>3
  <2>6. lost = NothingLost
    <3>1. CASE User
      BY <3>1, Zenon DEF User, Continue, StepI, SetCatchPolicy, SelectThread
    <3>2. CASE Debugger
      BY <3>2, Zenon DEF Debugger, DoResume, DoTrace, DoTraced, SendContinue, GoneThrows, DoStep,
         DoStepped, DoWait, WaitExit, WaitSignal, WaitTrap, Report
    <3>3. CASE (\E t \in Thread : Run(t) \/ StartThread(t)) \/ Signal \/ Interrupt
      BY <3>3, Zenon DEF Run, HitTrap, Execute, EndThread, EndProcess, StartThread, Signal, Interrupt
    <3> QED
      BY <1>2, <2>5, <3>1, <3>2, <3>3, Zenon DEF Next
  <2>1. OneStep /\ Guarded /\ Looked /\ Entered /\ lost = NothingLost
    BY <2>6 DEF PlainInv
  <2>2. CASE User
    BY <2>1, <2>2, PlainUser, EnteredUser
  <2>3. CASE Debugger
    <3>1. CASE DoResume \/ DoTrace \/ DoTraced
      BY <2>1, <3>1, PlainResume, EnteredResume, EnteredTrace, EnteredTraced
    <3>2. CASE SendContinue \/ GoneThrows \/ Report
      BY <2>1, <3>2, PlainSendContinue, EnteredSendContinue
    <3>3. CASE DoStep \/ DoStepped \/ DoWait
      BY <2>1, <3>3, PlainStep, PlainStepped, PlainWait, EnteredStep, EnteredStepped, EnteredWait
    <3>4. CASE WaitExit \/ WaitSignal \/ WaitTrap
      BY <2>1, <3>4, PlainWaitpid, EnteredWaitpid
    <3> QED
      BY <2>3, <3>1, <3>2, <3>3, <3>4, Zenon DEF Debugger
  <2>4. CASE (\E t \in Thread : Run(t) \/ StartThread(t)) \/ Signal \/ Interrupt
    BY <2>1, <2>4, PlainInferior, EnteredInferior
  <2> QED
    BY <1>2, <2>2, <2>3, <2>4, <2>5, Zenon DEF Next
<1> QED
  BY <1>1, <1>2

LEMMA PlainInvariant == Spec => [](RunControlInv /\ PlainInv)
<1>1. Init => PlainInv
  <2> SUFFICES ASSUME Init
               PROVE  OneStep /\ Guarded /\ Looked /\ Entered
    BY DEF PlainInv
  <2>1. Steps = {} /\ Traces = {}
    BY NoFrames DEF Init, Steps, Traces
  <2>2. event.kind # "trap"
    BY DEF Init, None, Reason
  <2>3. Looked
    BY <2>2 DEF Init, Looked
  <2>4. Entered
    BY <2>1 DEF Init, Entered, Awaited
  <2> QED
    BY <2>1, <2>3, <2>4 DEF OneStep, Guarded
<1>2. RunControlInv /\ PlainInv /\ [Next]_vars => PlainInv'
  BY PlainKept
<1> QED
  BY <1>1, <1>2, RunControlInvariant, PTL DEF Spec

\* A thread's pc moves when it executes, or when it starts.
LEMMA PcMoves ==
    ASSUME TypeOK, Next, NEW t \in Thread, pc'[t] # pc[t]
    PROVE  Executing /\ (t \in live => Execute(t))
<1>1. pc \in [Thread -> Addr]
  BY DEF TypeOK
<1>2. CASE \E u \in Thread : Execute(u)
  <2>1. PICK u \in Thread : Execute(u) /\ pc' = [pc EXCEPT ![u] = (pc[u] + 1) % Size] /\ Executing
    BY <1>2, Zenon DEF Execute, Runnable
  <2>2. u = t
    BY <2>1, <1>1
  <2> QED
    BY <2>1, <2>2
<1>3. CASE \E u \in Thread : StartThread(u)
  <2>1. PICK u \in Thread : u \notin live /\ pc' = [pc EXCEPT ![u] = 0] /\ Executing
    BY <1>3, Zenon DEF StartThread
  <2>2. u = t
    BY <2>1, <1>1
  <2> QED
    BY <2>1, <2>2
<1>4. CASE User
  BY <1>4, Zenon DEF User, Continue, StepI, SetCatchPolicy, SelectThread, inferiorVars
<1>5. CASE Debugger
  BY <1>5, Zenon DEF Debugger, DoResume, DoTrace, DoTraced, SendContinue, GoneThrows, DoStep,
     DoStepped, DoWait, WaitExit, WaitSignal, WaitTrap, Report, inferiorVars
<1>6. CASE Signal \/ Interrupt \/ \E u \in Thread : HitTrap(u) \/ EndThread(u) \/ EndProcess(u)
  BY <1>6, Zenon DEF Signal, Interrupt, HitTrap, EndThread, EndProcess
<1>7. CASE WaitThrows \/ NotifyThrows
  BY <1>7, Zenon DEF WaitThrows, NotifyThrows, inferiorVars
<1> QED
  BY <1>2, <1>3, <1>4, <1>5, <1>6, <1>7, Zenon DEF Next, Run

\* While step_instruction has a site out, no other thread the debugger knows
\* can run past it: such a thread leaves the address of a site only by a
\* single step.
THEOREM BreakpointsNotMissed == Spec => NoMissedBreakpoint
<1>1. ASSUME RunControlInv, PlainInv, [Next]_vars
      PROVE  [\A t \in ports \cap live :
                handled = {} /\ lost = NothingLost /\ pc'[t] # pc[t] /\ pc[t] \in Sites => t \in step_bit]_vars
  <2> SUFFICES ASSUME NEW t \in ports \cap live, handled = {}, lost = NothingLost, pc'[t] # pc[t], pc[t] \in Sites
               PROVE  t \in step_bit
    OBVIOUS
  <2>0. TypeOK /\ ControlInv /\ SiteInv /\ HeldInv /\ OneStep /\ Guarded
    BY <1>1 DEF RunControlInv, PlainInv
  <2>1. Next
    BY <1>1 DEF vars, inferiorVars
  <2>2. Execute(t)
    BY <2>0, <2>1, PcMoves DEF TypeOK
  <2>3. state = "running" /\ suspended[t] = 0 /\ pc[t] \notin enabled
    BY <2>2, Zenon DEF Execute, Runnable, Executing
  <2>4. PICK e \in Steps : pc[t] \in e[2].site
    BY <2>0, <2>3, PlainSites
  <2>5. e[2].held = ports \ {e[2].t} /\ (e[2].t \in ports \cap live => e[2].t \in step_bit)
    BY <2>0, <2>3 DEF Guarded
  <2>6. t \notin e[2].held
    <3>1. Cardinality(Holding(t)) = 0
      BY <2>0, <2>3 DEF HeldInv, ControlInv
    <3>2. Holding(t) = {}
      BY <3>1, <2>0, HoldingFinite, FS_EmptySet
    <3>3. Tag(e) \in Begun /\ Tag(e).step = e[2]
      BY DEF Begun, Tag
    <3> QED
      BY <3>2, <3>3 DEF Holding
  <2> QED
    BY <2>5, <2>6
<1> QED
  BY <1>1, PlainInvariant, PTL DEF Spec, NoMissedBreakpoint

\* Under a catch policy the traced thread executes no selected svc that the
\* loop can see before the entry of this very call was queued, for this thread
\* and since it got there, unless that is excused: see CaughtBeforeExecuted.
THEOREM SyscallsCaught == Spec => CaughtBeforeExecuted
<1>1. ASSUME RunControlInv, PlainInv, [Next]_vars
      PROVE  [\A t \in Thread : ExecutesSvc(t) => caught.t = t \/ caught.excused]_vars
  <2> SUFFICES ASSUME NEW t \in Thread, ExecutesSvc(t)
               PROVE  caught.t = t \/ caught.excused
    OBVIOUS
  <2>0. TypeOK /\ handled = {} /\ lost = NothingLost /\ tracing /\ t \in step_bit /\ pc'[t] # pc[t]
        /\ pc[t] \in Svc \ Sites
    BY <1>1 DEF RunControlInv, ExecutesSvc
  <2>1. Looked /\ Entered
    BY <2>0, <1>1 DEF PlainInv
  <2>2. Next
    BY <2>0, <1>1 DEF vars, inferiorVars
  <2>3. state = "running" /\ event = None
    BY <2>0, <2>2, PcMoves DEF Executing
  <2>4. tracing = TRUE /\ caught.excused \in BOOLEAN
    BY <2>0 DEF TypeOK, EntryType
  <2>5. expecting = TRUE
    BY <2>0, <2>1, <2>3, <2>4 DEF Looked
  <2>6. Awaited => caught.t = t
    BY <2>0, <2>1, <2>3 DEF Entered
  <2> QED
    BY <2>4, <2>5, <2>6 DEF Awaited
<1> QED
  BY <1>1, PlainInvariant, PTL DEF Spec, CaughtBeforeExecuted
=============================================================================
