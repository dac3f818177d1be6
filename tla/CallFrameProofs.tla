--------------------------- MODULE CallFrameProofs --------------------------
(***************************************************************************)
(* Proofs about CallFrame: the caller is found by the compact encoding, by *)
(* the frame chain and by the instructions of an FDE.                      *)
(*                                                                         *)
(* The properties are about every location a finished function has, so     *)
(* the invariants are about the machine now and the machine in every       *)
(* snapshot.  FrameInv says what the instructions executed so far have     *)
(* left in the registers and on the stack.  What the code behind a return  *)
(* goes on with is the last snapshot before the epilogue, so there has to  *)
(* be one, in the body.                                                    *)
(*                                                                         *)
(* FdeInv is about the loop over the FDE, for each pc: behind the program  *)
(* so far its rules describe the machine now, if it gets that far, and     *)
(* lead to the caller from the snapshot of pc.  The second does not change *)
(* when the program grows, because the loop ends at the first advance.     *)
(***************************************************************************)
EXTENDS CallFrame, WellFoundedInduction, TLAPS

Instructions == {"clobber", "push", "frame", "save", "allocate", "move", "epilogue", "return"}

\* The frame is not taken down, or it is up again.
Standing(d) == "epilogue" \notin d \/ "return" \in d

\* The instructions of a function with a frame record and their order.
FrameOrder(d) ==
    /\ "allocate" \notin d /\ "move" \notin d
    /\ "frame" \in d => "push" \in d
    /\ "save" \in d => "frame" \in d
    /\ "epilogue" \in d => "save" \in d
    /\ "return" \in d => "epilogue" \in d

\* The frame record and the saved pair on the stack.
Stacked(mem, d) ==
    /\ "push" \in d => mem[8] = 16 /\ mem[9] = 100
    /\ "save" \in d => mem[6] = 210 /\ mem[7] = 200

\* The registers while the frame stands, and those of the caller otherwise.
FrameRegisters(m, d) ==
    IF "push" \in d /\ Standing(d)
    THEN /\ m.sp = IF "save" \in d THEN 6 ELSE 8
         /\ m.fp = IF "frame" \in d THEN 8 ELSE 16
         /\ "frame" \notin d => m.lr = 100
         /\ "save" \notin d => m.x19 = 200 /\ m.x20 = 210
    ELSE m.sp = 10 /\ m.fp = 16 /\ m.lr = 100 /\ m.x19 = 200 /\ m.x20 = 210

FramelessOrder(d) ==
    /\ "push" \notin d /\ "frame" \notin d /\ "save" \notin d
    /\ "epilogue" \in d => "allocate" \in d
    /\ "return" \in d => "epilogue" \in d

\* Only a function whose link register stays where it is has the frameless mode.
FramelessRegisters(s, m, d) ==
    /\ m.sp = IF "allocate" \in d /\ Standing(d) THEN 8 ELSE 10
    /\ m.fp = 16 /\ m.x19 = 200 /\ m.x20 = 210
    /\ s.compact = "frameless" => "move" \notin d /\ m.lr = 100

\* The machine, in a function of shape s with the instructions d executed.
At(s, m, mem, d) ==
    /\ m \in [CfiReg -> Int] /\ mem \in [Words -> Int] /\ d \in SUBSET Instructions
    /\ s.body = "frame" => FrameOrder(d) /\ Stacked(mem, d) /\ FrameRegisters(m, d)
    /\ s.body = "frameless" => FramelessOrder(d) /\ FramelessRegisters(s, m, d)

\* The prologue has run.
Built(s, d) == IF s.body = "frame" THEN "save" \in d ELSE "allocate" \in d

Snapshot == [machine : [CfiReg -> Int], memory : [Words -> Int], done : SUBSET Instructions]

\* snapshots[k] is the last one before the epilogue, and in the body.
BeforeEpilogue(k) ==
    /\ "epilogue" \notin snapshots[k].done /\ Built(shape, snapshots[k].done)
    /\ \A j \in DOMAIN snapshots : j > k => "epilogue" \in snapshots[j].done

FirstInv ==
    IF snapshots = <<>> THEN machine = Caller /\ done = {}
    ELSE snapshots[1].machine = Caller /\ snapshots[1].done = {}

FrameInv ==
    /\ shape \in TypedShape
    /\ snapshots \in Seq(Snapshot) /\ Len(snapshots) <= MaxLocation
    /\ At(shape, machine, memory, done)
    /\ \A k \in DOMAIN snapshots : At(shape, snapshots[k].machine, snapshots[k].memory, snapshots[k].done)
    /\ FirstInv
    /\ "epilogue" \in done /\ "return" \notin done => \E k \in DOMAIN snapshots : BeforeEpilogue(k)

-----------------------------------------------------------------------------
(* What one instruction does to the machine. *)

\* stp fp, lr: the frame record of the caller is on the stack.
LEMMA PushAt ==
    ASSUME NEW s, NEW m, NEW mem, NEW d, At(s, m, mem, d), s.body = "frame", d \subseteq {"clobber"}
    PROVE  At(s, [m EXCEPT !.sp = @ - 2], [mem EXCEPT ![m.sp - 2] = m.fp, ![m.sp - 1] = m.lr], d \cup {"push"})
<1> DEFINE m2 == [m EXCEPT !.sp = @ - 2]
           mem2 == [mem EXCEPT ![m.sp - 2] = m.fp, ![m.sp - 1] = m.lr]
           d2 == d \cup {"push"}
<1>1. m \in [CfiReg -> Int] /\ mem \in [Words -> Int] /\ d \in SUBSET Instructions /\ FrameRegisters(m, d)
    BY DEF At
<1>2. m.sp = 10 /\ m.fp = 16 /\ m.lr = 100 /\ m.x19 = 200 /\ m.x20 = 210
    BY <1>1 DEF FrameRegisters
<1>3. m2 \in [CfiReg -> Int] /\ m2.sp = 8 /\ m2.fp = 16 /\ m2.lr = 100 /\ m2.x19 = 200 /\ m2.x20 = 210
    BY <1>1, <1>2 DEF CfiReg
<1>4. mem2 \in [Words -> Int] /\ mem2[8] = 16 /\ mem2[9] = 100
    BY <1>1, <1>2 DEF Words
<1>5. d2 \in SUBSET Instructions /\ d2 \subseteq {"clobber", "push"} /\ "push" \in d2
    BY <1>1 DEF Instructions
<1> HIDE DEF m2, mem2, d2
<1>6. FrameOrder(d2)
    BY <1>5 DEF FrameOrder
<1>7. Stacked(mem2, d2)
    BY <1>4, <1>5 DEF Stacked
<1>8. FrameRegisters(m2, d2)
    BY <1>3, <1>5 DEF FrameRegisters, Standing
<1>9. At(s, m2, mem2, d2)
    BY <1>3, <1>4, <1>5, <1>6, <1>7, <1>8 DEF At
<1> QED
    BY <1>9 DEF m2, mem2, d2

\* mov fp, sp: only behind the push, with the frame standing.
LEMMA SetFrameAt ==
    ASSUME NEW s, NEW m, NEW mem, NEW d, At(s, m, mem, d), s.body = "frame", "push" \in d, "frame" \notin d
    PROVE  At(s, [m EXCEPT !.fp = m.sp], mem, d \cup {"frame"})
<1> DEFINE m2 == [m EXCEPT !.fp = m.sp]
           d2 == d \cup {"frame"}
<1>1. /\ m \in [CfiReg -> Int] /\ mem \in [Words -> Int] /\ d \in SUBSET Instructions
      /\ FrameOrder(d) /\ Stacked(mem, d) /\ FrameRegisters(m, d)
    BY DEF At
<1>2. "save" \notin d /\ "epilogue" \notin d /\ "return" \notin d /\ "allocate" \notin d /\ "move" \notin d
    BY <1>1 DEF FrameOrder
<1>3. m.sp = 8 /\ m.lr = 100 /\ m.x19 = 200 /\ m.x20 = 210
    BY <1>1, <1>2 DEF FrameRegisters, Standing
<1>4. m2 \in [CfiReg -> Int] /\ m2.sp = 8 /\ m2.fp = 8 /\ m2.x19 = 200 /\ m2.x20 = 210
    BY <1>1, <1>3 DEF CfiReg
<1>5. /\ d2 \in SUBSET Instructions /\ "frame" \in d2 /\ "push" \in d2 /\ "save" \notin d2
      /\ "epilogue" \notin d2 /\ "return" \notin d2 /\ "allocate" \notin d2 /\ "move" \notin d2
    BY <1>1, <1>2 DEF Instructions
<1> HIDE DEF m2, d2
<1>6. FrameOrder(d2) /\ Stacked(mem, d2)
    BY <1>1, <1>5 DEF FrameOrder, Stacked
<1>7. FrameRegisters(m2, d2)
    BY <1>4, <1>5 DEF FrameRegisters, Standing
<1>8. At(s, m2, mem, d2)
    BY <1>1, <1>4, <1>5, <1>6, <1>7 DEF At
<1> QED
    BY <1>8 DEF m2, d2

\* stp x20, x19: the saved pair is on the stack, below the frame record.
LEMMA SavePairAt ==
    ASSUME NEW s, NEW m, NEW mem, NEW d, At(s, m, mem, d), s.body = "frame", "frame" \in d, "save" \notin d
    PROVE  At(s, [m EXCEPT !.sp = @ - 2], [mem EXCEPT ![m.sp - 2] = m.x20, ![m.sp - 1] = m.x19], d \cup {"save"})
<1> DEFINE m2 == [m EXCEPT !.sp = @ - 2]
           mem2 == [mem EXCEPT ![m.sp - 2] = m.x20, ![m.sp - 1] = m.x19]
           d2 == d \cup {"save"}
<1>1. /\ m \in [CfiReg -> Int] /\ mem \in [Words -> Int] /\ d \in SUBSET Instructions
      /\ FrameOrder(d) /\ Stacked(mem, d) /\ FrameRegisters(m, d)
    BY DEF At
<1>2. /\ "push" \in d /\ "epilogue" \notin d /\ "return" \notin d /\ "allocate" \notin d /\ "move" \notin d
    BY <1>1 DEF FrameOrder
<1>3. m.sp = 8 /\ m.fp = 8 /\ m.x19 = 200 /\ m.x20 = 210
    BY <1>1, <1>2 DEF FrameRegisters, Standing
<1>4. m2 \in [CfiReg -> Int] /\ m2.sp = 6 /\ m2.fp = 8
    BY <1>1, <1>3 DEF CfiReg
<1>5. mem[8] = 16 /\ mem[9] = 100
    BY <1>1, <1>2 DEF Stacked
<1>6. mem2 \in [Words -> Int] /\ mem2[6] = 210 /\ mem2[7] = 200 /\ mem2[8] = 16 /\ mem2[9] = 100
    BY <1>1, <1>3, <1>5 DEF Words
<1>7. /\ d2 \in SUBSET Instructions /\ "frame" \in d2 /\ "push" \in d2 /\ "save" \in d2
      /\ "epilogue" \notin d2 /\ "return" \notin d2 /\ "allocate" \notin d2 /\ "move" \notin d2
    BY <1>1, <1>2 DEF Instructions
<1> HIDE DEF m2, mem2, d2
<1>8. FrameOrder(d2) /\ Stacked(mem2, d2)
    BY <1>6, <1>7 DEF FrameOrder, Stacked
<1>9. FrameRegisters(m2, d2)
    BY <1>4, <1>7 DEF FrameRegisters, Standing
<1>10. At(s, m2, mem2, d2)
    BY <1>4, <1>6, <1>7, <1>8, <1>9 DEF At
<1> QED
    BY <1>10 DEF m2, mem2, d2

\* sub sp, sp, #16: the stack space of a function without a frame record.
LEMMA AllocateAt ==
    ASSUME NEW s, NEW m, NEW mem, NEW d, At(s, m, mem, d), s.body = "frameless", "allocate" \notin d
    PROVE  At(s, [m EXCEPT !.sp = @ - 2], mem, d \cup {"allocate"})
<1> DEFINE m2 == [m EXCEPT !.sp = @ - 2]
           d2 == d \cup {"allocate"}
<1>1. /\ m \in [CfiReg -> Int] /\ mem \in [Words -> Int] /\ d \in SUBSET Instructions
      /\ FramelessOrder(d) /\ FramelessRegisters(s, m, d)
    BY DEF At
<1>2. "epilogue" \notin d /\ "return" \notin d
    BY <1>1 DEF FramelessOrder
<1>3. m.sp = 10
    BY <1>1 DEF FramelessRegisters
<1>4. m2 \in [CfiReg -> Int] /\ m2.sp = 8 /\ m2.fp = m.fp /\ m2.x19 = m.x19 /\ m2.x20 = m.x20 /\ m2.lr = m.lr
    BY <1>1, <1>3 DEF CfiReg
<1>5. /\ d2 \in SUBSET Instructions /\ "allocate" \in d2 /\ "epilogue" \notin d2 /\ "return" \notin d2
      /\ FramelessOrder(d2) /\ ("move" \in d2 <=> "move" \in d)
    BY <1>1, <1>2 DEF Instructions, FramelessOrder
<1> HIDE DEF m2, d2
<1>6. FramelessRegisters(s, m2, d2)
    BY <1>1, <1>4, <1>5 DEF FramelessRegisters, Standing
<1>7. At(s, m2, mem, d2)
    BY <1>1, <1>4, <1>5, <1>6 DEF At
<1> QED
    BY <1>7 DEF m2, d2

\* mov x9, lr: not in a function that has the frameless mode.
LEMMA MoveLinkAt ==
    ASSUME NEW s, NEW m, NEW mem, NEW d, At(s, m, mem, d), s.body = "frameless", s.compact # "frameless"
    PROVE  At(s, [m EXCEPT !.x9 = m.lr], mem, d \cup {"move"})
<1> DEFINE m2 == [m EXCEPT !.x9 = m.lr]
           d2 == d \cup {"move"}
<1>1. /\ m \in [CfiReg -> Int] /\ mem \in [Words -> Int] /\ d \in SUBSET Instructions
      /\ FramelessOrder(d) /\ FramelessRegisters(s, m, d)
    BY DEF At
<1>2. m2 \in [CfiReg -> Int] /\ m2.sp = m.sp /\ m2.fp = m.fp /\ m2.x19 = m.x19 /\ m2.x20 = m.x20
    BY <1>1 DEF CfiReg
<1>3. /\ d2 \in SUBSET Instructions /\ FramelessOrder(d2) /\ ("allocate" \in d2 <=> "allocate" \in d)
      /\ (Standing(d2) <=> Standing(d))
    BY <1>1 DEF Instructions, FramelessOrder, Standing
<1> HIDE DEF m2, d2
<1>4. FramelessRegisters(s, m2, d2)
    BY <1>1, <1>2, <1>3 DEF FramelessRegisters
<1>5. At(s, m2, mem, d2)
    BY <1>1, <1>2, <1>3, <1>4 DEF At
<1> QED
    BY <1>5 DEF m2, d2

\* The body overwrites a saved register, the saved link register, or one that
\* nobody needs; no more once the frame is taken down.
LEMMA ClobberAt ==
    ASSUME NEW s \in TypedShape, NEW m, NEW mem, NEW d, At(s, m, mem, d), NEW r,
           \/ r \in {"x19", "x20"} /\ "save" \in d
           \/ r = "lr" /\ ("frame" \in d \/ "move" \in d)
           \/ r = "x9" /\ "move" \notin d,
           "epilogue" \notin d
    PROVE  At(s, [m EXCEPT ![r] = Junk], mem, d \cup {"clobber"})
<1> DEFINE m2 == [m EXCEPT ![r] = Junk]
           d2 == d \cup {"clobber"}
<1>1. m \in [CfiReg -> Int] /\ mem \in [Words -> Int] /\ d \in SUBSET Instructions
    BY DEF At
<1>2. r \in CfiReg /\ r # "sp" /\ r # "fp"
    BY DEF CfiReg
<1>3. /\ m2 \in [CfiReg -> Int] /\ m2.sp = m.sp /\ m2.fp = m.fp
      /\ \A q \in CfiReg : q # r => m2[q] = m[q]
    BY <1>1, <1>2 DEF CfiReg, Junk
<1>4. d2 \in SUBSET Instructions /\ \A i : i # "clobber" => (i \in d2 <=> i \in d)
    BY <1>1 DEF Instructions
<1> HIDE DEF m2, d2
<1>5. Standing(d2) <=> Standing(d)
    BY <1>4 DEF Standing
<1>6. ASSUME s.body = "frame"
      PROVE  FrameOrder(d2) /\ Stacked(mem, d2) /\ FrameRegisters(m2, d2)
    <2>1. FrameOrder(d) /\ Stacked(mem, d) /\ FrameRegisters(m, d)
        BY <1>6 DEF At
    <2>2. FrameOrder(d2) /\ Stacked(mem, d2)
        BY <2>1, <1>4 DEF FrameOrder, Stacked
    <2>3. "move" \notin d /\ Standing(d)
        BY <2>1 DEF FrameOrder, Standing
    <2>4. "frame" \notin d => m2.lr = m.lr
        <3>1. "frame" \notin d => r # "lr"
            BY <2>3
        <3> QED
            BY <3>1, <1>3 DEF CfiReg
    <2>5. "save" \notin d => m2.x19 = m.x19 /\ m2.x20 = m.x20
        <3>1. "save" \notin d => r # "x19" /\ r # "x20"
            OBVIOUS
        <3> QED
            BY <3>1, <1>3 DEF CfiReg
    <2>5a. ("push" \in d2 <=> "push" \in d) /\ ("frame" \in d2 <=> "frame" \in d) /\ ("save" \in d2 <=> "save" \in d)
        BY <1>4
    <2>6. CASE "push" \in d
        <3>1. /\ m.sp = IF "save" \in d THEN 6 ELSE 8
              /\ m.fp = IF "frame" \in d THEN 8 ELSE 16
              /\ "frame" \notin d => m.lr = 100
              /\ "save" \notin d => m.x19 = 200 /\ m.x20 = 210
            BY <2>1, <2>3, <2>6 DEF FrameRegisters
        <3>2. /\ m2.sp = IF "save" \in d2 THEN 6 ELSE 8
              /\ m2.fp = IF "frame" \in d2 THEN 8 ELSE 16
              /\ "frame" \notin d2 => m2.lr = 100
              /\ "save" \notin d2 => m2.x19 = 200 /\ m2.x20 = 210
            BY <3>1, <2>4, <2>5, <2>5a, <1>3
        <3> QED
            BY <3>2, <2>2, <2>3, <2>6, <2>5a, <1>5 DEF FrameRegisters
    <2>7. CASE "push" \notin d
        <3>1. "frame" \notin d /\ "save" \notin d
            BY <2>7, <2>1 DEF FrameOrder
        <3> QED
            BY <3>1, <2>7, <2>2, <2>5a, <2>1, <2>4, <2>5, <1>3 DEF FrameRegisters
    <2> QED
        BY <2>2, <2>6, <2>7
<1>7. ASSUME s.body = "frameless"
      PROVE  FramelessOrder(d2) /\ FramelessRegisters(s, m2, d2)
    <2>1. FramelessOrder(d) /\ FramelessRegisters(s, m, d)
        BY <1>7 DEF At
    <2>2. FramelessOrder(d2) /\ "frame" \notin d /\ "save" \notin d
        BY <2>1, <1>4 DEF FramelessOrder
    <2>3. m2.x19 = m.x19 /\ m2.x20 = m.x20
        <3>1. r # "x19" /\ r # "x20"
            BY <2>2
        <3> QED
            BY <3>1, <1>3 DEF CfiReg
    <2>4. "move" \notin d => m2.lr = m.lr
        <3>1. "move" \notin d => r # "lr"
            BY <2>2
        <3> QED
            BY <3>1, <1>3 DEF CfiReg
    <2>5. FramelessRegisters(s, m2, d2)
        BY <2>1, <2>3, <2>4, <1>3, <1>4, <1>5 DEF FramelessRegisters
    <2> QED
        BY <2>2, <2>5
<1>8. At(s, m2, mem, d2)
    BY <1>1, <1>3, <1>4, <1>6, <1>7 DEF At
<1> QED
    BY <1>8 DEF m2, d2

\* The epilogue gives the caller its registers back.
LEMMA EpilogueAt ==
    ASSUME NEW s \in TypedShape, NEW m, NEW mem, NEW d, At(s, m, mem, d),
           "save" \in d \/ "allocate" \in d, "epilogue" \notin d
    PROVE  /\ Built(s, d)
           /\ At(s, IF s.body = "frameless" THEN [m EXCEPT !.sp = @ + 2]
                    ELSE [m EXCEPT !.sp = m.fp + 2, !.x19 = mem[m.fp - 1], !.x20 = mem[m.fp - 2],
                                   !.lr = mem[m.fp + 1], !.fp = mem[m.fp]],
                 mem, d \cup {"epilogue"})
<1> DEFINE d2 == d \cup {"epilogue"}
<1>1. m \in [CfiReg -> Int] /\ mem \in [Words -> Int] /\ d \in SUBSET Instructions
    BY DEF At
<1>2. d2 \in SUBSET Instructions /\ "epilogue" \in d2 /\ \A i : i # "epilogue" => (i \in d2 <=> i \in d)
    BY <1>1 DEF Instructions
<1> HIDE DEF d2
<1>3. CASE s.body = "frameless"
    <2> DEFINE m2 == [m EXCEPT !.sp = @ + 2]
    <2>1. FramelessOrder(d) /\ FramelessRegisters(s, m, d)
        BY <1>3 DEF At
    <2>2. "allocate" \in d /\ "return" \notin d /\ Standing(d)
        BY <2>1 DEF FramelessOrder, Standing
    <2>3. m.sp = 8
        BY <2>1, <2>2 DEF FramelessRegisters
    <2>4. m2 \in [CfiReg -> Int] /\ m2.sp = 10 /\ m2.fp = m.fp /\ m2.x19 = m.x19 /\ m2.x20 = m.x20 /\ m2.lr = m.lr
        BY <2>3, <1>1 DEF CfiReg
    <2> HIDE DEF m2
    <2>5. FramelessOrder(d2) /\ ~Standing(d2)
        BY <2>1, <2>2, <1>2 DEF FramelessOrder, Standing
    <2>6. FramelessRegisters(s, m2, d2)
        BY <2>1, <2>4, <2>5, <1>2 DEF FramelessRegisters
    <2>7. At(s, m2, mem, d2)
        BY <2>4, <2>5, <2>6, <1>1, <1>2, <1>3 DEF At
    <2>8. Built(s, d)
        BY <2>2, <1>3 DEF Built
    <2> QED
        BY <2>7, <2>8, <1>3 DEF m2, d2
<1>4. CASE s.body = "frame"
    <2> DEFINE m2 == [m EXCEPT !.sp = m.fp + 2, !.x19 = mem[m.fp - 1], !.x20 = mem[m.fp - 2],
                               !.lr = mem[m.fp + 1], !.fp = mem[m.fp]]
    <2>1. FrameOrder(d) /\ Stacked(mem, d) /\ FrameRegisters(m, d)
        BY <1>4 DEF At
    <2>2. "save" \in d /\ "frame" \in d /\ "push" \in d /\ "return" \notin d /\ Standing(d)
        BY <2>1 DEF FrameOrder, Standing
    <2>3. m.sp = 6 /\ m.fp = 8
        BY <2>1, <2>2 DEF FrameRegisters
    <2>4. mem[6] = 210 /\ mem[7] = 200 /\ mem[8] = 16 /\ mem[9] = 100
        BY <2>1, <2>2 DEF Stacked
    <2>5. mem[m.fp - 1] = 200 /\ mem[m.fp - 2] = 210 /\ mem[m.fp + 1] = 100 /\ mem[m.fp] = 16 /\ m.fp + 2 = 10
        BY <2>3, <2>4
    <2>6. m2 \in [CfiReg -> Int] /\ m2.sp = 10 /\ m2.fp = 16 /\ m2.lr = 100 /\ m2.x19 = 200 /\ m2.x20 = 210
        <3>1. m2 = [m EXCEPT !.sp = 10, !.x19 = 200, !.x20 = 210, !.lr = 100, !.fp = 16]
            BY <2>5
        <3> DEFINE a == [m EXCEPT !.sp = 10]
                   b == [a EXCEPT !.x19 = 200]
                   c == [b EXCEPT !.x20 = 210]
                   e == [c EXCEPT !.lr = 100]
        <3>2. a \in [CfiReg -> Int] /\ a.sp = 10
            BY <1>1 DEF CfiReg
        <3>3. m2 = [e EXCEPT !.fp = 16]
            BY <3>1, Zenon
        <3> HIDE DEF a
        <3>4. b \in [CfiReg -> Int] /\ b.sp = 10 /\ b.x19 = 200
            BY <3>2 DEF CfiReg
        <3> HIDE DEF b
        <3>5. c \in [CfiReg -> Int] /\ c.sp = 10 /\ c.x19 = 200 /\ c.x20 = 210
            BY <3>4 DEF CfiReg
        <3> HIDE DEF c
        <3>6. e \in [CfiReg -> Int] /\ e.sp = 10 /\ e.x19 = 200 /\ e.x20 = 210 /\ e.lr = 100
            BY <3>5 DEF CfiReg
        <3> HIDE DEF e, m2
        <3> QED
            BY <3>3, <3>6 DEF CfiReg
    <2> HIDE DEF m2
    <2>7. FrameOrder(d2) /\ Stacked(mem, d2) /\ ~Standing(d2)
        BY <2>1, <2>2, <1>2 DEF FrameOrder, Stacked, Standing
    <2>8. FrameRegisters(m2, d2)
        BY <2>6, <2>7 DEF FrameRegisters
    <2>9. At(s, m2, mem, d2)
        BY <2>6, <2>7, <2>8, <1>1, <1>2, <1>4 DEF At
    <2>10. Built(s, d)
        BY <2>2, <1>4 DEF Built
    <2> QED
        BY <2>9, <2>10, <1>4 DEF m2, d2
<1> QED
    BY <1>3, <1>4 DEF TypedShape

\* Behind the return the machine is the one before the epilogue.
LEMMA AfterReturnAt ==
    ASSUME NEW s \in TypedShape, NEW m, NEW mem, NEW d, At(s, m, mem, d),
           NEW m1, NEW mem1, NEW d1, At(s, m1, mem1, d1),
           "epilogue" \in d, "epilogue" \notin d1, Built(s, d1)
    PROVE  At(s, m1, mem1, d \cup {"return"})
<1> DEFINE d2 == d \cup {"return"}
<1>1. m1 \in [CfiReg -> Int] /\ mem1 \in [Words -> Int] /\ d \in SUBSET Instructions
    BY DEF At
<1>2. d2 \in SUBSET Instructions /\ "return" \in d2 /\ \A i : i # "return" => (i \in d2 <=> i \in d)
    BY <1>1 DEF Instructions
<1> HIDE DEF d2
<1>3. Standing(d2) /\ Standing(d1)
    BY <1>2 DEF Standing
<1>4. CASE s.body = "frameless"
    <2>1. FramelessOrder(d) /\ FramelessRegisters(s, m, d) /\ FramelessRegisters(s, m1, d1)
        BY <1>4 DEF At
    <2>2. "allocate" \in d /\ "allocate" \in d1
        BY <2>1, <1>4 DEF FramelessOrder, Built
    <2>3. FramelessOrder(d2)
        BY <2>1, <1>2 DEF FramelessOrder
    <2>4. FramelessRegisters(s, m1, d2)
        BY <2>1, <2>2, <1>2, <1>3 DEF FramelessRegisters
    <2> QED
        BY <2>3, <2>4, <1>1, <1>2, <1>4 DEF At, d2
<1>5. CASE s.body = "frame"
    <2>1. FrameOrder(d) /\ FrameOrder(d1) /\ Stacked(mem1, d1) /\ FrameRegisters(m1, d1)
        BY <1>5 DEF At
    <2>2. "save" \in d /\ "frame" \in d /\ "push" \in d /\ "save" \in d1 /\ "frame" \in d1 /\ "push" \in d1
        BY <2>1, <1>5 DEF FrameOrder, Built
    <2>3. FrameOrder(d2)
        BY <2>1, <1>2 DEF FrameOrder
    <2>4. Stacked(mem1, d2)
        BY <2>1, <2>2 DEF Stacked
    <2>5. FrameRegisters(m1, d2)
        BY <2>1, <2>2, <1>2, <1>3 DEF FrameRegisters
    <2> QED
        BY <2>3, <2>4, <2>5, <1>1, <1>2, <1>5 DEF At, d2
<1> QED
    BY <1>4, <1>5 DEF TypedShape

-----------------------------------------------------------------------------
(* The invariant is inductive. *)

LEMMA FrameStarts == CallFrameInit => FrameInv
<1> SUFFICES ASSUME CallFrameInit PROVE FrameInv
    OBVIOUS
<1>1. /\ shape \in TypedShape /\ machine = Caller /\ memory = [w \in Words |-> Junk]
      /\ done = {} /\ snapshots = <<>>
    BY CallFrameAssumption DEF CallFrameInit
<1>2. /\ machine \in [CfiReg -> Int] /\ machine.sp = 10 /\ machine.fp = 16 /\ machine.lr = 100
      /\ machine.x19 = 200 /\ machine.x20 = 210
    BY <1>1 DEF Caller, CfiReg
<1>3. memory \in [Words -> Int]
    BY <1>1 DEF Junk
<1>4. FrameOrder(done) /\ Stacked(memory, done) /\ FrameRegisters(machine, done)
    BY <1>1, <1>2 DEF FrameOrder, Stacked, FrameRegisters
<1>5. FramelessOrder(done) /\ FramelessRegisters(shape, machine, done)
    BY <1>1, <1>2 DEF FramelessOrder, FramelessRegisters
<1>6. At(shape, machine, memory, done)
    BY <1>1, <1>2, <1>3, <1>4, <1>5 DEF At
<1>7. snapshots \in Seq(Snapshot) /\ Len(snapshots) <= MaxLocation /\ DOMAIN snapshots = {}
    BY <1>1, CallFrameAssumption
<1> QED
    BY <1>1, <1>6, <1>7 DEF FrameInv, FirstInv

\* One instruction: the machine before it is one snapshot more.
LEMMA StepKeeps ==
    ASSUME FrameInv, Len(snapshots) < MaxLocation,
           NEW i, NEW m, NEW mem, NEW ops, Step(i, m, mem, ops),
           At(shape, m, mem, done \cup {i}),
           i = "epilogue" => Built(shape, done)
    PROVE  FrameInv'
<1> DEFINE n == Len(snapshots)
           now == [machine |-> machine, memory |-> memory, done |-> done]
<1>1. /\ shape \in TypedShape /\ snapshots \in Seq(Snapshot)
      /\ At(shape, machine, memory, done) /\ FirstInv
      /\ \A k \in DOMAIN snapshots : At(shape, snapshots[k].machine, snapshots[k].memory, snapshots[k].done)
    BY DEF FrameInv
<1>2. /\ machine' = m /\ memory' = mem /\ done' = done \cup {i} /\ shape' = shape
      /\ snapshots' = Append(snapshots, now)
    BY DEF Step
<1>3. now \in Snapshot
    BY <1>1 DEF At, Snapshot
<1>4. /\ snapshots' \in Seq(Snapshot) /\ Len(snapshots') = n + 1 /\ n \in Nat
      /\ DOMAIN snapshots = 1 .. n /\ DOMAIN snapshots' = 1 .. n + 1
      /\ snapshots'[n + 1] = now /\ \A k \in 1 .. n : snapshots'[k] = snapshots[k]
    BY <1>1, <1>2, <1>3
<1>5. now.machine = machine /\ now.memory = memory /\ now.done = done
    OBVIOUS
<1> HIDE DEF n, now
<1>6. At(shape, machine, memory, done)'
    BY <1>2
<1>7. ASSUME NEW k \in DOMAIN snapshots'
      PROVE  At(shape', snapshots'[k].machine, snapshots'[k].memory, snapshots'[k].done)
    <2>1. CASE k = n + 1
        BY <2>1, <1>1, <1>2, <1>4, <1>5
    <2>2. CASE k # n + 1
        <3>1. k \in 1 .. n
            BY <2>2, <1>4, <1>7
        <3> QED
            BY <3>1, <1>1, <1>2, <1>4
    <2> QED
        BY <2>1, <2>2
<1>8. FirstInv'
    <2>1. snapshots' # <<>>
        BY <1>4
    <2>2. CASE n = 0
        <3>1. snapshots = <<>> /\ snapshots'[1] = now
            BY <2>2, <1>1, <1>4 DEF n
        <3> QED
            BY <3>1, <2>1, <1>1, <1>5 DEF FirstInv
    <2>3. CASE n # 0
        <3>1. snapshots # <<>> /\ 1 \in 1 .. n
            BY <2>3, <1>4 DEF n
        <3> QED
            BY <3>1, <2>1, <1>1, <1>4 DEF FirstInv
    <2> QED
        BY <2>2, <2>3
<1>9. ASSUME "epilogue" \in done', "return" \notin done'
      PROVE  \E k \in DOMAIN snapshots' : BeforeEpilogue(k)'
    <2>1. CASE "epilogue" \in done
        <3>1. PICK k \in DOMAIN snapshots : BeforeEpilogue(k)
            BY <2>1, <1>2, <1>9 DEF FrameInv
        <3>2. k \in DOMAIN snapshots' /\ snapshots'[k] = snapshots[k]
            BY <1>4
        <3>3. ASSUME NEW j \in DOMAIN snapshots', j > k
              PROVE  "epilogue" \in snapshots'[j].done
            <4>1. CASE j = n + 1
                BY <4>1, <2>1, <1>4, <1>5
            <4>2. CASE j # n + 1
                <5>1. j \in 1 .. n
                    BY <4>2, <3>3, <1>4
                <5> QED
                    BY <5>1, <3>1, <3>3, <1>4 DEF BeforeEpilogue
            <4> QED
                BY <4>1, <4>2
        <3>4. BeforeEpilogue(k)'
            BY <3>1, <3>2, <3>3, <1>2 DEF BeforeEpilogue
        <3> QED
            BY <3>2, <3>4
    <2>2. CASE "epilogue" \notin done
        <3>1. i = "epilogue"
            BY <2>2, <1>2, <1>9
        <3>2. n + 1 \in DOMAIN snapshots' /\ \A j \in DOMAIN snapshots' : ~(j > n + 1)
            BY <1>4
        <3>3. snapshots'[n + 1].done = done
            BY <1>4, <1>5
        <3>4. PICK k : k = n + 1
            OBVIOUS
        <3>5. BeforeEpilogue(k)'
            BY <3>1, <3>2, <3>3, <3>4, <2>2, <1>2 DEF BeforeEpilogue
        <3> QED
            BY <3>2, <3>4, <3>5
    <2> QED
        BY <2>1, <2>2
<1>10. Len(snapshots') <= MaxLocation
    BY <1>4, CallFrameAssumption DEF n
<1> QED
    BY <1>1, <1>2, <1>4, <1>6, <1>7, <1>8, <1>9, <1>10 DEF FrameInv

LEMMA FrameKeeps == FrameInv /\ CallFrameNext => FrameInv'
<1> SUFFICES ASSUME FrameInv, CallFrameNext PROVE FrameInv'
    OBVIOUS
<1>1. shape \in TypedShape /\ At(shape, machine, memory, done) /\ Len(snapshots) < MaxLocation
    BY DEF FrameInv, CallFrameNext, Location
<1>2. shape.body = "frame" \/ shape.body = "frameless"
    BY <1>1 DEF TypedShape
<1>3. "push" \in done \/ "frame" \in done => shape.body = "frame"
    BY <1>1, <1>2 DEF At, FramelessOrder
<1>4. CASE PushFrame
    <2>1. At(shape, [machine EXCEPT !.sp = @ - 2],
             [memory EXCEPT ![machine.sp - 2] = machine.fp, ![machine.sp - 1] = machine.lr], done \cup {"push"})
        BY <1>1, <1>4, PushAt DEF PushFrame
    <2> QED
        BY <2>1, <1>1, <1>4, StepKeeps DEF PushFrame
<1>5. CASE SetFrame
    <2>1. At(shape, [machine EXCEPT !.fp = machine.sp], memory, done \cup {"frame"})
        BY <1>1, <1>3, <1>5, SetFrameAt DEF SetFrame, Did
    <2> QED
        BY <2>1, <1>1, <1>5, StepKeeps DEF SetFrame
<1>6. CASE SavePair
    <2>1. At(shape, [machine EXCEPT !.sp = @ - 2],
             [memory EXCEPT ![machine.sp - 2] = machine.x20, ![machine.sp - 1] = machine.x19], done \cup {"save"})
        BY <1>1, <1>3, <1>6, SavePairAt DEF SavePair, Did
    <2> QED
        BY <2>1, <1>1, <1>6, StepKeeps DEF SavePair
<1>7. CASE Allocate
    <2>1. At(shape, [machine EXCEPT !.sp = @ - 2], memory, done \cup {"allocate"})
        BY <1>1, <1>7, AllocateAt DEF Allocate, Did
    <2> QED
        BY <2>1, <1>1, <1>7, StepKeeps DEF Allocate
<1>8. CASE MoveLink
    <2>1. At(shape, [machine EXCEPT !.x9 = machine.lr], memory, done \cup {"move"})
        BY <1>1, <1>8, MoveLinkAt DEF MoveLink
    <2> QED
        BY <2>1, <1>1, <1>8, StepKeeps DEF MoveLink
<1>9. CASE AfterReturn
    <2>1. "epilogue" \in done /\ "return" \notin done
        BY <1>9 DEF AfterReturn, Did
    <2>2. PICK k \in DOMAIN snapshots : BeforeEpilogue(k)
        BY <2>1 DEF FrameInv
    <2> DEFINE K == {j \in DOMAIN snapshots : "epilogue" \notin snapshots[j].done}
    <2>3. DOMAIN snapshots \subseteq Nat
        BY DEF FrameInv
    <2>4. k \in K /\ \A j \in K : k >= j
        BY <2>2, <2>3 DEF BeforeEpilogue
    <2>5. K \subseteq Nat
        BY <2>3
    <2> HIDE DEF K
    <2>6. Max(K) = k
        <3>1. Max(K) \in K /\ \A j \in K : Max(K) >= j
            BY <2>4, Zenon DEF Max
        <3> QED
            BY <3>1, <2>4, <2>5
    <2>7. At(shape, snapshots[k].machine, snapshots[k].memory, done \cup {"return"})
        <3>1. At(shape, snapshots[k].machine, snapshots[k].memory, snapshots[k].done)
            BY DEF FrameInv
        <3>2. "epilogue" \notin snapshots[k].done /\ Built(shape, snapshots[k].done)
            BY <2>2 DEF BeforeEpilogue
        <3> QED
            BY <3>1, <3>2, <2>1, <1>1, AfterReturnAt
    <2>8. Step("return", snapshots[Max(K)].machine, snapshots[Max(K)].memory, <<Cfi("restore_state", "sp", 0)>>)
        BY <1>9 DEF AfterReturn, K
    <2>9. Step("return", snapshots[k].machine, snapshots[k].memory, <<Cfi("restore_state", "sp", 0)>>)
        BY <2>6, <2>8
    <2> QED
        BY <2>7, <2>9, <1>1, StepKeeps
<1>10. ASSUME NEW r \in {"x19", "x20", "lr", "x9"}, Clobber(r)
       PROVE  FrameInv'
    <2>1. /\ \/ r \in {"x19", "x20"} /\ "save" \in done
             \/ r = "lr" /\ ("frame" \in done \/ "move" \in done)
             \/ r = "x9" /\ "move" \notin done
          /\ "epilogue" \notin done
        BY <1>10 DEF Clobber, Did
    <2>2. At(shape, [machine EXCEPT ![r] = Junk], memory, done \cup {"clobber"})
        BY <2>1, <1>1, ClobberAt
    <2>3. Step("clobber", [machine EXCEPT ![r] = Junk], memory, <<>>)
        BY <1>10 DEF Clobber
    <2> QED
        BY <2>2, <2>3, <1>1, StepKeeps
<1>11. ASSUME NEW restores \in BOOLEAN, Epilogue(restores)
       PROVE  FrameInv'
    <2> DEFINE back == IF shape.body = "frameless" THEN [machine EXCEPT !.sp = @ + 2]
                       ELSE [machine EXCEPT !.sp = machine.fp + 2, !.x19 = memory[machine.fp - 1],
                                            !.x20 = memory[machine.fp - 2], !.lr = memory[machine.fp + 1],
                                            !.fp = memory[machine.fp]]
    <2>1. ("save" \in done \/ "allocate" \in done) /\ "epilogue" \notin done
        BY <1>11 DEF Epilogue, Did
    <2>2. Built(shape, done) /\ At(shape, back, memory, done \cup {"epilogue"})
        BY <2>1, <1>1, EpilogueAt
    <2>3. PICK ops : Step("epilogue", back, memory, ops)
        BY <1>11, Zenon DEF Epilogue
    <2> QED
        BY <2>2, <2>3, <1>1, StepKeeps
<1> QED
    BY <1>4, <1>5, <1>6, <1>7, <1>8, <1>9, <1>10, <1>11 DEF CallFrameNext

-----------------------------------------------------------------------------
(* Unwinding. *)

\* The entry that unwind_compact finds: the function, in the mode it has.
LEMMA EntryFound ==
    ASSUME Listed, shape \in TypedShape, NEW l \in 0 .. MaxLocation
    PROVE  /\ shape.compact = "absent" => compact_entry(FuncStart + l).mode = "dwarf"
           /\ shape.compact # "absent" => /\ compact_entry(FuncStart + l).start = FuncStart
                                          /\ compact_entry(FuncStart + l).mode = shape.compact
<1> DEFINE before == entries_before(FuncStart + l)
           e == Last(before)
<1>1. before # <<>> /\ e \in [start : {FuncStart}, mode : CompactModes]
    BY DEF Listed
<1> HIDE DEF before
<1>2. CASE shape.compact = "absent"
    <2>1. compact_entry(FuncStart + l) = [start |-> FuncStart + l, mode |-> "dwarf"]
        BY <1>2, Zenon DEF compact_entry
    <2> QED
        BY <2>1, <1>2
<1>3. CASE shape.compact # "absent"
    <2>1. compact_entry(FuncStart + l) =
            IF e.start = FuncStart THEN [e EXCEPT !.mode = shape.compact] ELSE e
        BY <1>1, <1>3 DEF compact_entry, before
    <2> HIDE DEF e
    <2>2. e.start = FuncStart
        BY <1>1
    <2>3. /\ compact_entry(FuncStart + l) = [e EXCEPT !.mode = shape.compact]
        BY <2>1, <2>2
    <2>4. [e EXCEPT !.mode = shape.compact].start = FuncStart /\ [e EXCEPT !.mode = shape.compact].mode = shape.compact
        BY <1>1
    <2> QED
        BY <2>3, <2>4, <1>3
<1> QED
    BY <1>2, <1>3

\* The caller by the frame record at fp.
LEMMA ChainSees ==
    ASSUME NEW m, NEW mem, m \in [CfiReg -> Int], mem \in [Words -> Int], m.fp = 8, mem[8] = 16, mem[9] = 100
    PROVE  Aligned(m.fp) /\ SeesCaller(FpChain(m, mem)) /\ DOMAIN FpChain(m, mem) = CfiReg \cup {"pc"}
<1> DEFINE back == [m EXCEPT !.sp = m.fp + 2, !.fp = Load(mem, m.fp)]
<1>1. Aligned(m.fp)
    BY DEF Aligned
<1>2. Load(mem, m.fp) = 16 /\ Load(mem, m.fp + 1) = 100
    BY DEF Load, Words
<1>3. FpChain(m, mem) = With(back, Load(mem, m.fp + 1))
    BY <1>1 DEF FpChain
<1>4. back.sp = 10 /\ back.fp = 16
    BY <1>2 DEF CfiReg
<1> HIDE DEF back
<1>5. FpChain(m, mem) = [r \in CfiReg \cup {"pc"} |-> IF r = "pc" THEN 100 ELSE back[r]]
    BY <1>2, <1>3 DEF With
<1> QED
    BY <1>1, <1>4, <1>5 DEF SeesCaller, Caller, CfiReg

\* At the first instruction the caller is in the registers.
LEMMA EntrySees ==
    ASSUME NEW m, m = Caller
    PROVE  SeesCaller(With(m, m.lr)) /\ SeesPair(With(m, m.lr), FALSE)
BY DEF SeesCaller, SeesPair, With, Caller, CfiReg

\* The frame mode in the body: the frame record and the saved pair below it.
LEMMA FrameModeSees ==
    ASSUME NEW pc, NEW e, pc # e.start, e.mode = "frame",
           NEW m, NEW mem, m \in [CfiReg -> Int], mem \in [Words -> Int], m.fp = 8,
           mem[8] = 16, mem[9] = 100, mem[6] = 210, mem[7] = 200,
           NEW u, u = unwind_compact(pc, e, m, mem)
    PROVE  SeesCaller(u) /\ SeesPair(u, TRUE)
<1> DEFINE f == FpChain(m, mem)
<1>1. Aligned(m.fp) /\ SeesCaller(f) /\ DOMAIN f = CfiReg \cup {"pc"}
    BY ChainSees
<1>2. Load(mem, m.fp - 2) = 210 /\ Load(mem, m.fp - 1) = 200
    BY DEF Load, Words
<1>3. u = [f EXCEPT !.x19 = Load(mem, m.fp - 2), !.x20 = Load(mem, m.fp - 1)]
    BY <1>1, Zenon DEF unwind_compact
<1>4. u = [f EXCEPT !.x19 = 210, !.x20 = 200]
    BY <1>2, <1>3
<1> HIDE DEF f
<1>5. u.x19 = 210 /\ u.x20 = 200 /\ u.sp = f.sp /\ u.fp = f.fp /\ u.pc = f.pc
    BY <1>1, <1>4 DEF CfiReg
<1>6. SeesCaller(u)
    BY <1>1, <1>5 DEF SeesCaller
<1>7. SeesPair(u, TRUE)
    BY <1>5 DEF Caller, SeesPair
<1> QED
    BY <1>6, <1>7

\* The frameless mode in the body: the stack space is given back.
LEMMA FramelessModeSees ==
    ASSUME NEW pc, NEW e, pc # e.start, e.mode = "frameless",
           NEW m, NEW mem, m \in [CfiReg -> Int], m.sp = 8, m.fp = 16, m.lr = 100, m.x19 = 200, m.x20 = 210,
           NEW u, u = unwind_compact(pc, e, m, mem)
    PROVE  SeesCaller(u) /\ SeesPair(u, FALSE)
<1> DEFINE back == [m EXCEPT !.sp = @ + 2]
<1>1. u = With(back, m.lr)
    BY Zenon DEF unwind_compact
<1>2. back.sp = 10 /\ back.fp = 16 /\ back.x19 = 200 /\ back.x20 = 210
    BY DEF CfiReg
<1> HIDE DEF back
<1>3. u.sp = 10 /\ u.fp = 16 /\ u.x19 = 200 /\ u.x20 = 210 /\ u.pc = 100
    BY <1>1, <1>2 DEF With, CfiReg
<1> QED
    BY <1>3 DEF SeesCaller, Caller, SeesPair

LEMMA FrameInvUnwinds == ASSUME Listed, FrameInv PROVE CompactUnwinds
<1> SUFFICES ASSUME NEW l \in 0 .. Len(snapshots) - 1
             PROVE  LET u == UnwindAt(l)
                    IN  /\ shape.compact = shape.body /\ (l = 0 \/ InBody(l))
                            => SeesCaller(u) /\ SeesPair(u, shape.body = "frame" /\ l # 0)
                        /\ (shape.compact \in {"absent", "none", "dwarf"} /\ FdeOf(l) = 0
                             /\ shape.body = "frame" /\ InBody(l))
                            => SeesCaller(u)
    BY DEF CompactUnwinds
<1> DEFINE u == UnwindAt(l)
           pc == FuncStart + l
           e == compact_entry(pc)
<1>1. shape \in TypedShape /\ snapshots \in Seq(Snapshot) /\ Len(snapshots) <= MaxLocation /\ FirstInv
    BY DEF FrameInv
<1>2. l \in Nat /\ l \in 0 .. MaxLocation /\ l + 1 \in DOMAIN snapshots /\ snapshots # <<>> /\ pc \in Nat
    BY <1>1, CallFrameAssumption
<1>3. PICK m, mem, d : m = snapshots[l + 1].machine /\ mem = snapshots[l + 1].memory /\ d = snapshots[l + 1].done
    OBVIOUS
<1>4. At(shape, m, mem, d)
    BY <1>2, <1>3 DEF FrameInv
<1>5. u = unwind_frame(pc, m, mem)
    BY <1>3 DEF UnwindAt
<1>6. InBody(l) => Standing(d) /\ Built(shape, d)
    BY <1>3, Zenon DEF InBody, Standing, Built
<1>7. l = 0 => m = Caller /\ d = {}
    BY <1>1, <1>2, <1>3 DEF FirstInv
<1>8. InBody(l) => l # 0
    BY <1>6, <1>7 DEF Built
<1>9. shape.body = "frame" /\ InBody(l) =>
        /\ m \in [CfiReg -> Int] /\ mem \in [Words -> Int] /\ m.fp = 8
        /\ mem[8] = 16 /\ mem[9] = 100 /\ mem[6] = 210 /\ mem[7] = 200
    <2> SUFFICES ASSUME shape.body = "frame", InBody(l)
                 PROVE  /\ m \in [CfiReg -> Int] /\ mem \in [Words -> Int] /\ m.fp = 8
                        /\ mem[8] = 16 /\ mem[9] = 100 /\ mem[6] = 210 /\ mem[7] = 200
        OBVIOUS
    <2>1. /\ m \in [CfiReg -> Int] /\ mem \in [Words -> Int]
          /\ FrameOrder(d) /\ Stacked(mem, d) /\ FrameRegisters(m, d)
        BY <1>4 DEF At
    <2>2. "save" \in d /\ "frame" \in d /\ "push" \in d /\ Standing(d)
        BY <2>1, <1>6 DEF Built, FrameOrder
    <2> QED
        BY <2>1, <2>2 DEF Stacked, FrameRegisters
<1>10. /\ shape.compact = "absent" => e.mode = "dwarf"
       /\ shape.compact # "absent" => e.start = FuncStart /\ e.mode = shape.compact
    BY <1>1, <1>2, EntryFound
<1>11. ASSUME shape.compact = shape.body, l = 0 \/ InBody(l)
       PROVE  SeesCaller(u) /\ SeesPair(u, shape.body = "frame" /\ l # 0)
    <2>1. /\ shape.body \in {"frame", "frameless"} /\ shape.compact # "absent"
          /\ e.start = FuncStart /\ e.mode = shape.body
        BY <1>1, <1>10, <1>11 DEF TypedShape
    <2>2. UsesCompact(pc, e)
        BY <2>1 DEF UsesCompact
    <2>3. u = unwind_compact(pc, e, m, mem)
        BY <2>2, <1>5, Zenon DEF unwind_frame
    <2> HIDE DEF e, u
    <2>4. CASE l = 0
        <3>1. pc = e.start
            BY <2>1, <2>4, CallFrameAssumption
        <3>2. u = With(m, m.lr)
            BY <3>1, <2>1, <2>3 DEF unwind_compact
        <3> QED
            BY <3>2, <2>4, <1>7, EntrySees DEF SeesPair
    <2>5. CASE l # 0
        <3>1. pc # e.start /\ InBody(l)
            BY <2>1, <2>5, <1>2, <1>11, CallFrameAssumption
        <3> HIDE DEF pc
        <3>2. CASE shape.body = "frame"
            <4>1. /\ pc # e.start /\ e.mode = "frame" /\ u = unwind_compact(pc, e, m, mem)
                  /\ m \in [CfiReg -> Int] /\ mem \in [Words -> Int] /\ m.fp = 8
                  /\ mem[8] = 16 /\ mem[9] = 100 /\ mem[6] = 210 /\ mem[7] = 200
                BY <3>1, <3>2, <2>1, <2>3, <1>9
            <4> QED
                BY <4>1, <3>2, <2>5, FrameModeSees DEF SeesPair
        <3>3. CASE shape.body = "frameless"
            <4>1. /\ m \in [CfiReg -> Int] /\ FramelessRegisters(shape, m, d) /\ "allocate" \in d /\ Standing(d)
                  /\ shape.compact = "frameless"
                BY <3>1, <3>3, <1>4, <1>6, <1>11 DEF At, Built
            <4>2. m.sp = 8 /\ m.fp = 16 /\ m.lr = 100 /\ m.x19 = 200 /\ m.x20 = 210
                BY <4>1 DEF FramelessRegisters
            <4>3. pc # e.start /\ e.mode = "frameless" /\ u = unwind_compact(pc, e, m, mem)
                BY <3>1, <3>3, <2>1, <2>3
            <4> QED
                BY <4>1, <4>2, <4>3, <3>3, FramelessModeSees DEF SeesPair
        <3> QED
            BY <3>2, <3>3, <2>1
    <2> QED
        BY <2>4, <2>5
<1>12. ASSUME shape.compact \in {"absent", "none", "dwarf"}, FdeOf(l) = 0, shape.body = "frame", InBody(l)
       PROVE  SeesCaller(u)
    <2>1. ~UsesCompact(pc, e)
        <3>1. CASE shape.compact = "absent"
            BY <3>1, <1>10 DEF UsesCompact
        <3>2. CASE shape.compact # "absent"
            <4>1. e.start = FuncStart /\ e.mode \in {"none", "dwarf"}
                BY <3>2, <1>10, <1>12
            <4>2. pc # e.start
                BY <4>1, <1>2, <1>8, <1>12, CallFrameAssumption
            <4> HIDE DEF e, pc
            <4> QED
                BY <4>1, <4>2 DEF UsesCompact
        <3> QED
            BY <3>1, <3>2
    <2>2. FindFde(pc) = 0
        BY <2>1, <1>12 DEF FdeOf
    <2>3. u = FpChain(m, mem)
        BY <2>1, <2>2, <1>5, Zenon DEF unwind_frame
    <2> QED
        BY <2>3, <1>9, <1>12, ChainSees
<1> QED
    BY <1>11, <1>12

\* In a function that __unwind_info lists with its own mode the caller's frame,
\* its pc and the saved pair are found from the first instruction and from every
\* location of the body, whatever instructions the function is made of, with the
\* registers of the pair exchanged where a frame record is behind them; without
\* an entry and without an FDE the frame chain finds the caller from the body
\* of a function with a frame record.
THEOREM CompactFindsCaller == ASSUME Listed PROVE CallFrameSpec => []CompactUnwinds
<1>1. CallFrameInit => FrameInv
    BY FrameStarts
<1>2. FrameInv /\ [CallFrameNext]_frameVars => FrameInv'
    <2> SUFFICES ASSUME FrameInv, [CallFrameNext]_frameVars PROVE FrameInv'
        OBVIOUS
    <2>1. CASE CallFrameNext
        BY <2>1, FrameKeeps
    <2>2. CASE UNCHANGED frameVars
        <3>1. UNCHANGED <<shape, machine, memory, done, snapshots>>
            BY <2>2 DEF frameVars
        <3> QED
            BY <3>1 DEF FrameInv, FirstInv, BeforeEpilogue
    <2> QED
        BY <2>1, <2>2
<1>3. FrameInv => CompactUnwinds
    BY FrameInvUnwinds
<1> QED
    BY <1>1, <1>2, <1>3, PTL DEF CallFrameSpec

-----------------------------------------------------------------------------
(* The program of the FDE. *)

Rule(kind, value) == [kind |-> kind, value |-> value]
Ctx(location, cfa, cie_rules, rules, stack, status) ==
    [location |-> location, cfa |-> cfa, cie_rules |-> cie_rules, rules |-> rules, stack |-> stack, status |-> status]

\* The instructions that describe the function.
OpNames == {"advance_loc", "def_cfa", "def_cfa_offset", "offset", "register", "remember_state", "restore", "restore_state"}
CfiOp == [op : OpNames, reg : CfiReg, n : Int \cup CfiReg]

\* The FDEs that the theorem is about, and the rules of their CIEs.
Fdes == {r \in FdeRecords : StartsPlain(r)}
CieRules(r) == fde_context(r).rules
Pcs == FuncStart .. FuncStart + MaxLocation

\* R leaves a register as it is, at most by a rule of the CIE.
Quiet(C, R, q) == q \in DOMAIN R => q \in DOMAIN C /\ R[q].kind = "same"
IsRule(R, q, kind, value) == q \in DOMAIN R /\ R[q] = Rule(kind, value)
Moved(R) == IsRule(R, "lr", "register", "x9")

\* The rules of a function with a frame record.
FrameRules(C, R, d) ==
    /\ DOMAIN C \subseteq DOMAIN R /\ Quiet(C, R, "sp")
    /\ IF "push" \in d THEN IsRule(R, "lr", "offset", -1) /\ IsRule(R, "fp", "offset", -2)
       ELSE Quiet(C, R, "lr") /\ Quiet(C, R, "fp")
    /\ IF "save" \in d THEN IsRule(R, "x19", "offset", -3) /\ IsRule(R, "x20", "offset", -4)
       ELSE Quiet(C, R, "x19") /\ Quiet(C, R, "x20")

\* The rules of one without: only the link register may be elsewhere.
FramelessRules(C, R, d) ==
    /\ DOMAIN C \subseteq DOMAIN R
    /\ Quiet(C, R, "sp") /\ Quiet(C, R, "fp") /\ Quiet(C, R, "x19") /\ Quiet(C, R, "x20")
    /\ IF Moved(R) THEN "move" \in d ELSE Quiet(C, R, "lr")

Rules(s, C, R, d) == IF s.body = "frame" THEN FrameRules(C, R, d) ELSE FramelessRules(C, R, d)

\* The link register is where its rule says.
LinkSound(s, R, m) == s.body = "frameless" => IF Moved(R) THEN m.x9 = 100 ELSE m.lr = 100

Cfa(q, n) == [reg |-> q, offset |-> n]
CfaOf(s, d) ==
    IF ~Standing(d) THEN Cfa("sp", 0)
    ELSE IF "frame" \in d THEN Cfa("fp", 2)
    ELSE IF "push" \in d \/ "allocate" \in d THEN Cfa("sp", 2)
    ELSE Cfa("sp", 0)

\* While the frame is down the rules from before the epilogue are remembered;
\* B holds the machine from before it.
Remembers(s, C, st, d, B) ==
    IF Standing(d) THEN st = <<>>
    ELSE /\ Len(st) = 1
         /\ st = <<[rules |-> st[1].rules, cfa |-> IF s.body = "frame" THEN Cfa("fp", 2) ELSE Cfa("sp", 2)]>>
         /\ Rules(s, C, st[1].rules, d) /\ \A m \in B : LinkSound(s, st[1].rules, m)

Described(s, C, a, R, st, m, d, B) ==
    /\ a = CfaOf(s, d) /\ Rules(s, C, R, d) /\ LinkSound(s, R, m) /\ Remembers(s, C, st, d, B)
    /\ "epilogue" \notin d /\ "move" \in d => Moved(R)

Befores == {snapshots[k].machine : k \in {j \in DOMAIN snapshots : BeforeEpilogue(j)}}

\* The rules lead to the caller.
Finds(ctx, m, mem) ==
    LET u == execute_unwind_rules(ctx, m, mem)
    IN  u.sp = 10 /\ u.fp = 16 /\ u.lr = 100 /\ u.x19 = 200 /\ u.x20 = 210

\* The context behind the program, run for pc: at is the location of its last
\* instruction, shots are the locations of the function so far.
RanOn(s, C, at, shots, m, d, B, pc, ctx) ==
    /\ ctx = Ctx(ctx.location, ctx.cfa, C, ctx.rules, ctx.stack, "running") /\ ctx.location \in Int
    /\ pc >= FuncStart + at =>
            ctx.location = FuncStart + at /\ Described(s, C, ctx.cfa, ctx.rules, ctx.stack, m, d, B)
    /\ pc < FuncStart + Len(shots) =>
            /\ Finds(ctx, shots[pc - FuncStart + 1].machine, shots[pc - FuncStart + 1].memory)
            /\ ctx.location > pc \/ ctx.location = FuncStart + at

\* Or a rule was asked for that the CIE does not have.
Ran(r, pc, ctx) ==
    \/ ctx.status = "thrown" /\ Restores
    \/ RanOn(shape, CieRules(r), cfiLocation, snapshots, machine, done, Befores, pc, ctx)

FdeInv ==
    /\ cfi \in Seq(CfiOp) /\ cfiLocation \in 0 .. Len(snapshots)
    /\ \A r \in Fdes : ~Shadowed(r) => \A pc \in Pcs : Ran(r, pc, RunProgram(r, pc, cfi))

-----------------------------------------------------------------------------
(* The loop over the instructions, one instruction at a time. *)

LEMMA Least ==
    ASSUME NEW S, S \subseteq Nat, S # {}
    PROVE  \E x \in S : \A y \in S : x <= y
<1>1. PICK x \in S : \A y \in S : ~(<<y, x>> \in OpToRel(<, Nat))
    BY NatLessThanWellFounded, WFMin
<1>2. ASSUME NEW y \in S PROVE x <= y
    <2>1. x \in Nat /\ y \in Nat
        OBVIOUS
    <2>2. y < x => <<y, x>> \in OpToRel(<, Nat)
        BY <2>1 DEF OpToRel
    <2>3. ~(y < x)
        BY <1>1, <2>2, Zenon
    <2> QED
        BY <2>1, <2>3
<1> QED
    BY <1>2

\* f holds the contexts behind the first instructions.
Runs(f, r, pc, ops, n) ==
    f = [k \in 0 .. n |-> IF k = 0 THEN fde_context(r) ELSE Advance(r.cie, pc, f[k - 1], ops[k])]

LEMMA RunExists ==
    ASSUME NEW r, NEW pc, NEW ops, NEW n \in Nat
    PROVE  \E f : Runs(f, r, pc, ops, n)
<1> DEFINE Bad == {m \in Nat : ~\E f : Runs(f, r, pc, ops, m)}
<1>1. SUFFICES ASSUME n \in Bad PROVE FALSE
    OBVIOUS
<1>2. PICK m \in Bad : \A k \in Bad : m <= k
    BY <1>1, Least
<1>3. m \in Nat /\ ~\E f : Runs(f, r, pc, ops, m)
    OBVIOUS
<1>4. CASE m = 0
    <2>1. PICK f : f = [k \in 0 .. 0 |-> fde_context(r)]
        OBVIOUS
    <2>2. f = [k \in 0 .. 0 |-> IF k = 0 THEN fde_context(r) ELSE Advance(r.cie, pc, f[k - 1], ops[k])]
        BY <2>1
    <2> QED
        BY <1>3, <1>4, <2>2 DEF Runs
<1>5. CASE m # 0
    <2>1. m - 1 \in Nat /\ m - 1 \notin Bad
        BY <1>2, <1>3, <1>5
    <2>2. PICK f : Runs(f, r, pc, ops, m - 1)
        BY <2>1
    <2>3. PICK v : v = Advance(r.cie, pc, f[m - 1], ops[m])
        OBVIOUS
    <2>4. PICK g : g = [k \in 0 .. m |-> IF k = m THEN v ELSE f[k]]
        OBVIOUS
    <2>5. \A k \in 0 .. m - 1 : f[k] = IF k = 0 THEN fde_context(r) ELSE Advance(r.cie, pc, f[k - 1], ops[k])
        BY <2>2, Zenon DEF Runs
    <2>6. \A k \in 0 .. m - 1 : g[k] = f[k]
        BY <1>3, <2>4
    <2>7. g[m] = v
        BY <1>3, <1>5, <2>4
    <2>8. ASSUME NEW k \in 0 .. m
          PROVE  g[k] = IF k = 0 THEN fde_context(r) ELSE Advance(r.cie, pc, g[k - 1], ops[k])
        <3>1. CASE k = m
            BY <1>3, <1>5, <2>1, <2>3, <2>6, <2>7, <3>1
        <3>2. CASE k # m
            BY <1>3, <2>5, <2>6, <3>2
        <3> QED
            BY <3>1, <3>2
    <2>9. g = [k \in 0 .. m |-> g[k]]
        BY <2>4
    <2>10. Runs(g, r, pc, ops, m)
        BY <2>8, <2>9, Zenon DEF Runs
    <2> QED
        BY <1>3, <2>10
<1> QED
    BY <1>4, <1>5

\* What the definition of RunProgram chooses.
LEMMA RunProgramRuns ==
    ASSUME NEW r, NEW pc, NEW ops, Len(ops) \in Nat
    PROVE  \E f : Runs(f, r, pc, ops, Len(ops)) /\ RunProgram(r, pc, ops) = f[Len(ops)]
<1> DEFINE f == CHOOSE f : f = [k \in 0 .. Len(ops) |->
                                  IF k = 0 THEN fde_context(r) ELSE Advance(r.cie, pc, f[k - 1], ops[k])]
<1>1. \E g : g = [k \in 0 .. Len(ops) |-> IF k = 0 THEN fde_context(r) ELSE Advance(r.cie, pc, g[k - 1], ops[k])]
    <2>1. \E g : Runs(g, r, pc, ops, Len(ops))
        BY RunExists
    <2> QED
        BY <2>1, Zenon DEF Runs
<1>2. f = [k \in 0 .. Len(ops) |-> IF k = 0 THEN fde_context(r) ELSE Advance(r.cie, pc, f[k - 1], ops[k])]
    BY <1>1, Zenon
<1>3. RunProgram(r, pc, ops) = f[Len(ops)]
    BY Zenon DEF RunProgram
<1> HIDE DEF f
<1> QED
    BY <1>2, <1>3, Zenon DEF Runs

\* Two runs over programs that agree so far agree.
LEMMA RunsAgree ==
    ASSUME NEW r, NEW pc, NEW s, NEW t, NEW n \in Nat, NEW m \in Nat, n <= m,
           \A k \in 1 .. n : s[k] = t[k], NEW f, NEW g, Runs(f, r, pc, s, n), Runs(g, r, pc, t, m)
    PROVE  f[n] = g[n]
<1>1. \A k \in 0 .. n : f[k] = IF k = 0 THEN fde_context(r) ELSE Advance(r.cie, pc, f[k - 1], s[k])
    BY Zenon DEF Runs
<1>2. \A k \in 0 .. m : g[k] = IF k = 0 THEN fde_context(r) ELSE Advance(r.cie, pc, g[k - 1], t[k])
    BY Zenon DEF Runs
<1> DEFINE Bad == {k \in 0 .. n : f[k] # g[k]}
<1>3. SUFFICES ASSUME n \in Bad PROVE FALSE
    OBVIOUS
<1>4. Bad \subseteq Nat
    OBVIOUS
<1>5. PICK b \in Bad : \A k \in Bad : b <= k
    BY <1>3, <1>4, Least
<1>6. b \in 0 .. n /\ b \in 0 .. m /\ f[b] # g[b]
    OBVIOUS
<1>7. CASE b = 0
    BY <1>1, <1>2, <1>6, <1>7
<1>8. CASE b # 0
    <2>1. b - 1 \in 0 .. n /\ b - 1 \notin Bad /\ b \in 1 .. n
        BY <1>5, <1>6, <1>8
    <2>2. f[b - 1] = g[b - 1] /\ s[b] = t[b]
        BY <2>1
    <2>3. f[b] = Advance(r.cie, pc, f[b - 1], s[b])
        BY <1>1, <1>6, <1>8
    <2>4. g[b] = Advance(r.cie, pc, g[b - 1], t[b])
        BY <1>2, <1>6, <1>8
    <2> QED
        BY <2>2, <2>3, <2>4, <1>6
<1> QED
    BY <1>7, <1>8

LEMMA RunEmpty ==
    ASSUME NEW r, NEW pc
    PROVE  RunProgram(r, pc, <<>>) = fde_context(r)
<1>1. PICK f : Runs(f, r, pc, <<>>, 0) /\ RunProgram(r, pc, <<>>) = f[0]
    BY RunProgramRuns
<1>2. \A k \in 0 .. 0 : f[k] = IF k = 0 THEN fde_context(r) ELSE Advance(r.cie, pc, f[k - 1], <<>>[k])
    BY <1>1, Zenon DEF Runs
<1> QED
    BY <1>1, <1>2

LEMMA RunAppend ==
    ASSUME NEW S, NEW ops \in Seq(S), NEW i \in S, NEW r, NEW pc
    PROVE  RunProgram(r, pc, Append(ops, i)) = Advance(r.cie, pc, RunProgram(r, pc, ops), i)
<1>1. PICK n \in Nat : n = Len(ops)
    OBVIOUS
<1>2. PICK t : t = Append(ops, i)
    OBVIOUS
<1>3. Len(t) = n + 1 /\ t[n + 1] = i /\ \A k \in 1 .. n : ops[k] = t[k]
    BY <1>1, <1>2
<1>4. PICK f : Runs(f, r, pc, ops, n) /\ RunProgram(r, pc, ops) = f[n]
    BY <1>1, RunProgramRuns
<1>5. PICK g : Runs(g, r, pc, t, n + 1) /\ RunProgram(r, pc, t) = g[n + 1]
    BY <1>1, <1>3, RunProgramRuns
<1>6. f[n] = g[n]
    BY <1>3, <1>4, <1>5, RunsAgree
<1>7. \A k \in 0 .. n + 1 : g[k] = IF k = 0 THEN fde_context(r) ELSE Advance(r.cie, pc, g[k - 1], t[k])
    BY <1>5, Zenon DEF Runs
<1>8. g[n + 1] = Advance(r.cie, pc, g[n + 1 - 1], t[n + 1])
    <2>1. PICK j : j = n + 1
        OBVIOUS
    <2>2. j \in 0 .. n + 1 /\ j # 0
        BY <2>1
    <2>3. g[j] = Advance(r.cie, pc, g[j - 1], t[j])
        BY <1>7, <2>2
    <2> QED
        BY <2>1, <2>3
<1>9. n + 1 - 1 = n
    OBVIOUS
<1> QED
    BY <1>2, <1>3, <1>4, <1>5, <1>6, <1>8, <1>9

\* A context in which the loop has ended stays.
LEMMA AdvanceEnds ==
    ASSUME NEW cie, NEW pc, NEW ctx, NEW i, ~Executes(ctx, pc)
    PROVE  Advance(cie, pc, ctx, i) = ctx
BY DEF Advance

\* The instructions of one step, at most three.
RunOps(cie, pc, ctx, ops) ==
    LET one == Advance(cie, pc, ctx, ops[1])
        two == Advance(cie, pc, one, ops[2])
    IN  IF Len(ops) = 1 THEN one ELSE IF Len(ops) = 2 THEN two ELSE Advance(cie, pc, two, ops[3])

LEMMA OpsEnd ==
    ASSUME NEW cie, NEW pc, NEW ctx, NEW ops, ~Executes(ctx, pc)
    PROVE  RunOps(cie, pc, ctx, ops) = ctx
BY AdvanceEnds DEF RunOps

LEMMA Appends ==
    ASSUME NEW S, NEW s \in Seq(S), NEW x \in S, NEW y \in S, NEW z \in S
    PROVE  /\ s \o <<x>> = Append(s, x)
           /\ s \o <<x, y>> = Append(Append(s, x), y)
           /\ s \o <<x, y, z>> = Append(Append(Append(s, x), y), z)
<1>1. s \o <<x>> = Append(s, x)
    OBVIOUS
<1>2. s \o <<x, y>> = Append(Append(s, x), y)
    OBVIOUS
<1>3. s \o <<x, y, z>> = Append(Append(Append(s, x), y), z)
    OBVIOUS
<1> QED
    BY <1>1, <1>2, <1>3

LEMMA StepRuns ==
    ASSUME NEW S, NEW s \in Seq(S), NEW a \in S, NEW ops, NEW x \in S, NEW y \in S, NEW z \in S,
           ops \in {<<x>>, <<x, y>>, <<x, y, z>>}, NEW r, NEW pc
    PROVE  RunProgram(r, pc, s \o <<a>> \o ops) =
                RunOps(r.cie, pc, Advance(r.cie, pc, RunProgram(r, pc, s), a), ops)
<1>1. PICK s1 : s1 = Append(s, a)
    OBVIOUS
<1>2. PICK s2 : s2 = Append(s1, x)
    OBVIOUS
<1>3. PICK s3 : s3 = Append(s2, y)
    OBVIOUS
<1>4. PICK s4 : s4 = Append(s3, z)
    OBVIOUS
<1>5. s1 \in Seq(S) /\ s2 \in Seq(S) /\ s3 \in Seq(S)
    BY <1>1, <1>2, <1>3
<1>6. s \o <<a>> = s1 /\ s1 \o <<x>> = s2 /\ s1 \o <<x, y>> = s3 /\ s1 \o <<x, y, z>> = s4
    BY <1>1, <1>2, <1>3, <1>4, <1>5, Appends
<1>7. PICK ctx : ctx = Advance(r.cie, pc, RunProgram(r, pc, s), a)
    OBVIOUS
<1>8. PICK one : one = Advance(r.cie, pc, ctx, x)
    OBVIOUS
<1>9. PICK two : two = Advance(r.cie, pc, one, y)
    OBVIOUS
<1>10. RunProgram(r, pc, s1) = ctx
    BY <1>1, <1>7, RunAppend
<1>11. RunProgram(r, pc, s2) = one
    BY <1>2, <1>5, <1>8, <1>10, RunAppend
<1>12. RunProgram(r, pc, s3) = two
    BY <1>3, <1>5, <1>9, <1>11, RunAppend
<1>13. RunProgram(r, pc, s4) = Advance(r.cie, pc, two, z)
    BY <1>4, <1>5, <1>12, RunAppend
<1>14. CASE ops = <<x>>
    <2>1. Len(ops) = 1 /\ ops[1] = x
        BY <1>14
    <2> QED
        BY <2>1, <1>6, <1>7, <1>8, <1>11, <1>14 DEF RunOps
<1>15. CASE ops = <<x, y>>
    <2>1. Len(ops) = 2 /\ ops[1] = x /\ ops[2] = y
        BY <1>15
    <2>2. RunOps(r.cie, pc, ctx, ops) = two
        BY <2>1, <1>8, <1>9 DEF RunOps
    <2> QED
        BY <2>2, <1>6, <1>7, <1>12, <1>15
<1>16. CASE ops = <<x, y, z>>
    <2>1. Len(ops) = 3 /\ ops[1] = x /\ ops[2] = y /\ ops[3] = z
        BY <1>16
    <2>2. RunOps(r.cie, pc, ctx, ops) = Advance(r.cie, pc, two, z)
        BY <2>1, <1>8, <1>9 DEF RunOps
    <2> QED
        BY <2>2, <1>6, <1>7, <1>13, <1>16
<1> QED
    BY <1>14, <1>15, <1>16

-----------------------------------------------------------------------------
(* The instructions. *)

\* R with a rule for q.
Put(R, q, kind, value) == [x \in DOMAIN R \cup {q} |-> IF x = q THEN Rule(kind, value) ELSE R[x]]

LEMMA PutRules ==
    ASSUME NEW R, NEW q, NEW kind, NEW value
    PROVE  /\ DOMAIN Put(R, q, kind, value) = DOMAIN R \cup {q}
           /\ IsRule(Put(R, q, kind, value), q, kind, value)
           /\ \A x : x # q => /\ x \in DOMAIN Put(R, q, kind, value) <=> x \in DOMAIN R
                              /\ x \in DOMAIN R => Put(R, q, kind, value)[x] = R[x]
BY DEF Put, IsRule

LEMMA EmplacePuts ==
    ASSUME NEW l, NEW a, NEW C, NEW R, NEW st, NEW q, NEW kind, NEW value
    PROVE  Emplace(Ctx(l, a, C, R, st, "running"), q, kind, value) =
                IF q \in DOMAIN R THEN Ctx(l, a, C, R, st, "running")
                ELSE Ctx(l, a, C, Put(R, q, kind, value), st, "running")
<1>1. Ctx(l, a, C, R, st, "running").rules = R
    BY DEF Ctx
<1> QED
    BY <1>1 DEF Emplace, Ctx, Put, Rule

\* Offsets count whole words down the stack.
Plain(cie) == cie.code_alignment_factor = 1 /\ cie.data_alignment_factor = -1

\* Unless the location is behind pc, the instruction is executed.
LEMMA AdvanceExecutes ==
    ASSUME NEW cie, NEW pc \in Int, NEW l \in Int, l <= pc, NEW a, NEW C, NEW R, NEW st, NEW i
    PROVE  Advance(cie, pc, Ctx(l, a, C, R, st, "running"), i) =
                execute_cfi_instruction(cie, Ctx(l, a, C, R, st, "running"), i)
BY DEF Advance, Executes, Ctx

LEMMA AdvanceLoc ==
    ASSUME NEW cie, Plain(cie), NEW pc \in Int, NEW l \in Int, l <= pc, NEW a, NEW C, NEW R, NEW st, NEW q, NEW n \in Int
    PROVE  Advance(cie, pc, Ctx(l, a, C, R, st, "running"), Cfi("advance_loc", q, n)) =
                Ctx(l + n, a, C, R, st, "running")
<1>1. PICK ctx : ctx = Ctx(l, a, C, R, st, "running")
    OBVIOUS
<1>2. execute_cfi_instruction(cie, ctx, Cfi("advance_loc", q, n)) = Ctx(l + n * 1, a, C, R, st, "running")
    BY <1>1 DEF execute_cfi_instruction, Cfi, Ctx, Plain
<1>3. n * 1 = n
    OBVIOUS
<1> QED
    BY <1>1, <1>2, <1>3, AdvanceExecutes

LEMMA DefCfa ==
    ASSUME NEW cie, Plain(cie), NEW pc \in Int, NEW l \in Int, l <= pc, NEW a, NEW C, NEW R, NEW st, NEW q, NEW n \in Int
    PROVE  Advance(cie, pc, Ctx(l, a, C, R, st, "running"), Cfi("def_cfa", q, n)) =
                Ctx(l, Cfa(q, n), C, R, st, "running")
<1>1. PICK ctx : ctx = Ctx(l, a, C, R, st, "running")
    OBVIOUS
<1>2. execute_cfi_instruction(cie, ctx, Cfi("def_cfa", q, n)) = Ctx(l, Cfa(q, n), C, R, st, "running")
    BY <1>1 DEF execute_cfi_instruction, Cfi, Ctx, Cfa
<1> QED
    BY <1>1, <1>2, AdvanceExecutes

LEMMA DefCfaOffset ==
    ASSUME NEW cie, Plain(cie), NEW pc \in Int, NEW l \in Int, l <= pc, NEW a, NEW C, NEW R, NEW st, NEW q, NEW n \in Int
    PROVE  Advance(cie, pc, Ctx(l, a, C, R, st, "running"), Cfi("def_cfa_offset", q, n)) =
                Ctx(l, [a EXCEPT !.offset = n], C, R, st, "running")
<1>1. PICK ctx : ctx = Ctx(l, a, C, R, st, "running")
    OBVIOUS
<1>2. execute_cfi_instruction(cie, ctx, Cfi("def_cfa_offset", q, n)) = Ctx(l, [a EXCEPT !.offset = n], C, R, st, "running")
    BY <1>1 DEF execute_cfi_instruction, Cfi, Ctx
<1> QED
    BY <1>1, <1>2, AdvanceExecutes

LEMMA Offset ==
    ASSUME NEW cie, Plain(cie), NEW pc \in Int, NEW l \in Int, l <= pc, NEW a, NEW C, NEW R, NEW st, NEW q, NEW n \in Int, q \notin DOMAIN R
    PROVE  Advance(cie, pc, Ctx(l, a, C, R, st, "running"), Cfi("offset", q, n)) =
                Ctx(l, a, C, Put(R, q, "offset", 0 - n), st, "running")
<1>1. PICK ctx : ctx = Ctx(l, a, C, R, st, "running")
    OBVIOUS
<1>2. execute_cfi_instruction(cie, ctx, Cfi("offset", q, n)) = Emplace(ctx, q, "offset", n * (-1))
    BY <1>1 DEF execute_cfi_instruction, Cfi, Plain
<1>3. n * (-1) = 0 - n
    OBVIOUS
<1>4. Emplace(ctx, q, "offset", 0 - n) = Ctx(l, a, C, Put(R, q, "offset", 0 - n), st, "running")
    BY <1>1, EmplacePuts
<1> QED
    BY <1>1, <1>2, <1>3, <1>4, AdvanceExecutes

LEMMA Register ==
    ASSUME NEW cie, Plain(cie), NEW pc \in Int, NEW l \in Int, l <= pc, NEW a, NEW C, NEW R, NEW st, NEW q, NEW v, q \notin DOMAIN R
    PROVE  Advance(cie, pc, Ctx(l, a, C, R, st, "running"), Cfi("register", q, v)) =
                Ctx(l, a, C, Put(R, q, "register", v), st, "running")
<1>1. PICK ctx : ctx = Ctx(l, a, C, R, st, "running")
    OBVIOUS
<1>2. execute_cfi_instruction(cie, ctx, Cfi("register", q, v)) = Emplace(ctx, q, "register", v)
    BY <1>1 DEF execute_cfi_instruction, Cfi
<1>3. Emplace(ctx, q, "register", v) = Ctx(l, a, C, Put(R, q, "register", v), st, "running")
    BY <1>1, EmplacePuts
<1> QED
    BY <1>1, <1>2, <1>3, AdvanceExecutes

Entry(R, a) == [rules |-> R, cfa |-> a]

LEMMA RememberState ==
    ASSUME NEW cie, Plain(cie), NEW pc \in Int, NEW l \in Int, l <= pc, NEW a, NEW C, NEW R, NEW st
    PROVE  Advance(cie, pc, Ctx(l, a, C, R, st, "running"), Cfi("remember_state", "sp", 0)) =
                Ctx(l, a, C, R, Append(st, Entry(R, a)), "running")
<1>1. PICK ctx : ctx = Ctx(l, a, C, R, st, "running")
    OBVIOUS
<1>2. execute_cfi_instruction(cie, ctx, Cfi("remember_state", "sp", 0)) = Ctx(l, a, C, R, Append(st, Entry(R, a)), "running")
    BY <1>1 DEF execute_cfi_instruction, Cfi, Ctx, Entry
<1> QED
    BY <1>1, <1>2, AdvanceExecutes

LEMMA RestoreInstruction ==
    ASSUME NEW cie, NEW pc \in Int, NEW l \in Int, l <= pc, NEW a, NEW C, NEW R, NEW st, NEW q,
           DOMAIN C \subseteq DOMAIN R
    PROVE  LET ctx == Ctx(l, a, C, R, st, "running")
           IN  /\ q \in DOMAIN C => Advance(cie, pc, ctx, Cfi("restore", q, 0)) = ctx
               /\ q \notin DOMAIN C => Advance(cie, pc, ctx, Cfi("restore", q, 0)).status = "thrown"
<1> DEFINE ctx == Ctx(l, a, C, R, st, "running")
<1>1. Advance(cie, pc, ctx, Cfi("restore", q, 0)) = execute_cfi_instruction(cie, ctx, Cfi("restore", q, 0))
    BY DEF Advance, Executes, Ctx
<1>2. execute_cfi_instruction(cie, ctx, Cfi("restore", q, 0)) = Restore(ctx, q)
    BY DEF execute_cfi_instruction, Cfi
<1>3. ctx.cie_rules = C /\ ctx.rules = R
    BY DEF Ctx
<1>4. q \in DOMAIN C => Restore(ctx, q) = ctx
    BY <1>3 DEF Restore, Emplace
<1>5. q \notin DOMAIN C => Restore(ctx, q) = [ctx EXCEPT !.status = "thrown"]
    BY <1>3 DEF Restore
<1>6. [ctx EXCEPT !.status = "thrown"].status = "thrown"
    BY DEF Ctx
<1> QED
    BY <1>1, <1>2, <1>4, <1>5, <1>6

LEMMA RestoreState ==
    ASSUME NEW cie, NEW l, NEW a, NEW C, NEW R, NEW st, NEW q
    PROVE  execute_cfi_instruction(cie, Ctx(l, a, C, R, st, "running"), Cfi("restore_state", q, 0)) =
                Ctx(l, Last(st).cfa, C, Last(st).rules, Front(st), "running")
<1>1. PICK ctx : ctx = Ctx(l, a, C, R, st, "running")
    OBVIOUS
<1>2. PICK a1, R1, st1 : a1 = Last(st).cfa /\ R1 = Last(st).rules /\ st1 = Front(st)
    OBVIOUS
<1>3. ctx.stack = st
    BY <1>1 DEF Ctx
<1>4. execute_cfi_instruction(cie, ctx, Cfi("restore_state", q, 0)) =
            [ctx EXCEPT !.rules = Last(ctx.stack).rules, !.cfa = Last(ctx.stack).cfa, !.stack = Front(@)]
    BY DEF execute_cfi_instruction, Cfi
<1>5. execute_cfi_instruction(cie, ctx, Cfi("restore_state", q, 0)) =
            [ctx EXCEPT !.rules = R1, !.cfa = a1, !.stack = st1]
    BY <1>2, <1>3, <1>4
<1>6. [Ctx(l, a, C, R, st, "running") EXCEPT !.rules = R1] = Ctx(l, a, C, R1, st, "running")
    BY DEF Ctx
<1>7. [Ctx(l, a, C, R1, st, "running") EXCEPT !.cfa = a1] = Ctx(l, a1, C, R1, st, "running")
    BY DEF Ctx
<1>8. [Ctx(l, a1, C, R1, st, "running") EXCEPT !.stack = st1] = Ctx(l, a1, C, R1, st1, "running")
    BY DEF Ctx
<1>9. [ctx EXCEPT !.rules = R1, !.cfa = a1, !.stack = st1] = Ctx(l, a1, C, R1, st1, "running")
    BY <1>1, <1>6, <1>7, <1>8, Zenon
<1> QED
    BY <1>1, <1>2, <1>5, <1>9

LEMMA RestoreStateInstruction ==
    ASSUME NEW cie, NEW pc \in Int, NEW l \in Int, l <= pc, NEW a, NEW C, NEW R, NEW q, NEW R1, NEW a1
    PROVE  Advance(cie, pc, Ctx(l, a, C, R, <<[rules |-> R1, cfa |-> a1]>>, "running"), Cfi("restore_state", q, 0)) =
                Ctx(l, a1, C, R1, <<>>, "running")
<1>1. PICK st : st = <<[rules |-> R1, cfa |-> a1]>>
    OBVIOUS
<1>2. Last(st).rules = R1 /\ Last(st).cfa = a1 /\ Front(st) = <<>>
    BY <1>1 DEF Last, Front
<1>3. PICK ctx : ctx = Ctx(l, a, C, R, st, "running")
    OBVIOUS
<1>4. ctx.status = "running" /\ ctx.location = l
    BY <1>3 DEF Ctx
<1>5. Advance(cie, pc, ctx, Cfi("restore_state", q, 0)) = execute_cfi_instruction(cie, ctx, Cfi("restore_state", q, 0))
    BY <1>4 DEF Advance, Executes
<1> QED
    BY <1>1, <1>2, <1>3, <1>5, RestoreState

-----------------------------------------------------------------------------
(* What the rules lead to. *)

CfaValue(ctx, m) == m[ctx.cfa.reg] + ctx.cfa.offset

LEMMA QuietKept ==
    ASSUME NEW ctx, NEW m, NEW mem, NEW q \in CfiReg, q \in DOMAIN ctx.rules => ctx.rules[q].kind = "same"
    PROVE  execute_unwind_rules(ctx, m, mem)[q] = IF q = "sp" THEN CfaValue(ctx, m) ELSE m[q]
BY DEF execute_unwind_rules, CfaValue

LEMMA OffsetLoaded ==
    ASSUME NEW ctx, NEW m, NEW mem, NEW q \in CfiReg, NEW n, IsRule(ctx.rules, q, "offset", n)
    PROVE  execute_unwind_rules(ctx, m, mem)[q] = Load(mem, CfaValue(ctx, m) + n)
<1>1. q \in DOMAIN ctx.rules /\ ctx.rules[q].kind = "offset" /\ ctx.rules[q].value = n
    BY DEF IsRule, Rule
<1> QED
    BY <1>1 DEF execute_unwind_rules, CfaValue

LEMMA RegisterCopied ==
    ASSUME NEW ctx, NEW m, NEW mem, NEW q \in CfiReg, NEW v, IsRule(ctx.rules, q, "register", v)
    PROVE  execute_unwind_rules(ctx, m, mem)[q] = m[v]
<1>1. q \in DOMAIN ctx.rules /\ ctx.rules[q].kind = "register" /\ ctx.rules[q].value = v
    BY DEF IsRule, Rule
<1> QED
    BY <1>1 DEF execute_unwind_rules

LEMMA DescribedFinds ==
    ASSUME NEW s \in TypedShape, NEW m, NEW mem, NEW d, At(s, m, mem, d), NEW ctx, NEW C, NEW st, NEW B,
           Described(s, C, ctx.cfa, ctx.rules, st, m, d, B)
    PROVE  Finds(ctx, m, mem)
<1> DEFINE u == execute_unwind_rules(ctx, m, mem)
           R == ctx.rules
<1>1. m \in [CfiReg -> Int] /\ mem \in [Words -> Int]
    BY DEF At
<1>2. ctx.cfa = CfaOf(s, d) /\ Rules(s, C, R, d) /\ LinkSound(s, R, m)
    BY DEF Described
<1>3. {"sp", "fp", "lr", "x19", "x20"} \subseteq CfiReg
    BY DEF CfiReg
<1>4. \A q \in CfiReg : Quiet(C, R, q) => u[q] = IF q = "sp" THEN CfaValue(ctx, m) ELSE m[q]
    BY QuietKept DEF Quiet
<1>5. CASE s.body = "frame"
    <2>1. FrameOrder(d) /\ Stacked(mem, d) /\ FrameRegisters(m, d) /\ FrameRules(C, R, d)
        BY <1>2, <1>5 DEF At, Rules
    <2>2. CfaValue(ctx, m) = 10
        <3>1. CASE ~Standing(d)
            <4>1. ctx.cfa = Cfa("sp", 0) /\ m.sp = 10
                BY <3>1, <2>1, <1>2 DEF CfaOf, FrameRegisters
            <4> QED
                BY <4>1 DEF CfaValue, Cfa
        <3>2. CASE Standing(d) /\ "frame" \in d
            <4>1. ctx.cfa = Cfa("fp", 2) /\ m.fp = 8
                BY <3>2, <2>1, <1>2 DEF CfaOf, FrameRegisters, FrameOrder
            <4> QED
                BY <4>1 DEF CfaValue, Cfa
        <3>3. CASE Standing(d) /\ "frame" \notin d /\ "push" \in d
            <4>1. ctx.cfa = Cfa("sp", 2) /\ m.sp = 8
                BY <3>3, <2>1, <1>2 DEF CfaOf, FrameRegisters, FrameOrder
            <4> QED
                BY <4>1 DEF CfaValue, Cfa
        <3>4. CASE Standing(d) /\ "frame" \notin d /\ "push" \notin d
            <4>1. ctx.cfa = Cfa("sp", 0) /\ m.sp = 10
                BY <3>4, <2>1, <1>2 DEF CfaOf, FrameRegisters, FrameOrder
            <4> QED
                BY <4>1 DEF CfaValue, Cfa
        <3> QED
            BY <3>1, <3>2, <3>3, <3>4
    <2>3. \A q \in CfiReg : \A n \in Int : IsRule(R, q, "offset", n) => u[q] = Load(mem, 10 + n)
        BY <2>2, OffsetLoaded
    <2> HIDE DEF u, R
    <2>4. u.sp = 10
        BY <2>1, <2>2, <1>3, <1>4 DEF FrameRules
    <2>5. u.fp = 16 /\ u.lr = 100
        <3>1. CASE "push" \in d
            <4>1. u.lr = Load(mem, 10 + (-1)) /\ u.fp = Load(mem, 10 + (-2))
                BY <3>1, <2>1, <2>3, <1>3 DEF FrameRules
            <4>2. 10 + (-1) = 9 /\ 10 + (-2) = 8 /\ mem[9] = 100 /\ mem[8] = 16
                BY <3>1, <2>1 DEF Stacked
            <4>3. Load(mem, 9) = 100 /\ Load(mem, 8) = 16
                BY <4>2, <1>1 DEF Load, Words
            <4> QED
                BY <4>1, <4>2, <4>3
        <3>2. CASE "push" \notin d
            BY <3>2, <2>1, <1>3, <1>4 DEF FrameRules, FrameRegisters
        <3> QED
            BY <3>1, <3>2
    <2>6. u.x19 = 200 /\ u.x20 = 210
        <3>1. CASE "save" \in d
            <4>1. u.x19 = Load(mem, 10 + (-3)) /\ u.x20 = Load(mem, 10 + (-4))
                BY <3>1, <2>1, <2>3, <1>3 DEF FrameRules
            <4>2. 10 + (-3) = 7 /\ 10 + (-4) = 6 /\ mem[7] = 200 /\ mem[6] = 210
                BY <3>1, <2>1 DEF Stacked
            <4>3. Load(mem, 7) = 200 /\ Load(mem, 6) = 210
                BY <4>2, <1>1 DEF Load, Words
            <4> QED
                BY <4>1, <4>2, <4>3
        <3>2. CASE "save" \notin d
            <4>1. m.x19 = 200 /\ m.x20 = 210
                BY <3>2, <2>1 DEF FrameRegisters
            <4> QED
                BY <4>1, <3>2, <2>1, <1>3, <1>4 DEF FrameRules
        <3> QED
            BY <3>1, <3>2
    <2> QED
        BY <2>4, <2>5, <2>6 DEF Finds, u
<1>6. CASE s.body = "frameless"
    <2>1. FramelessOrder(d) /\ FramelessRegisters(s, m, d) /\ FramelessRules(C, R, d)
        BY <1>2, <1>6 DEF At, Rules
    <2>2. CfaValue(ctx, m) = 10
        <3>1. CASE Standing(d) /\ "allocate" \in d
            <4>1. ctx.cfa = Cfa("sp", 2) /\ m.sp = 8
                BY <3>1, <2>1, <1>2 DEF CfaOf, FramelessRegisters, FramelessOrder
            <4> QED
                BY <4>1 DEF CfaValue, Cfa
        <3>2. CASE ~(Standing(d) /\ "allocate" \in d)
            <4>1. ctx.cfa = Cfa("sp", 0) /\ m.sp = 10
                BY <3>2, <2>1, <1>2 DEF CfaOf, FramelessRegisters, FramelessOrder
            <4> QED
                BY <4>1 DEF CfaValue, Cfa
        <3> QED
            BY <3>1, <3>2
    <2>3. u.sp = 10 /\ u.fp = 16 /\ u.x19 = 200 /\ u.x20 = 210
        <3> HIDE DEF u, R
        <3>1. u.sp = 10 /\ u.fp = m.fp /\ u.x19 = m.x19 /\ u.x20 = m.x20
            BY <2>1, <2>2, <1>3, <1>4 DEF FramelessRules
        <3> QED
            BY <3>1, <2>1 DEF FramelessRegisters
    <2>4. u.lr = 100
        <3>1. CASE Moved(R)
            <4>1. u.lr = m["x9"]
                BY <3>1, <1>3, RegisterCopied DEF Moved
            <4> QED
                BY <4>1, <3>1, <1>2, <1>6 DEF LinkSound
        <3>2. CASE ~Moved(R)
            <4>1. Quiet(C, R, "lr") /\ m.lr = 100
                BY <3>2, <2>1, <1>2, <1>6 DEF FramelessRules, LinkSound
            <4> HIDE DEF u, R
            <4> QED
                BY <4>1, <1>3, <1>4
        <3> QED
            BY <3>1, <3>2
    <2> QED
        BY <2>3, <2>4 DEF Finds
<1> QED
    BY <1>5, <1>6 DEF TypedShape

-----------------------------------------------------------------------------
(* What the call frame instructions of one instruction do to the rules. *)

\* The context c is at location l and describes the machine.
Ends(s, C, l, c, m, d, B) ==
    /\ c = Ctx(l, c.cfa, C, c.rules, c.stack, "running")
    /\ Described(s, C, c.cfa, c.rules, c.stack, m, d, B)

LEMMA EndsWith ==
    ASSUME NEW s, NEW C, NEW l, NEW c, NEW a, NEW R, NEW st, NEW m, NEW d, NEW B,
           c = Ctx(l, a, C, R, st, "running"), Described(s, C, a, R, st, m, d, B)
    PROVE  Ends(s, C, l, c, m, d, B)
<1>1. c.cfa = a /\ c.rules = R /\ c.stack = st
    BY DEF Ctx
<1> QED
    BY <1>1 DEF Ends

\* Other registers keep their rules.
LEMMA PutQuiet ==
    ASSUME NEW C, NEW R, NEW q, NEW kind, NEW value, NEW x, x # q
    PROVE  /\ Quiet(C, R, x) => Quiet(C, Put(R, q, kind, value), x)
           /\ \A k, v : IsRule(R, x, k, v) => IsRule(Put(R, q, kind, value), x, k, v)
<1>1. PICK P : P = Put(R, q, kind, value)
    OBVIOUS
<1>2. (x \in DOMAIN P <=> x \in DOMAIN R) /\ (x \in DOMAIN R => P[x] = R[x])
    BY <1>1 DEF Put
<1>3. /\ Quiet(C, R, x) => Quiet(C, P, x)
      /\ \A k, v : IsRule(R, x, k, v) => IsRule(P, x, k, v)
    BY <1>2 DEF Quiet, IsRule
<1> QED
    BY <1>1, <1>3

LEMMA PushRules ==
    ASSUME NEW s, s.body = "frame", NEW C, NEW a, NEW R, NEW st, NEW m, NEW d, NEW B,
           Described(s, C, a, R, st, m, d, B), d \subseteq {"clobber"}, "lr" \notin DOMAIN C, "fp" \notin DOMAIN C,
           NEW cie, Plain(cie), NEW l \in Int, NEW pc \in Int, l <= pc, NEW m2, NEW B2
    PROVE  Ends(s, C, l, RunOps(cie, pc, Ctx(l, a, C, R, st, "running"),
                    <<Cfi("def_cfa_offset", "sp", 2), Cfi("offset", "lr", 1), Cfi("offset", "fp", 2)>>),
                m2, d \cup {"push"}, B2)
<1>1. PICK ops : ops = <<Cfi("def_cfa_offset", "sp", 2), Cfi("offset", "lr", 1), Cfi("offset", "fp", 2)>>
    OBVIOUS
<1>2. /\ Len(ops) = 3 /\ ops[1] = Cfi("def_cfa_offset", "sp", 2)
      /\ ops[2] = Cfi("offset", "lr", 1) /\ ops[3] = Cfi("offset", "fp", 2)
    BY <1>1
<1>3. PICK R1, R2 : R1 = Put(R, "lr", "offset", 0 - 1) /\ R2 = Put(R1, "fp", "offset", 0 - 2)
    OBVIOUS
<1>4. /\ a = Cfa("sp", 0) /\ FrameRules(C, R, d) /\ st = <<>> /\ Standing(d)
      /\ "push" \notin d /\ "save" \notin d
    BY DEF Described, Rules, Remembers, Standing, CfaOf
<1>5. "lr" \notin DOMAIN R /\ "fp" \notin DOMAIN R
    BY <1>4 DEF FrameRules, Quiet
<1>6. "fp" \notin DOMAIN R1
    BY <1>3, <1>5, PutRules
<1>7. [a EXCEPT !.offset = 2] = Cfa("sp", 2)
    BY <1>4 DEF Cfa
<1>8. Advance(cie, pc, Ctx(l, a, C, R, st, "running"), ops[1]) = Ctx(l, Cfa("sp", 2), C, R, st, "running")
    BY <1>2, <1>7, DefCfaOffset
<1>9. Advance(cie, pc, Ctx(l, Cfa("sp", 2), C, R, st, "running"), ops[2]) = Ctx(l, Cfa("sp", 2), C, R1, st, "running")
    BY <1>2, <1>3, <1>5, Offset
<1>10. Advance(cie, pc, Ctx(l, Cfa("sp", 2), C, R1, st, "running"), ops[3]) = Ctx(l, Cfa("sp", 2), C, R2, st, "running")
    BY <1>2, <1>3, <1>6, Offset
<1>11. RunOps(cie, pc, Ctx(l, a, C, R, st, "running"), ops) = Ctx(l, Cfa("sp", 2), C, R2, st, "running")
    BY <1>2, <1>8, <1>9, <1>10 DEF RunOps
<1>12. PICK d2 : d2 = d \cup {"push"}
    OBVIOUS
<1>13. "push" \in d2 /\ "save" \notin d2 /\ "frame" \notin d2 /\ "epilogue" \notin d2 /\ "move" \notin d2 /\ Standing(d2)
    BY <1>12 DEF Standing
<1>14. FrameRules(C, R2, d2)
    <2>1. IsRule(R1, "lr", "offset", 0 - 1) /\ IsRule(R2, "fp", "offset", 0 - 2)
        BY <1>3, PutRules
    <2>2. IsRule(R2, "lr", "offset", 0 - 1)
        BY <2>1, <1>3, PutQuiet
    <2>3. 0 - 1 = -1 /\ 0 - 2 = -2
        OBVIOUS
    <2>4. ASSUME NEW x \in {"sp", "x19", "x20"} PROVE Quiet(C, R2, x)
        <3>1. Quiet(C, R, x) /\ x # "lr" /\ x # "fp"
            BY <1>4 DEF FrameRules
        <3> QED
            BY <3>1, <1>3, PutQuiet
    <2>5. DOMAIN C \subseteq DOMAIN R2
        BY <1>3, <1>4, PutRules DEF FrameRules
    <2> QED
        BY <2>1, <2>2, <2>3, <2>4, <2>5, <1>13 DEF FrameRules
<1>15. Described(s, C, Cfa("sp", 2), R2, st, m2, d2, B2)
    BY <1>4, <1>13, <1>14 DEF Described, Rules, Remembers, CfaOf, LinkSound
<1> QED
    BY <1>1, <1>11, <1>12, <1>15, EndsWith

LEMMA SetFrameRules ==
    ASSUME NEW s, s.body = "frame", NEW C, NEW a, NEW R, NEW st, NEW m, NEW d, NEW B,
           Described(s, C, a, R, st, m, d, B), FrameOrder(d), "push" \in d, "frame" \notin d,
           NEW cie, Plain(cie), NEW l \in Int, NEW pc \in Int, l <= pc, NEW m2, NEW B2
    PROVE  Ends(s, C, l, RunOps(cie, pc, Ctx(l, a, C, R, st, "running"), <<Cfi("def_cfa", "fp", 2)>>),
                m2, d \cup {"frame"}, B2)
<1>1. PICK ops : ops = <<Cfi("def_cfa", "fp", 2)>>
    OBVIOUS
<1>2. Len(ops) = 1 /\ ops[1] = Cfi("def_cfa", "fp", 2)
    BY <1>1
<1>3. RunOps(cie, pc, Ctx(l, a, C, R, st, "running"), ops) = Ctx(l, Cfa("fp", 2), C, R, st, "running")
    BY <1>2, DefCfa DEF RunOps
<1>4. "epilogue" \notin d /\ "move" \notin d /\ Standing(d)
    BY DEF FrameOrder, Standing
<1>5. FrameRules(C, R, d) /\ st = <<>>
    BY <1>4 DEF Described, Rules, Remembers
<1>6. PICK d2 : d2 = d \cup {"frame"}
    OBVIOUS
<1>7. /\ "push" \in d2 /\ "frame" \in d2 /\ ("save" \in d2 <=> "save" \in d)
      /\ "epilogue" \notin d2 /\ "move" \notin d2 /\ Standing(d2)
    BY <1>4, <1>6 DEF Standing
<1>8. FrameRules(C, R, d2)
    BY <1>5, <1>7 DEF FrameRules
<1>9. Described(s, C, Cfa("fp", 2), R, st, m2, d2, B2)
    BY <1>5, <1>7, <1>8 DEF Described, Rules, Remembers, CfaOf, LinkSound
<1> QED
    BY <1>1, <1>3, <1>6, <1>9, EndsWith

LEMMA SavePairRules ==
    ASSUME NEW s, s.body = "frame", NEW C, NEW a, NEW R, NEW st, NEW m, NEW d, NEW B,
           Described(s, C, a, R, st, m, d, B), FrameOrder(d), "frame" \in d, "save" \notin d,
           "x19" \notin DOMAIN C, "x20" \notin DOMAIN C,
           NEW cie, Plain(cie), NEW l \in Int, NEW pc \in Int, l <= pc, NEW m2, NEW B2
    PROVE  Ends(s, C, l, RunOps(cie, pc, Ctx(l, a, C, R, st, "running"), <<Cfi("offset", "x19", 3), Cfi("offset", "x20", 4)>>),
                m2, d \cup {"save"}, B2)
<1>1. PICK ops : ops = <<Cfi("offset", "x19", 3), Cfi("offset", "x20", 4)>>
    OBVIOUS
<1>2. Len(ops) = 2 /\ ops[1] = Cfi("offset", "x19", 3) /\ ops[2] = Cfi("offset", "x20", 4)
    BY <1>1
<1>3. PICK R1, R2 : R1 = Put(R, "x19", "offset", 0 - 3) /\ R2 = Put(R1, "x20", "offset", 0 - 4)
    OBVIOUS
<1>4. "push" \in d /\ "epilogue" \notin d /\ "move" \notin d /\ Standing(d)
    BY DEF FrameOrder, Standing
<1>5. a = Cfa("fp", 2) /\ FrameRules(C, R, d) /\ st = <<>>
    BY <1>4 DEF Described, Rules, Remembers, CfaOf
<1>6. "x19" \notin DOMAIN R /\ "x20" \notin DOMAIN R
    BY <1>5 DEF FrameRules, Quiet
<1>7. "x20" \notin DOMAIN R1
    BY <1>3, <1>6 DEF Put
<1>8. Advance(cie, pc, Ctx(l, a, C, R, st, "running"), ops[1]) = Ctx(l, a, C, R1, st, "running")
    BY <1>2, <1>3, <1>6, Offset
<1>9. Advance(cie, pc, Ctx(l, a, C, R1, st, "running"), ops[2]) = Ctx(l, a, C, R2, st, "running")
    BY <1>2, <1>3, <1>7, Offset
<1>10. RunOps(cie, pc, Ctx(l, a, C, R, st, "running"), ops) = Ctx(l, a, C, R2, st, "running")
    BY <1>2, <1>8, <1>9 DEF RunOps
<1>11. PICK d2 : d2 = d \cup {"save"}
    OBVIOUS
<1>12. "push" \in d2 /\ "save" \in d2 /\ "frame" \in d2 /\ "epilogue" \notin d2 /\ "move" \notin d2 /\ Standing(d2)
    BY <1>4, <1>11 DEF Standing
<1>13. FrameRules(C, R2, d2)
    <2>1. IsRule(R1, "x19", "offset", 0 - 3) /\ IsRule(R2, "x20", "offset", 0 - 4)
        BY <1>3, PutRules
    <2>2. IsRule(R2, "x19", "offset", 0 - 3)
        BY <2>1, <1>3, PutQuiet
    <2>3. 0 - 3 = -3 /\ 0 - 4 = -4
        OBVIOUS
    <2>4. Quiet(C, R2, "sp")
        <3>1. Quiet(C, R, "sp")
            BY <1>5 DEF FrameRules
        <3> QED
            BY <3>1, <1>3, PutQuiet
    <2>5. IsRule(R2, "lr", "offset", -1) /\ IsRule(R2, "fp", "offset", -2)
        <3>1. IsRule(R, "lr", "offset", -1) /\ IsRule(R, "fp", "offset", -2)
            BY <1>4, <1>5 DEF FrameRules
        <3>2. IsRule(R1, "lr", "offset", -1) /\ IsRule(R1, "fp", "offset", -2)
            BY <3>1, <1>3, PutQuiet
        <3> QED
            BY <3>2, <1>3, PutQuiet
    <2>6. DOMAIN C \subseteq DOMAIN R2
        BY <1>3, <1>5, PutRules DEF FrameRules
    <2> QED
        BY <2>1, <2>2, <2>3, <2>4, <2>5, <2>6, <1>12 DEF FrameRules
<1>14. Described(s, C, a, R2, st, m2, d2, B2)
    BY <1>5, <1>12, <1>13 DEF Described, Rules, Remembers, CfaOf, LinkSound
<1> QED
    BY <1>1, <1>10, <1>11, <1>14, EndsWith

LEMMA AllocateRules ==
    ASSUME NEW s, s.body = "frameless", NEW C, NEW a, NEW R, NEW st, NEW m, NEW d, NEW B,
           Described(s, C, a, R, st, m, d, B), FramelessOrder(d), "allocate" \notin d,
           NEW cie, Plain(cie), NEW l \in Int, NEW pc \in Int, l <= pc, NEW B2, NEW m2, m2.lr = m.lr, m2.x9 = m.x9
    PROVE  Ends(s, C, l, RunOps(cie, pc, Ctx(l, a, C, R, st, "running"), <<Cfi("def_cfa_offset", "sp", 2)>>),
                m2, d \cup {"allocate"}, B2)
<1>1. PICK ops : ops = <<Cfi("def_cfa_offset", "sp", 2)>>
    OBVIOUS
<1>2. Len(ops) = 1 /\ ops[1] = Cfi("def_cfa_offset", "sp", 2)
    BY <1>1
<1>3. "push" \notin d /\ "frame" \notin d /\ "epilogue" \notin d /\ Standing(d)
    BY DEF FramelessOrder, Standing
<1>4. a = Cfa("sp", 0) /\ FramelessRules(C, R, d) /\ st = <<>> /\ LinkSound(s, R, m) /\ ("move" \in d => Moved(R))
    BY <1>3 DEF Described, Rules, Remembers, CfaOf
<1>5. [a EXCEPT !.offset = 2] = Cfa("sp", 2)
    BY <1>4 DEF Cfa
<1>6. RunOps(cie, pc, Ctx(l, a, C, R, st, "running"), ops) = Ctx(l, Cfa("sp", 2), C, R, st, "running")
    BY <1>2, <1>5, DefCfaOffset DEF RunOps
<1>7. PICK d2 : d2 = d \cup {"allocate"}
    OBVIOUS
<1>8. /\ "allocate" \in d2 /\ "push" \notin d2 /\ "frame" \notin d2 /\ "epilogue" \notin d2
      /\ ("move" \in d2 <=> "move" \in d) /\ Standing(d2)
    BY <1>3, <1>7 DEF Standing
<1>9. FramelessRules(C, R, d2)
    BY <1>4, <1>8 DEF FramelessRules
<1>10. LinkSound(s, R, m2)
    BY <1>4 DEF LinkSound
<1>11. Described(s, C, Cfa("sp", 2), R, st, m2, d2, B2)
    BY <1>4, <1>8, <1>9, <1>10 DEF Described, Rules, Remembers, CfaOf
<1> QED
    BY <1>1, <1>6, <1>7, <1>11, EndsWith

LEMMA MoveLinkRules ==
    ASSUME NEW s, s.body = "frameless", NEW C, NEW a, NEW R, NEW st, NEW m, NEW d, NEW B,
           Described(s, C, a, R, st, m, d, B), "move" \notin d, "lr" \notin DOMAIN C,
           NEW cie, Plain(cie), NEW l \in Int, NEW pc \in Int, l <= pc,
           NEW B2, Standing(d) \/ B2 \subseteq B, NEW m2, m2.x9 = m.lr
    PROVE  Ends(s, C, l, RunOps(cie, pc, Ctx(l, a, C, R, st, "running"), <<Cfi("register", "lr", "x9")>>),
                m2, d \cup {"move"}, B2)
<1>1. PICK ops : ops = <<Cfi("register", "lr", "x9")>>
    OBVIOUS
<1>2. Len(ops) = 1 /\ ops[1] = Cfi("register", "lr", "x9")
    BY <1>1
<1>3. /\ a = CfaOf(s, d) /\ FramelessRules(C, R, d) /\ LinkSound(s, R, m) /\ Remembers(s, C, st, d, B)
    BY DEF Described, Rules
<1>4. ~Moved(R) /\ "lr" \notin DOMAIN R /\ m.lr = 100
    BY <1>3 DEF FramelessRules, Quiet, LinkSound
<1>5. PICK R1 : R1 = Put(R, "lr", "register", "x9")
    OBVIOUS
<1>6. RunOps(cie, pc, Ctx(l, a, C, R, st, "running"), ops) = Ctx(l, a, C, R1, st, "running")
    BY <1>2, <1>4, <1>5, Register DEF RunOps
<1>7. PICK d2 : d2 = d \cup {"move"}
    OBVIOUS
<1>8. "move" \in d2 /\ (Standing(d2) <=> Standing(d)) /\ CfaOf(s, d2) = CfaOf(s, d)
    BY <1>7 DEF Standing, CfaOf
<1>9. Moved(R1)
    BY <1>5, PutRules DEF Moved
<1>10. FramelessRules(C, R1, d2)
    <2>1. ASSUME NEW x \in {"sp", "fp", "x19", "x20"} PROVE Quiet(C, R1, x)
        <3>1. Quiet(C, R, x) /\ x # "lr"
            BY <1>3 DEF FramelessRules
        <3> QED
            BY <3>1, <1>5, PutQuiet
    <2>2. DOMAIN C \subseteq DOMAIN R1
        BY <1>3, <1>5, PutRules DEF FramelessRules
    <2> QED
        BY <2>1, <2>2, <1>8, <1>9 DEF FramelessRules
<1>11. LinkSound(s, R1, m2)
    BY <1>4, <1>9 DEF LinkSound
<1>12. Remembers(s, C, st, d2, B2)
    <2>1. CASE Standing(d)
        BY <2>1, <1>3, <1>8 DEF Remembers
    <2>2. CASE ~Standing(d)
        <3>1. /\ Len(st) = 1 /\ Rules(s, C, st[1].rules, d) /\ \A x \in B : LinkSound(s, st[1].rules, x)
              /\ st = <<[rules |-> st[1].rules, cfa |-> IF s.body = "frame" THEN Cfa("fp", 2) ELSE Cfa("sp", 2)]>>
            BY <2>2, <1>3 DEF Remembers
        <3>2. Rules(s, C, st[1].rules, d2)
            BY <3>1, <1>8 DEF Rules, FramelessRules
        <3>3. \A x \in B2 : LinkSound(s, st[1].rules, x)
            BY <3>1, <2>2
        <3> QED
            BY <3>1, <3>2, <3>3, <2>2, <1>8 DEF Remembers
    <2> QED
        BY <2>1, <2>2
<1>13. Described(s, C, a, R1, st, m2, d2, B2)
    BY <1>3, <1>8, <1>9, <1>10, <1>11, <1>12 DEF Described, Rules
<1> QED
    BY <1>1, <1>6, <1>7, <1>13, EndsWith

\* The two instructions of every epilogue; the rules are remembered.
LEMMA EpilogueRules ==
    ASSUME NEW s \in TypedShape, NEW C, NEW a, NEW R, NEW st, NEW m, NEW mem, NEW d, NEW B,
           At(s, m, mem, d), Described(s, C, a, R, st, m, d, B), Built(s, d), "epilogue" \notin d,
           NEW cie, Plain(cie), NEW l \in Int, NEW pc \in Int, l <= pc,
           NEW B2, B2 \subseteq {m}, NEW m2, s.body = "frameless" => m2.lr = m.lr /\ m2.x9 = m.x9
    PROVE  /\ Advance(cie, pc, Advance(cie, pc, Ctx(l, a, C, R, st, "running"), Cfi("remember_state", "sp", 0)),
                      Cfi("def_cfa", "sp", 0)) = Ctx(l, Cfa("sp", 0), C, R, <<Entry(R, a)>>, "running")
           /\ DOMAIN C \subseteq DOMAIN R
           /\ Described(s, C, Cfa("sp", 0), R, <<Entry(R, a)>>, m2, d \cup {"epilogue"}, B2)
<1>1. PICK st1 : st1 = <<Entry(R, a)>>
    OBVIOUS
<1>2. "return" \notin d /\ Standing(d)
    <2>1. "return" \notin d
        BY DEF At, FrameOrder, FramelessOrder, TypedShape
    <2> QED
        BY <2>1 DEF Standing
<1>3. a = CfaOf(s, d) /\ Rules(s, C, R, d) /\ LinkSound(s, R, m) /\ st = <<>>
    BY <1>2 DEF Described, Remembers
<1>4. Append(st, Entry(R, a)) = st1
    BY <1>1, <1>3
<1>5. Advance(cie, pc, Ctx(l, a, C, R, st, "running"), Cfi("remember_state", "sp", 0)) = Ctx(l, a, C, R, st1, "running")
    <2>1. Advance(cie, pc, Ctx(l, a, C, R, st, "running"), Cfi("remember_state", "sp", 0)) =
                Ctx(l, a, C, R, Append(st, Entry(R, a)), "running")
        BY RememberState
    <2> QED
        BY <2>1, <1>4
<1>6. Advance(cie, pc, Ctx(l, a, C, R, st1, "running"), Cfi("def_cfa", "sp", 0)) =
            Ctx(l, Cfa("sp", 0), C, R, st1, "running")
    BY DefCfa
<1>7. a = IF s.body = "frame" THEN Cfa("fp", 2) ELSE Cfa("sp", 2)
    <2>1. CASE s.body = "frame"
        <3>1. "frame" \in d
            BY <2>1 DEF At, FrameOrder, Built
        <3> QED
            BY <3>1, <2>1, <1>2, <1>3 DEF CfaOf
    <2>2. CASE s.body = "frameless"
        <3>1. "frame" \notin d /\ "allocate" \in d
            BY <2>2 DEF At, FramelessOrder, Built
        <3> QED
            BY <3>1, <2>2, <1>2, <1>3 DEF CfaOf
    <2> QED
        BY <2>1, <2>2 DEF TypedShape
<1>8. PICK d2 : d2 = d \cup {"epilogue"}
    OBVIOUS
<1>9. /\ "epilogue" \in d2 /\ ~Standing(d2) /\ ("push" \in d2 <=> "push" \in d) /\ ("save" \in d2 <=> "save" \in d)
      /\ ("move" \in d2 <=> "move" \in d)
    BY <1>2, <1>8 DEF Standing
<1>10. Rules(s, C, R, d2)
    BY <1>3, <1>9 DEF Rules, FrameRules, FramelessRules
<1>11. LinkSound(s, R, m2)
    BY <1>3 DEF LinkSound
<1>12. Remembers(s, C, st1, d2, B2)
    <2>1. Len(st1) = 1 /\ st1[1].rules = R
        BY <1>1 DEF Entry
    <2>2. \A x \in B2 : LinkSound(s, R, x)
        BY <1>3
    <2> QED
        BY <2>1, <2>2, <1>1, <1>7, <1>9, <1>10 DEF Remembers, Entry
<1>13. Described(s, C, Cfa("sp", 0), R, st1, m2, d2, B2)
    BY <1>9, <1>10, <1>11, <1>12 DEF Described, CfaOf
<1>14. DOMAIN C \subseteq DOMAIN R
    BY <1>3 DEF Rules, FrameRules, FramelessRules
<1> QED
    BY <1>1, <1>5, <1>6, <1>8, <1>13, <1>14

LEMMA AfterReturnRules ==
    ASSUME NEW s \in TypedShape, NEW C, NEW a, NEW R, NEW st, NEW m, NEW mem, NEW d, NEW B,
           At(s, m, mem, d), Described(s, C, a, R, st, m, d, B), "epilogue" \in d, "return" \notin d,
           NEW cie, NEW l \in Int, NEW pc \in Int, l <= pc, NEW m2 \in B, NEW B2
    PROVE  Ends(s, C, l, RunOps(cie, pc, Ctx(l, a, C, R, st, "running"), <<Cfi("restore_state", "sp", 0)>>),
                m2, d \cup {"return"}, B2)
<1>1. PICK ops : ops = <<Cfi("restore_state", "sp", 0)>>
    OBVIOUS
<1>2. Len(ops) = 1 /\ ops[1] = Cfi("restore_state", "sp", 0)
    BY <1>1
<1>3. ~Standing(d)
    BY DEF Standing
<1>4. PICK R1, a1 : /\ R1 = st[1].rules /\ a1 = IF s.body = "frame" THEN Cfa("fp", 2) ELSE Cfa("sp", 2)
    OBVIOUS
<1>5. st = <<[rules |-> R1, cfa |-> a1]>> /\ Rules(s, C, R1, d) /\ LinkSound(s, R1, m2)
    BY <1>3, <1>4 DEF Described, Remembers
<1>6. RunOps(cie, pc, Ctx(l, a, C, R, st, "running"), ops) = Ctx(l, a1, C, R1, <<>>, "running")
    BY <1>2, <1>5, RestoreStateInstruction DEF RunOps
<1>7. PICK d2 : d2 = d \cup {"return"}
    OBVIOUS
<1>8. /\ Standing(d2) /\ "epilogue" \in d2 /\ \A i : i # "return" => (i \in d2 <=> i \in d)
    BY <1>7 DEF Standing
<1>9. a1 = CfaOf(s, d2)
    <2>1. CASE s.body = "frame"
        <3>1. "frame" \in d2
            BY <2>1, <1>8 DEF At, FrameOrder
        <3> QED
            BY <3>1, <2>1, <1>4, <1>8 DEF CfaOf
    <2>2. CASE s.body = "frameless"
        <3>1. "frame" \notin d2 /\ "allocate" \in d2
            BY <2>2, <1>8 DEF At, FramelessOrder
        <3> QED
            BY <3>1, <2>2, <1>4, <1>8 DEF CfaOf
    <2> QED
        BY <2>1, <2>2 DEF TypedShape
<1>10. Rules(s, C, R1, d2)
    BY <1>5, <1>8 DEF Rules, FrameRules, FramelessRules
<1>11. Described(s, C, a1, R1, <<>>, m2, d2, B2)
    BY <1>5, <1>8, <1>9, <1>10 DEF Described, Remembers
<1> QED
    BY <1>1, <1>6, <1>7, <1>11, EndsWith

\* The body overwrites registers without an instruction of the FDE.
LEMMA ClobberRules ==
    ASSUME NEW s \in TypedShape, NEW C, NEW a, NEW R, NEW st, NEW m, NEW mem, NEW d, NEW B,
           At(s, m, mem, d), Described(s, C, a, R, st, m, d, B), "epilogue" \notin d, NEW r,
           \/ r \in {"x19", "x20"} /\ "save" \in d
           \/ r = "lr" /\ ("frame" \in d \/ "move" \in d)
           \/ r = "x9" /\ "move" \notin d,
           NEW B2
    PROVE  Described(s, C, a, R, st, [m EXCEPT ![r] = Junk], d \cup {"clobber"}, B2)
<1>1. PICK m2, d2 : m2 = [m EXCEPT ![r] = Junk] /\ d2 = d \cup {"clobber"}
    OBVIOUS
<1>2. \A i : i # "clobber" => (i \in d2 <=> i \in d)
    BY <1>1
<1>3. (Standing(d2) <=> Standing(d)) /\ CfaOf(s, d2) = CfaOf(s, d)
    BY <1>2 DEF Standing, CfaOf
<1>4. Standing(d)
    BY DEF Standing
<1>5. /\ a = CfaOf(s, d) /\ Rules(s, C, R, d) /\ LinkSound(s, R, m) /\ st = <<>> /\ ("move" \in d => Moved(R))
    BY <1>4 DEF Described, Remembers
<1>6. Rules(s, C, R, d2)
    BY <1>2, <1>5 DEF Rules, FrameRules, FramelessRules
<1>7. LinkSound(s, R, m2)
    <2> SUFFICES ASSUME s.body = "frameless" PROVE IF Moved(R) THEN m2.x9 = 100 ELSE m2.lr = 100
        BY DEF LinkSound
    <2>1. m \in [CfiReg -> Int] /\ FramelessOrder(d) /\ FramelessRules(C, R, d)
        BY <1>5 DEF At, Rules
    <2>2. IF Moved(R) THEN m.x9 = 100 /\ "move" \in d ELSE m.lr = 100 /\ "move" \notin d
        BY <2>1, <1>5 DEF LinkSound, FramelessRules
    <2>3. (r = "lr" /\ "move" \in d) \/ (r = "x9" /\ "move" \notin d)
        BY <2>1 DEF FramelessOrder
    <2>4. CASE r = "lr" /\ "move" \in d
        <3>1. m2.x9 = m.x9
            BY <2>1, <2>4, <1>1 DEF CfiReg
        <3> QED
            BY <3>1, <2>2, <2>4
    <2>5. CASE r = "x9" /\ "move" \notin d
        <3>1. m2.lr = m.lr
            BY <2>1, <2>5, <1>1 DEF CfiReg
        <3> QED
            BY <3>1, <2>2, <2>5
    <2> QED
        BY <2>3, <2>4, <2>5
<1>8. Described(s, C, a, R, st, m2, d2, B2)
    BY <1>2, <1>3, <1>4, <1>5, <1>6, <1>7 DEF Described, Remembers
<1> QED
    BY <1>1, <1>8

-----------------------------------------------------------------------------
(* The invariant of the program is inductive. *)

LEMMA CfiTyped ==
    ASSUME NEW op \in OpNames, NEW q \in CfiReg, NEW n \in Int \cup CfiReg
    PROVE  Cfi(op, q, n) \in CfiOp
BY DEF CfiOp, Cfi

\* A longer program has the rules of a shorter one.
LEMMA RegsGrow ==
    ASSUME NEW S, NEW s \in Seq(S), NEW t \in Seq(S)
    PROVE  /\ RegsOf(s) \subseteq RegsOf(s \o t)
           /\ \A j \in 1 .. Len(t) : /\ t[j].op \in {"offset", "register", "same_value", "undefined"} =>
                                            t[j].reg \in RegsOf(s \o t)
                                     /\ \E i \in DOMAIN (s \o t) : (s \o t)[i] = t[j]
           /\ \A i \in DOMAIN s : i \in DOMAIN (s \o t) /\ (s \o t)[i] = s[i]
<1>1. PICK u : u = s \o t
    OBVIOUS
<1>2. PICK n \in Nat, k \in Nat : n = Len(s) /\ k = Len(t)
    OBVIOUS
<1>3. /\ DOMAIN u = 1 .. n + k /\ DOMAIN s = 1 .. n
      /\ \A i \in 1 .. n : u[i] = s[i]
      /\ \A j \in 1 .. k : u[n + j] = t[j]
    BY <1>1, <1>2
<1>4. \A i \in DOMAIN s : i \in DOMAIN u /\ u[i] = s[i]
    BY <1>3
<1>5. RegsOf(s) \subseteq RegsOf(u)
    BY <1>4 DEF RegsOf
<1>6. ASSUME NEW j \in 1 .. k
      PROVE  /\ t[j].op \in {"offset", "register", "same_value", "undefined"} => t[j].reg \in RegsOf(u)
             /\ \E i \in DOMAIN u : u[i] = t[j]
    <2>1. PICK i : i = n + j
        OBVIOUS
    <2>2. i \in DOMAIN u /\ u[i] = t[j]
        BY <2>1, <1>3
    <2> QED
        BY <2>2 DEF RegsOf
<1> QED
    BY <1>1, <1>2, <1>4, <1>5, <1>6

\* The same rules lead to the same registers.
LEMMA FindsSame ==
    ASSUME NEW ctx, NEW c, c.cfa = ctx.cfa, c.rules = ctx.rules, NEW m, NEW mem, Finds(ctx, m, mem)
    PROVE  Finds(c, m, mem)
<1>1. execute_unwind_rules(c, m, mem) = execute_unwind_rules(ctx, m, mem)
    BY DEF execute_unwind_rules
<1> QED
    BY <1>1 DEF Finds

\* The snapshots and the machines from before the epilogue, behind a step.
LEMMA StepSnapshots ==
    ASSUME FrameInv, NEW i, NEW m, NEW mem, NEW ops, Step(i, m, mem, ops)
    PROVE  /\ Len(snapshots) \in Nat /\ Len(snapshots') = Len(snapshots) + 1
           /\ \A k \in 1 .. Len(snapshots) : snapshots'[k] = snapshots[k]
           /\ snapshots'[Len(snapshots) + 1] = [machine |-> machine, memory |-> memory, done |-> done]
           /\ "epilogue" \in done => Befores' \subseteq Befores
           /\ "epilogue" \notin done => Befores' \subseteq {machine}
<1> DEFINE now == [machine |-> machine, memory |-> memory, done |-> done]
<1>1. PICK n \in Nat : n = Len(snapshots)
    BY DEF FrameInv
<1>2. snapshots \in Seq(Snapshot) /\ now \in Snapshot /\ snapshots' = Append(snapshots, now) /\ shape' = shape
    BY DEF FrameInv, At, Snapshot, Step
<1>3. now.machine = machine /\ now.done = done
    OBVIOUS
<1> HIDE DEF now
<1>4. /\ Len(snapshots') = n + 1 /\ DOMAIN snapshots = 1 .. n /\ DOMAIN snapshots' = 1 .. n + 1
      /\ \A k \in 1 .. n : snapshots'[k] = snapshots[k]
      /\ snapshots'[n + 1] = now
    BY <1>1, <1>2
<1>5. ASSUME NEW x \in Befores'
      PROVE  ("epilogue" \in done => x \in Befores) /\ ("epilogue" \notin done => x = machine)
    <2>1. PICK k \in DOMAIN snapshots' : BeforeEpilogue(k)' /\ x = snapshots'[k].machine
        BY <1>5 DEF Befores
    <2>2. CASE k = n + 1
        <3>1. "epilogue" \notin done /\ x = machine
            BY <2>1, <2>2, <1>3, <1>4 DEF BeforeEpilogue
        <3> QED
            BY <3>1
    <2>3. CASE k # n + 1
        <3>1. k \in 1 .. n /\ n + 1 \in DOMAIN snapshots' /\ n + 1 > k
            BY <2>3, <1>4
        <3>2. "epilogue" \in done
            BY <3>1, <2>1, <1>3, <1>4 DEF BeforeEpilogue
        <3>3. "epilogue" \notin snapshots[k].done /\ Built(shape, snapshots[k].done) /\ x = snapshots[k].machine
            BY <3>1, <2>1, <1>2, <1>4 DEF BeforeEpilogue
        <3>4. ASSUME NEW j \in DOMAIN snapshots, j > k PROVE "epilogue" \in snapshots[j].done
            <4>1. j \in DOMAIN snapshots' /\ snapshots'[j] = snapshots[j]
                BY <1>4
            <4> QED
                BY <4>1, <3>4, <2>1 DEF BeforeEpilogue
        <3>5. BeforeEpilogue(k)
            BY <3>3, <3>4 DEF BeforeEpilogue
        <3> QED
            BY <3>1, <3>2, <3>3, <3>5, <1>4 DEF Befores
    <2> QED
        BY <2>2, <2>3
<1> QED
    BY <1>1, <1>4, <1>5 DEF now

\* The contexts of the locations that a step leaves behind do not change any
\* more: the first of the new instructions ends the loop.
LEMMA OpsKeep ==
    ASSUME FrameInv, FdeInv, Len(snapshots) < MaxLocation,
           NEW i, NEW m, NEW mem, NEW ops, Step(i, m, mem, ops),
           NEW x \in CfiOp, NEW y \in CfiOp, NEW z \in CfiOp, ops \in {<<x>>, <<x, y>>, <<x, y, z>>},
           ASSUME NEW r \in Fdes, ~Shadowed(r)', NEW a, NEW R, NEW st, NEW pc \in Int,
                  FuncStart + (Len(snapshots) + 1) <= pc,
                  Described(shape, CieRules(r), a, R, st, machine, done, Befores)
           PROVE  LET c == RunOps(r.cie, pc, Ctx(FuncStart + (Len(snapshots) + 1), a, CieRules(r), R, st, "running"), ops)
                  IN  \/ c.status = "thrown" /\ Restores'
                      \/ Ends(shape, CieRules(r), FuncStart + (Len(snapshots) + 1), c, m, done \cup {i}, Befores')
    PROVE  FdeInv'
<1>1. PICK n \in Nat : n = Len(snapshots)
    BY DEF FrameInv
<1>2. /\ Len(snapshots') = n + 1 /\ \A k \in 1 .. n : snapshots'[k] = snapshots[k]
      /\ snapshots'[n + 1] = [machine |-> machine, memory |-> memory, done |-> done]
    BY <1>1, StepSnapshots
<1>3. PICK adv : adv = Cfi("advance_loc", "sp", n + 1 - cfiLocation)
    OBVIOUS
<1>4. cfi \in Seq(CfiOp) /\ cfiLocation \in 0 .. n
    BY <1>1 DEF FdeInv
<1>5. /\ cfi' = cfi \o <<adv>> \o ops /\ cfiLocation' = n + 1
      /\ machine' = m /\ memory' = mem /\ done' = done \cup {i} /\ shape' = shape
    <2>1. ops # <<>>
        OBVIOUS
    <2> QED
        BY <2>1, <1>1, <1>3 DEF Step, Location
<1>6. adv \in CfiOp /\ ops \in Seq(CfiOp) /\ <<adv>> \o ops \in Seq(CfiOp) /\ cfi' = cfi \o (<<adv>> \o ops)
    <2>1. adv \in CfiOp
        <3>1. "sp" \in CfiReg /\ "advance_loc" \in OpNames
            BY DEF CfiReg, OpNames
        <3>2. n + 1 - cfiLocation \in Int \cup CfiReg
            BY <1>4
        <3> QED
            BY <3>1, <3>2, <1>3, CfiTyped
    <2>2. ops \in Seq(CfiOp)
        <3>1. <<x>> \in Seq(CfiOp) /\ <<x, y>> \in Seq(CfiOp) /\ <<x, y, z>> \in Seq(CfiOp)
            OBVIOUS
        <3> QED
            BY <3>1
    <2>3. <<adv>> \in Seq(CfiOp)
        BY <2>1
    <2>4. cfi \o <<adv>> \o ops = cfi \o (<<adv>> \o ops)
        BY <2>2, <2>3, <1>4
    <2> QED
        BY <2>1, <2>2, <2>3, <2>4, <1>5
<1>7. cfi' \in Seq(CfiOp) /\ cfiLocation' \in 0 .. Len(snapshots')
    BY <1>2, <1>4, <1>5, <1>6
<1>8. (\A r : ~Shadowed(r)' => ~Shadowed(r)) /\ (Restores => Restores')
    <2>1. /\ RegsOf(cfi) \subseteq RegsOf(cfi')
          /\ \A j \in DOMAIN cfi : j \in DOMAIN cfi' /\ cfi'[j] = cfi[j]
        BY <1>4, <1>6, RegsGrow
    <2> QED
        BY <2>1 DEF Shadowed, Restores
<1>9. ASSUME NEW r \in Fdes, ~Shadowed(r)', NEW pc \in Pcs, NEW c, c = RunProgram(r, pc, cfi')
      PROVE  \/ c.status = "thrown" /\ Restores'
             \/ RanOn(shape, CieRules(r), n + 1, snapshots', m, done \cup {i}, Befores', pc, c)
    <2>1. PICK ctx : ctx = RunProgram(r, pc, cfi)
        OBVIOUS
    <2>2. Ran(r, pc, ctx)
        BY <2>1, <1>8, <1>9 DEF FdeInv
    <2>3. PICK one : one = Advance(r.cie, pc, ctx, adv)
        OBVIOUS
    <2>4. c = RunOps(r.cie, pc, one, ops)
        <3>1. RunProgram(r, pc, cfi \o <<adv>> \o ops) =
                    RunOps(r.cie, pc, Advance(r.cie, pc, RunProgram(r, pc, cfi), adv), ops)
            BY <1>4, <1>6, StepRuns
        <3> QED
            BY <3>1, <2>1, <2>3, <1>5, <1>9
    <2>6. Plain(r.cie) /\ pc \in Int /\ FuncStart <= pc /\ FuncStart \in Nat
        BY CallFrameAssumption DEF Fdes, StartsPlain, Plain, Pcs
    <2>7. CASE ctx.status = "thrown" /\ Restores
        <3>1. ~Executes(ctx, pc)
            BY <2>7 DEF Executes
        <3>2. c = ctx
            BY <3>1, <2>3, <2>4, AdvanceEnds, OpsEnd
        <3> QED
            BY <3>2, <2>7, <1>8
    <2>8. CASE RanOn(shape, CieRules(r), cfiLocation, snapshots, machine, done, Befores, pc, ctx)
        <3>1. PICK a, R, st, l : a = ctx.cfa /\ R = ctx.rules /\ st = ctx.stack /\ l = ctx.location
            OBVIOUS
        <3>2. ctx = Ctx(l, a, CieRules(r), R, st, "running") /\ l \in Int
            BY <3>1, <2>8 DEF RanOn
        <3>3. pc >= FuncStart + cfiLocation =>
                /\ l = FuncStart + cfiLocation
                /\ Described(shape, CieRules(r), a, R, st, machine, done, Befores)
            BY <3>1, <2>8 DEF RanOn
        <3>4. l = FuncStart + cfiLocation /\ l <= pc => one = Ctx(FuncStart + (n + 1), a, CieRules(r), R, st, "running")
            <4> SUFFICES ASSUME l = FuncStart + cfiLocation, l <= pc
                         PROVE  one = Ctx(FuncStart + (n + 1), a, CieRules(r), R, st, "running")
                OBVIOUS
            <4>1. l \in Int /\ n + 1 - cfiLocation \in Int /\ l + (n + 1 - cfiLocation) = FuncStart + (n + 1)
                BY <2>6, <1>4
            <4>2. one = Ctx(l + (n + 1 - cfiLocation), a, CieRules(r), R, st, "running")
                BY <4>1, <3>2, <2>3, <2>6, <1>3, AdvanceLoc
            <4> QED
                BY <4>1, <4>2
        <3>5. CASE pc >= FuncStart + (n + 1)
            <4>1. pc >= FuncStart + cfiLocation
                BY <3>5, <2>6, <1>4
            <4>2. l = FuncStart + cfiLocation /\ Described(shape, CieRules(r), a, R, st, machine, done, Befores)
                BY <4>1, <3>3
            <4>3. l <= pc
                BY <4>1, <4>2, <2>6, <1>4
            <4>4. one = Ctx(FuncStart + (n + 1), a, CieRules(r), R, st, "running")
                BY <4>2, <4>3, <3>4
            <4>5. FuncStart + (n + 1) <= pc
                BY <3>5, <2>6
            <4>6. \/ c.status = "thrown" /\ Restores'
                  \/ Ends(shape, CieRules(r), FuncStart + (n + 1), c, m, done \cup {i}, Befores')
                BY <4>2, <4>4, <4>5, <2>4, <2>6, <1>1, <1>9
            <4>7. ASSUME Ends(shape, CieRules(r), FuncStart + (n + 1), c, m, done \cup {i}, Befores')
                  PROVE  RanOn(shape, CieRules(r), n + 1, snapshots', m, done \cup {i}, Befores', pc, c)
                <5>1. /\ c = Ctx(FuncStart + (n + 1), c.cfa, CieRules(r), c.rules, c.stack, "running")
                      /\ Described(shape, CieRules(r), c.cfa, c.rules, c.stack, m, done \cup {i}, Befores')
                    BY <4>7 DEF Ends
                <5>2. c.location = FuncStart + (n + 1) /\ c.location \in Int
                    BY <5>1, <2>6 DEF Ctx
                <5>3. ~(pc < FuncStart + Len(snapshots'))
                    BY <3>5, <2>6, <1>2
                <5> QED
                    BY <5>1, <5>2, <5>3 DEF RanOn
            <4> QED
                BY <4>6, <4>7
        <3>6. CASE pc < FuncStart + (n + 1)
            <4>1. PICK k : k = pc - FuncStart + 1
                OBVIOUS
            <4>2. k \in 1 .. n + 1 /\ ~(pc >= FuncStart + (n + 1)) /\ (k = n + 1 => pc >= FuncStart + cfiLocation)
                BY <4>1, <3>6, <2>6, <1>4
            <4>3. Finds(ctx, snapshots'[k].machine, snapshots'[k].memory) /\ (l > pc \/ l = FuncStart + cfiLocation)
                <5>1. CASE k = n + 1
                    <6>1. Described(shape, CieRules(r), ctx.cfa, ctx.rules, st, machine, done, Befores)
                          /\ l = FuncStart + cfiLocation
                        BY <5>1, <4>2, <3>1, <3>3
                    <6>2. shape \in TypedShape /\ At(shape, machine, memory, done)
                        BY DEF FrameInv
                    <6>3. Finds(ctx, machine, memory)
                        BY <6>1, <6>2, DescribedFinds
                    <6> QED
                        BY <6>1, <6>3, <5>1, <1>2
                <5>2. CASE k # n + 1
                    <6>1. k \in 1 .. n /\ pc < FuncStart + n
                        BY <5>2, <4>1, <4>2, <2>6
                    <6>2. Finds(ctx, snapshots[k].machine, snapshots[k].memory) /\ (l > pc \/ l = FuncStart + cfiLocation)
                        BY <6>1, <4>1, <3>1, <2>8, <1>1 DEF RanOn
                    <6> QED
                        BY <6>1, <6>2, <1>2
                <5> QED
                    BY <5>1, <5>2
            <4>4. CASE l > pc
                <5>1. ~Executes(ctx, pc)
                    BY <4>4, <3>1, <3>2, <2>6 DEF Executes
                <5>2. c = ctx
                    BY <5>1, <2>3, <2>4, AdvanceEnds, OpsEnd
                <5> QED
                    BY <5>2, <4>1, <4>2, <4>3, <4>4, <3>1, <3>2 DEF RanOn
            <4>5. CASE l = FuncStart + cfiLocation /\ l <= pc
                <5>1. one = Ctx(FuncStart + (n + 1), a, CieRules(r), R, st, "running")
                    BY <4>5, <3>4
                <5>2. one.location = FuncStart + (n + 1) /\ one.cfa = a /\ one.rules = R /\ one.stack = st
                    BY <5>1 DEF Ctx
                <5>3. ~Executes(one, pc)
                    BY <5>2, <3>6, <2>6 DEF Executes
                <5>4. c = one
                    BY <5>3, <2>4, OpsEnd
                <5>5. Finds(c, snapshots'[k].machine, snapshots'[k].memory)
                    BY <5>2, <5>4, <4>3, <3>1, FindsSame
                <5>6. c = Ctx(c.location, c.cfa, CieRules(r), c.rules, c.stack, "running")
                    BY <5>1, <5>2, <5>4
                <5>7. c.location = FuncStart + (n + 1) /\ c.location \in Int
                    BY <5>2, <5>4, <2>6
                <5> QED
                    BY <5>5, <5>6, <5>7, <4>1, <4>2 DEF RanOn
            <4> QED
                BY <4>3, <4>4, <4>5, <3>2, <2>6
        <3> QED
            BY <3>5, <3>6, <2>6
    <2> QED
        BY <2>2, <2>7, <2>8 DEF Ran
<1>10. ASSUME NEW r \in Fdes, ~Shadowed(r)', NEW pc \in Pcs
       PROVE  Ran(r, pc, RunProgram(r, pc, cfi))'
    <2>1. PICK c : c = RunProgram(r, pc, cfi')
        OBVIOUS
    <2>2. \/ c.status = "thrown" /\ Restores'
          \/ RanOn(shape', CieRules(r), cfiLocation', snapshots', machine', done', Befores', pc, c)
        BY <2>1, <1>5, <1>9, <1>10
    <2> QED
        BY <2>1, <2>2 DEF Ran
<1> QED
    BY <1>7, <1>10 DEF FdeInv

\* A register that the new instructions have a rule for has none in the CIE.
LEMMA StepUnshadowed ==
    ASSUME FrameInv, FdeInv, NEW i, NEW m, NEW mem, NEW ops \in Seq(CfiOp), ops # <<>>, Step(i, m, mem, ops),
           NEW r \in Fdes, ~Shadowed(r)', NEW j \in 1 .. Len(ops),
           ops[j].op \in {"offset", "register", "same_value", "undefined"}
    PROVE  ops[j].reg \notin DOMAIN CieRules(r)
<1>1. cfi \in Seq(CfiOp) /\ cfiLocation \in Int /\ Len(snapshots) \in Nat
    BY DEF FdeInv, FrameInv
<1>2. PICK adv : adv = Cfi("advance_loc", "sp", Len(snapshots) + 1 - cfiLocation)
    OBVIOUS
<1>3. adv \in CfiOp
    <2>1. "sp" \in CfiReg /\ "advance_loc" \in OpNames
        BY DEF CfiReg, OpNames
    <2>2. Len(snapshots) + 1 - cfiLocation \in Int \cup CfiReg
        BY <1>1
    <2> QED
        BY <2>1, <2>2, <1>2, CfiTyped
<1>4. PICK s : s = cfi \o <<adv>>
    OBVIOUS
<1>5. s \in Seq(CfiOp) /\ cfi' = s \o ops
    BY <1>1, <1>2, <1>3, <1>4 DEF Step, Location
<1>6. ops[j].reg \in RegsOf(cfi')
    BY <1>5, RegsGrow
<1>7. ops[j].reg \notin RegsOf(r.cie.instructions)
    BY <1>6 DEF Shadowed
<1>8. DOMAIN CieRules(r) \subseteq RegsOf(r.cie.instructions)
    BY DEF Fdes, StartsPlain, CieRules
<1> QED
    BY <1>7, <1>8

\* New instructions with a restore.
LEMMA StepRestores ==
    ASSUME FrameInv, FdeInv, NEW i, NEW m, NEW mem, NEW ops \in Seq(CfiOp), ops # <<>>, Step(i, m, mem, ops),
           NEW j \in 1 .. Len(ops), ops[j].op = "restore"
    PROVE  Restores'
<1>1. cfi \in Seq(CfiOp) /\ cfiLocation \in Int /\ Len(snapshots) \in Nat
    BY DEF FdeInv, FrameInv
<1>2. PICK adv : adv = Cfi("advance_loc", "sp", Len(snapshots) + 1 - cfiLocation)
    OBVIOUS
<1>3. adv \in CfiOp
    <2>1. "sp" \in CfiReg /\ "advance_loc" \in OpNames
        BY DEF CfiReg, OpNames
    <2>2. Len(snapshots) + 1 - cfiLocation \in Int \cup CfiReg
        BY <1>1
    <2> QED
        BY <2>1, <2>2, <1>2, CfiTyped
<1>4. PICK s : s = cfi \o <<adv>>
    OBVIOUS
<1>5. s \in Seq(CfiOp) /\ cfi' = s \o ops
    BY <1>1, <1>2, <1>3, <1>4 DEF Step, Location
<1>6. \E k \in DOMAIN cfi' : cfi'[k] = ops[j]
    BY <1>5, RegsGrow
<1> QED
    BY <1>6 DEF Restores

\* An instruction without a description.
LEMMA NoOpsKeep ==
    ASSUME FrameInv, FdeInv, NEW i, NEW m, NEW mem, Step(i, m, mem, <<>>),
           ASSUME NEW r \in Fdes, NEW a, NEW R, NEW st,
                  Described(shape, CieRules(r), a, R, st, machine, done, Befores)
           PROVE  Described(shape, CieRules(r), a, R, st, m, done \cup {i}, Befores')
    PROVE  FdeInv'
<1>1. PICK n \in Nat : n = Len(snapshots)
    BY DEF FrameInv
<1>2. /\ Len(snapshots') = n + 1 /\ \A k \in 1 .. n : snapshots'[k] = snapshots[k]
    BY <1>1, StepSnapshots
<1>3. snapshots'[n + 1] = [machine |-> machine, memory |-> memory, done |-> done]
    BY <1>1, StepSnapshots
<1>4. cfi \in Seq(CfiOp) /\ cfiLocation \in 0 .. n
    BY <1>1 DEF FdeInv
<1>5. /\ cfi' = cfi /\ cfiLocation' = cfiLocation
      /\ machine' = m /\ done' = done \cup {i} /\ shape' = shape
    BY DEF Step
<1>6. (\A r : Shadowed(r)' <=> Shadowed(r)) /\ (Restores' <=> Restores)
    BY <1>5 DEF Shadowed, Restores
<1>7. ASSUME NEW r \in Fdes, NEW pc \in Pcs, NEW c,
             RanOn(shape, CieRules(r), cfiLocation, snapshots, machine, done, Befores, pc, c)
      PROVE  RanOn(shape, CieRules(r), cfiLocation, snapshots', m, done \cup {i}, Befores', pc, c)
    <2>1. pc \in Int /\ FuncStart <= pc /\ FuncStart \in Nat
        BY CallFrameAssumption DEF Pcs
    <2>2. PICK k : k = pc - FuncStart + 1
        OBVIOUS
    <2>3. /\ c = Ctx(c.location, c.cfa, CieRules(r), c.rules, c.stack, "running") /\ c.location \in Int
          /\ pc >= FuncStart + cfiLocation =>
                /\ c.location = FuncStart + cfiLocation
                /\ Described(shape, CieRules(r), c.cfa, c.rules, c.stack, machine, done, Befores)
        BY <1>7 DEF RanOn
    <2>4. pc >= FuncStart + cfiLocation => Described(shape, CieRules(r), c.cfa, c.rules, c.stack, m, done \cup {i}, Befores')
        BY <2>3
    <2>5. ASSUME pc < FuncStart + (n + 1)
          PROVE  /\ Finds(c, snapshots'[k].machine, snapshots'[k].memory)
                 /\ c.location > pc \/ c.location = FuncStart + cfiLocation
        <3>1. k \in 1 .. n + 1 /\ (k = n + 1 => pc >= FuncStart + cfiLocation)
            BY <2>1, <2>2, <2>5, <1>4
        <3>2. CASE k = n + 1
            <4>1. /\ c.location = FuncStart + cfiLocation
                  /\ Described(shape, CieRules(r), c.cfa, c.rules, c.stack, machine, done, Befores)
                BY <3>1, <3>2, <2>3
            <4>2. shape \in TypedShape /\ At(shape, machine, memory, done)
                BY DEF FrameInv
            <4>3. Finds(c, machine, memory)
                BY <4>1, <4>2, DescribedFinds
            <4> QED
                BY <4>1, <4>3, <3>2, <1>3
        <3>3. CASE k # n + 1
            <4>1. k \in 1 .. n /\ pc < FuncStart + n
                BY <3>1, <3>3, <2>1, <2>2
            <4>2. /\ Finds(c, snapshots[k].machine, snapshots[k].memory)
                  /\ c.location > pc \/ c.location = FuncStart + cfiLocation
                BY <4>1, <2>2, <1>1, <1>7 DEF RanOn
            <4> QED
                BY <4>1, <4>2, <1>2
        <3> QED
            BY <3>2, <3>3
    <2> QED
        BY <2>2, <2>3, <2>4, <2>5, <1>2 DEF RanOn
<1>8. ASSUME NEW r \in Fdes, ~Shadowed(r)', NEW pc \in Pcs
      PROVE  Ran(r, pc, RunProgram(r, pc, cfi))'
    <2>1. PICK c : c = RunProgram(r, pc, cfi)
        OBVIOUS
    <2>2. Ran(r, pc, c)
        BY <2>1, <1>6, <1>8 DEF FdeInv
    <2>3. \/ c.status = "thrown" /\ Restores'
          \/ RanOn(shape', CieRules(r), cfiLocation', snapshots', machine', done', Befores', pc, c)
        BY <2>2, <1>5, <1>6, <1>7 DEF Ran
    <2> QED
        BY <2>1, <2>3, <1>5 DEF Ran
<1>9. cfi' \in Seq(CfiOp) /\ cfiLocation' \in 0 .. Len(snapshots')
    BY <1>2, <1>4, <1>5
<1> QED
    BY <1>8, <1>9 DEF FdeInv

LEMMA FdeStarts == CallFrameInit => FdeInv
<1> SUFFICES ASSUME CallFrameInit PROVE FdeInv
    OBVIOUS
<1>1. /\ cfi = <<>> /\ cfiLocation = 0 /\ snapshots = <<>> /\ machine = Caller /\ done = {}
      /\ shape \in TypedShape
    BY CallFrameAssumption DEF CallFrameInit
<1>2. cfi \in Seq(CfiOp) /\ cfiLocation \in 0 .. Len(snapshots) /\ Len(snapshots) = 0
    BY <1>1
<1>3. ASSUME NEW r \in Fdes, NEW pc \in Pcs
      PROVE  Ran(r, pc, RunProgram(r, pc, cfi))
    <2>1. PICK c, C : c = fde_context(r) /\ C = CieRules(r)
        OBVIOUS
    <2>2. RunProgram(r, pc, cfi) = c
        BY <2>1, <1>1, RunEmpty
    <2>3. /\ c = Ctx(FuncStart, Cfa("sp", 0), C, C, <<>>, "running")
          /\ \A q \in DOMAIN C : C[q].kind = "same" \/ (q = "x9" /\ C[q].kind = "undefined")
        BY <2>1 DEF Fdes, StartsPlain, CieRules, Ctx, Cfa
    <2>4. c.location = FuncStart /\ c.cfa = Cfa("sp", 0) /\ c.rules = C /\ c.stack = <<>> /\ c.cie_rules = C
        BY <2>3 DEF Ctx
    <2>5. \A q : q # "x9" => Quiet(C, C, q)
        BY <2>3 DEF Quiet
    <2>6. Standing(done) /\ CfaOf(shape, done) = Cfa("sp", 0) /\ machine.lr = 100
        BY <1>1 DEF Standing, CfaOf, Caller
    <2>7. ~Moved(C)
        BY <2>3 DEF Moved, IsRule, Rule
    <2>8. Rules(shape, C, C, done)
        BY <2>5, <2>7, <1>1 DEF Rules, FrameRules, FramelessRules
    <2>9. Described(shape, C, c.cfa, c.rules, c.stack, machine, done, Befores)
        BY <2>4, <2>6, <2>7, <2>8, <1>1 DEF Described, LinkSound, Remembers
    <2>10. FuncStart \in Nat /\ FuncStart <= pc /\ pc \in Int
        BY CallFrameAssumption DEF Pcs
    <2>11. c.location \in Int /\ c.location = FuncStart + cfiLocation /\ ~(pc < FuncStart + Len(snapshots))
        BY <2>4, <2>10, <1>1, <1>2
    <2>12. RanOn(shape, C, cfiLocation, snapshots, machine, done, Befores, pc, c)
        BY <2>3, <2>4, <2>9, <2>11 DEF RanOn
    <2> QED
        BY <2>1, <2>2, <2>12 DEF Ran
<1> QED
    BY <1>2, <1>3 DEF FdeInv

\* One instruction of the program, in the set that the function uses.
LEMMA OpsTyped ==
    /\ Cfi("def_cfa_offset", "sp", 2) \in CfiOp /\ Cfi("offset", "lr", 1) \in CfiOp /\ Cfi("offset", "fp", 2) \in CfiOp
    /\ Cfi("def_cfa", "fp", 2) \in CfiOp /\ Cfi("offset", "x19", 3) \in CfiOp /\ Cfi("offset", "x20", 4) \in CfiOp
    /\ Cfi("register", "lr", "x9") \in CfiOp /\ Cfi("restore_state", "sp", 0) \in CfiOp
    /\ Cfi("remember_state", "sp", 0) \in CfiOp /\ Cfi("def_cfa", "sp", 0) \in CfiOp /\ Cfi("restore", "lr", 0) \in CfiOp
<1>1. \A q \in {"sp", "fp", "lr", "x19", "x20", "x9"} : q \in CfiReg
    BY DEF CfiReg
<1>2. {"def_cfa", "def_cfa_offset", "offset", "register", "remember_state", "restore", "restore_state"} \subseteq OpNames
    BY DEF OpNames
<1>3. "x9" \in Int \cup CfiReg /\ \A n \in Int : n \in Int \cup CfiReg
    BY <1>1
<1>4. /\ Cfi("def_cfa_offset", "sp", 2) \in CfiOp /\ Cfi("offset", "lr", 1) \in CfiOp /\ Cfi("offset", "fp", 2) \in CfiOp
      /\ Cfi("def_cfa", "fp", 2) \in CfiOp /\ Cfi("offset", "x19", 3) \in CfiOp /\ Cfi("offset", "x20", 4) \in CfiOp
    BY <1>1, <1>2, <1>3, CfiTyped
<1>5. /\ Cfi("restore_state", "sp", 0) \in CfiOp
      /\ Cfi("remember_state", "sp", 0) \in CfiOp /\ Cfi("def_cfa", "sp", 0) \in CfiOp /\ Cfi("restore", "lr", 0) \in CfiOp
    BY <1>1, <1>2, <1>3, CfiTyped
<1>6. Cfi("register", "lr", "x9") \in CfiOp
    <2>1. "register" \in OpNames /\ "lr" \in CfiReg
        BY <1>1, <1>2
    <2> QED
        BY <2>1, <1>3, CfiTyped
<1> QED
    BY <1>4, <1>5, <1>6

\* What every step needs of the state, and of the FDE it is described for.
LEMMA StepFacts ==
    ASSUME FrameInv
    PROVE  /\ shape \in TypedShape /\ At(shape, machine, memory, done) /\ FuncStart + (Len(snapshots) + 1) \in Int
           /\ shape.body = "frame" \/ shape.body = "frameless"
           /\ shape.body = "frame" => FrameOrder(done)
           /\ shape.body = "frameless" => FramelessOrder(done)
           /\ \A r \in Fdes : Plain(r.cie)
<1>1. shape \in TypedShape /\ At(shape, machine, memory, done) /\ Len(snapshots) \in Nat
    BY DEF FrameInv
<1>2. shape.body = "frame" \/ shape.body = "frameless"
    BY <1>1 DEF TypedShape
<1>3. \A r \in Fdes : Plain(r.cie)
    BY DEF Fdes, StartsPlain, Plain
<1>4. FuncStart + (Len(snapshots) + 1) \in Int
    BY <1>1, CallFrameAssumption
<1> QED
    BY <1>1, <1>2, <1>3, <1>4 DEF At

(* One lemma per instruction. *)

LEMMA PushFrameKeeps == ASSUME FrameInv, FdeInv, Len(snapshots) < MaxLocation, PushFrame PROVE FdeInv'
<1>1. PICK m, mem, ops : /\ m = [machine EXCEPT !.sp = @ - 2]
                         /\ mem = [memory EXCEPT ![machine.sp - 2] = machine.fp, ![machine.sp - 1] = machine.lr]
                         /\ ops = <<Cfi("def_cfa_offset", "sp", 2), Cfi("offset", "lr", 1), Cfi("offset", "fp", 2)>>
    OBVIOUS
<1>2. shape.body = "frame" /\ done \subseteq {"clobber"}
    BY StepFacts DEF PushFrame, Did, FrameOrder, FramelessOrder
<1>3. Step("push", m, mem, ops)
    BY <1>1 DEF PushFrame
<1>4. Cfi("def_cfa_offset", "sp", 2) \in CfiOp /\ Cfi("offset", "lr", 1) \in CfiOp /\ Cfi("offset", "fp", 2) \in CfiOp
    BY OpsTyped
<1>5. ops \in Seq(CfiOp) /\ ops # <<>> /\ Len(ops) = 3 /\ ops[1] = Cfi("def_cfa_offset", "sp", 2) /\ ops[2] = Cfi("offset", "lr", 1) /\ ops[3] = Cfi("offset", "fp", 2)
    BY <1>1, <1>4
<1>6. ASSUME NEW r \in Fdes, ~Shadowed(r)', NEW a, NEW R, NEW st, NEW pc \in Int,
             FuncStart + (Len(snapshots) + 1) <= pc,
             Described(shape, CieRules(r), a, R, st, machine, done, Befores)
      PROVE  LET c == RunOps(r.cie, pc, Ctx(FuncStart + (Len(snapshots) + 1), a, CieRules(r), R, st, "running"), ops)
             IN  \/ c.status = "thrown" /\ Restores'
                 \/ Ends(shape, CieRules(r), FuncStart + (Len(snapshots) + 1), c, m, done \cup {"push"}, Befores')
    <2>1. Plain(r.cie) /\ FuncStart + (Len(snapshots) + 1) \in Int /\ shape \in TypedShape /\ At(shape, machine, memory, done)
        BY StepFacts
    <2>2. "lr" \notin DOMAIN CieRules(r) /\ "fp" \notin DOMAIN CieRules(r)
        <3>1. ops[2].op \in {"offset", "register", "same_value", "undefined"} /\ ops[2].reg = "lr"
            BY <1>5 DEF Cfi
        <3>2. ops[3].op \in {"offset", "register", "same_value", "undefined"} /\ ops[3].reg = "fp"
            BY <1>5 DEF Cfi
        <3>3. "lr" \notin DOMAIN CieRules(r)
            BY <3>1, <1>3, <1>5, <1>6, StepUnshadowed
        <3>4. "fp" \notin DOMAIN CieRules(r)
            BY <3>2, <1>3, <1>5, <1>6, StepUnshadowed
        <3> QED
            BY <3>3, <3>4
    <2>9. Ends(shape, CieRules(r), FuncStart + (Len(snapshots) + 1),
               RunOps(r.cie, pc, Ctx(FuncStart + (Len(snapshots) + 1), a, CieRules(r), R, st, "running"), <<Cfi("def_cfa_offset", "sp", 2), Cfi("offset", "lr", 1), Cfi("offset", "fp", 2)>>),
               m, done \cup {"push"}, Befores')
        BY <2>1, <2>2, <1>2, <1>6, PushRules
    <2> QED
        BY <2>9, <1>1
<1>7. ops \in {<<Cfi("def_cfa_offset", "sp", 2)>>, <<Cfi("def_cfa_offset", "sp", 2), Cfi("offset", "lr", 1)>>, <<Cfi("def_cfa_offset", "sp", 2), Cfi("offset", "lr", 1), Cfi("offset", "fp", 2)>>}
    BY <1>1
<1> QED
    BY <1>3, <1>4, <1>6, <1>7, OpsKeep

LEMMA SetFrameKeeps == ASSUME FrameInv, FdeInv, Len(snapshots) < MaxLocation, SetFrame PROVE FdeInv'
<1>1. PICK m, mem, ops : /\ m = [machine EXCEPT !.fp = machine.sp]
                         /\ mem = memory
                         /\ ops = <<Cfi("def_cfa", "fp", 2)>>
    OBVIOUS
<1>2. shape.body = "frame" /\ FrameOrder(done) /\ "push" \in done /\ "frame" \notin done
    BY StepFacts DEF SetFrame, Did, FrameOrder, FramelessOrder
<1>3. Step("frame", m, mem, ops)
    BY <1>1 DEF SetFrame
<1>4. Cfi("def_cfa", "fp", 2) \in CfiOp
    BY OpsTyped
<1>5. ops \in Seq(CfiOp) /\ ops # <<>> /\ Len(ops) = 1 /\ ops[1] = Cfi("def_cfa", "fp", 2)
    BY <1>1, <1>4
<1>6. ASSUME NEW r \in Fdes, ~Shadowed(r)', NEW a, NEW R, NEW st, NEW pc \in Int,
             FuncStart + (Len(snapshots) + 1) <= pc,
             Described(shape, CieRules(r), a, R, st, machine, done, Befores)
      PROVE  LET c == RunOps(r.cie, pc, Ctx(FuncStart + (Len(snapshots) + 1), a, CieRules(r), R, st, "running"), ops)
             IN  \/ c.status = "thrown" /\ Restores'
                 \/ Ends(shape, CieRules(r), FuncStart + (Len(snapshots) + 1), c, m, done \cup {"frame"}, Befores')
    <2>1. Plain(r.cie) /\ FuncStart + (Len(snapshots) + 1) \in Int /\ shape \in TypedShape /\ At(shape, machine, memory, done)
        BY StepFacts
    <2>9. Ends(shape, CieRules(r), FuncStart + (Len(snapshots) + 1),
               RunOps(r.cie, pc, Ctx(FuncStart + (Len(snapshots) + 1), a, CieRules(r), R, st, "running"), <<Cfi("def_cfa", "fp", 2)>>),
               m, done \cup {"frame"}, Befores')
        BY <2>1, <1>2, <1>6, SetFrameRules
    <2> QED
        BY <2>9, <1>1
<1>7. ops \in {<<Cfi("def_cfa", "fp", 2)>>, <<Cfi("def_cfa", "fp", 2), Cfi("def_cfa", "fp", 2)>>, <<Cfi("def_cfa", "fp", 2), Cfi("def_cfa", "fp", 2), Cfi("def_cfa", "fp", 2)>>}
    BY <1>1
<1> QED
    BY <1>3, <1>4, <1>6, <1>7, OpsKeep

LEMMA SavePairKeeps == ASSUME FrameInv, FdeInv, Len(snapshots) < MaxLocation, SavePair PROVE FdeInv'
<1>1. PICK m, mem, ops : /\ m = [machine EXCEPT !.sp = @ - 2]
                         /\ mem = [memory EXCEPT ![machine.sp - 2] = machine.x20, ![machine.sp - 1] = machine.x19]
                         /\ ops = <<Cfi("offset", "x19", 3), Cfi("offset", "x20", 4)>>
    OBVIOUS
<1>2. shape.body = "frame" /\ FrameOrder(done) /\ "frame" \in done /\ "save" \notin done
    BY StepFacts DEF SavePair, Did, FrameOrder, FramelessOrder
<1>3. Step("save", m, mem, ops)
    BY <1>1 DEF SavePair
<1>4. Cfi("offset", "x19", 3) \in CfiOp /\ Cfi("offset", "x20", 4) \in CfiOp
    BY OpsTyped
<1>5. ops \in Seq(CfiOp) /\ ops # <<>> /\ Len(ops) = 2 /\ ops[1] = Cfi("offset", "x19", 3) /\ ops[2] = Cfi("offset", "x20", 4)
    BY <1>1, <1>4
<1>6. ASSUME NEW r \in Fdes, ~Shadowed(r)', NEW a, NEW R, NEW st, NEW pc \in Int,
             FuncStart + (Len(snapshots) + 1) <= pc,
             Described(shape, CieRules(r), a, R, st, machine, done, Befores)
      PROVE  LET c == RunOps(r.cie, pc, Ctx(FuncStart + (Len(snapshots) + 1), a, CieRules(r), R, st, "running"), ops)
             IN  \/ c.status = "thrown" /\ Restores'
                 \/ Ends(shape, CieRules(r), FuncStart + (Len(snapshots) + 1), c, m, done \cup {"save"}, Befores')
    <2>1. Plain(r.cie) /\ FuncStart + (Len(snapshots) + 1) \in Int /\ shape \in TypedShape /\ At(shape, machine, memory, done)
        BY StepFacts
    <2>2. "x19" \notin DOMAIN CieRules(r) /\ "x20" \notin DOMAIN CieRules(r)
        <3>1. ops[1].op \in {"offset", "register", "same_value", "undefined"} /\ ops[1].reg = "x19"
            BY <1>5 DEF Cfi
        <3>2. ops[2].op \in {"offset", "register", "same_value", "undefined"} /\ ops[2].reg = "x20"
            BY <1>5 DEF Cfi
        <3>3. "x19" \notin DOMAIN CieRules(r)
            BY <3>1, <1>3, <1>5, <1>6, StepUnshadowed
        <3>4. "x20" \notin DOMAIN CieRules(r)
            BY <3>2, <1>3, <1>5, <1>6, StepUnshadowed
        <3> QED
            BY <3>3, <3>4
    <2>9. Ends(shape, CieRules(r), FuncStart + (Len(snapshots) + 1),
               RunOps(r.cie, pc, Ctx(FuncStart + (Len(snapshots) + 1), a, CieRules(r), R, st, "running"), <<Cfi("offset", "x19", 3), Cfi("offset", "x20", 4)>>),
               m, done \cup {"save"}, Befores')
        BY <2>1, <2>2, <1>2, <1>6, SavePairRules
    <2> QED
        BY <2>9, <1>1
<1>7. ops \in {<<Cfi("offset", "x19", 3)>>, <<Cfi("offset", "x19", 3), Cfi("offset", "x20", 4)>>, <<Cfi("offset", "x19", 3), Cfi("offset", "x20", 4), Cfi("offset", "x20", 4)>>}
    BY <1>1
<1> QED
    BY <1>3, <1>4, <1>6, <1>7, OpsKeep

LEMMA AllocateKeeps == ASSUME FrameInv, FdeInv, Len(snapshots) < MaxLocation, Allocate PROVE FdeInv'
<1>1. PICK m, mem, ops : /\ m = [machine EXCEPT !.sp = @ - 2]
                         /\ mem = memory
                         /\ ops = <<Cfi("def_cfa_offset", "sp", 2)>>
    OBVIOUS
<1>2. shape.body = "frameless" /\ FramelessOrder(done) /\ "allocate" \notin done
    BY StepFacts DEF Allocate, Did, FrameOrder, FramelessOrder
<1>3. Step("allocate", m, mem, ops)
    BY <1>1 DEF Allocate
<1>4. Cfi("def_cfa_offset", "sp", 2) \in CfiOp
    BY OpsTyped
<1>5. ops \in Seq(CfiOp) /\ ops # <<>> /\ Len(ops) = 1 /\ ops[1] = Cfi("def_cfa_offset", "sp", 2)
    BY <1>1, <1>4
<1>6. ASSUME NEW r \in Fdes, ~Shadowed(r)', NEW a, NEW R, NEW st, NEW pc \in Int,
             FuncStart + (Len(snapshots) + 1) <= pc,
             Described(shape, CieRules(r), a, R, st, machine, done, Befores)
      PROVE  LET c == RunOps(r.cie, pc, Ctx(FuncStart + (Len(snapshots) + 1), a, CieRules(r), R, st, "running"), ops)
             IN  \/ c.status = "thrown" /\ Restores'
                 \/ Ends(shape, CieRules(r), FuncStart + (Len(snapshots) + 1), c, m, done \cup {"allocate"}, Befores')
    <2>1. Plain(r.cie) /\ FuncStart + (Len(snapshots) + 1) \in Int /\ shape \in TypedShape /\ At(shape, machine, memory, done)
        BY StepFacts
    <2>3. machine \in [CfiReg -> Int]
        BY <2>1 DEF At
    <2>4. m.lr = machine.lr /\ m.x9 = machine.x9
        BY <2>3, <1>1 DEF CfiReg
    <2>9. Ends(shape, CieRules(r), FuncStart + (Len(snapshots) + 1),
               RunOps(r.cie, pc, Ctx(FuncStart + (Len(snapshots) + 1), a, CieRules(r), R, st, "running"), <<Cfi("def_cfa_offset", "sp", 2)>>),
               m, done \cup {"allocate"}, Befores')
        BY <2>1, <2>4, <1>2, <1>6, AllocateRules
    <2> QED
        BY <2>9, <1>1
<1>7. ops \in {<<Cfi("def_cfa_offset", "sp", 2)>>, <<Cfi("def_cfa_offset", "sp", 2), Cfi("def_cfa_offset", "sp", 2)>>, <<Cfi("def_cfa_offset", "sp", 2), Cfi("def_cfa_offset", "sp", 2), Cfi("def_cfa_offset", "sp", 2)>>}
    BY <1>1
<1> QED
    BY <1>3, <1>4, <1>6, <1>7, OpsKeep

LEMMA MoveLinkKeeps == ASSUME FrameInv, FdeInv, Len(snapshots) < MaxLocation, MoveLink PROVE FdeInv'
<1>1. PICK m, mem, ops : /\ m = [machine EXCEPT !.x9 = machine.lr]
                         /\ mem = memory
                         /\ ops = <<Cfi("register", "lr", "x9")>>
    OBVIOUS
<1>2. shape.body = "frameless" /\ "move" \notin done
    BY StepFacts DEF MoveLink, Did, FrameOrder, FramelessOrder
<1>3. Step("move", m, mem, ops)
    BY <1>1 DEF MoveLink
<1>4. Cfi("register", "lr", "x9") \in CfiOp
    BY OpsTyped
<1>5. ops \in Seq(CfiOp) /\ ops # <<>> /\ Len(ops) = 1 /\ ops[1] = Cfi("register", "lr", "x9")
    BY <1>1, <1>4
<1>6. ASSUME NEW r \in Fdes, ~Shadowed(r)', NEW a, NEW R, NEW st, NEW pc \in Int,
             FuncStart + (Len(snapshots) + 1) <= pc,
             Described(shape, CieRules(r), a, R, st, machine, done, Befores)
      PROVE  LET c == RunOps(r.cie, pc, Ctx(FuncStart + (Len(snapshots) + 1), a, CieRules(r), R, st, "running"), ops)
             IN  \/ c.status = "thrown" /\ Restores'
                 \/ Ends(shape, CieRules(r), FuncStart + (Len(snapshots) + 1), c, m, done \cup {"move"}, Befores')
    <2>1. Plain(r.cie) /\ FuncStart + (Len(snapshots) + 1) \in Int /\ shape \in TypedShape /\ At(shape, machine, memory, done)
        BY StepFacts
    <2>2. "lr" \notin DOMAIN CieRules(r)
        <3>1. ops[1].op \in {"offset", "register", "same_value", "undefined"} /\ ops[1].reg = "lr"
            BY <1>5 DEF Cfi
        <3>2. "lr" \notin DOMAIN CieRules(r)
            BY <3>1, <1>3, <1>5, <1>6, StepUnshadowed
        <3> QED
            BY <3>2
    <2>3. machine \in [CfiReg -> Int]
        BY <2>1 DEF At
    <2>4. m.x9 = machine.lr
        BY <2>3, <1>1 DEF CfiReg
    <2>5. Standing(done) \/ Befores' \subseteq Befores
        BY <1>3, StepSnapshots DEF Standing
    <2>9. Ends(shape, CieRules(r), FuncStart + (Len(snapshots) + 1),
               RunOps(r.cie, pc, Ctx(FuncStart + (Len(snapshots) + 1), a, CieRules(r), R, st, "running"), <<Cfi("register", "lr", "x9")>>),
               m, done \cup {"move"}, Befores')
        BY <2>1, <2>2, <2>4, <2>5, <1>2, <1>6, MoveLinkRules
    <2> QED
        BY <2>9, <1>1
<1>7. ops \in {<<Cfi("register", "lr", "x9")>>, <<Cfi("register", "lr", "x9"), Cfi("register", "lr", "x9")>>, <<Cfi("register", "lr", "x9"), Cfi("register", "lr", "x9"), Cfi("register", "lr", "x9")>>}
    BY <1>1
<1> QED
    BY <1>3, <1>4, <1>6, <1>7, OpsKeep

LEMMA AfterReturnKeeps == ASSUME FrameInv, FdeInv, Len(snapshots) < MaxLocation, AfterReturn PROVE FdeInv'
<1>1. "epilogue" \in done /\ "return" \notin done
    BY DEF AfterReturn, Did
<1>2. PICK k \in DOMAIN snapshots : BeforeEpilogue(k)
    BY <1>1 DEF FrameInv
<1> DEFINE K == {j \in DOMAIN snapshots : "epilogue" \notin snapshots[j].done}
<1>3. k \in K /\ K \subseteq Nat /\ \A j \in K : k >= j
    <2>1. DOMAIN snapshots \subseteq Nat
        BY DEF FrameInv
    <2> QED
        BY <2>1, <1>2 DEF BeforeEpilogue
<1> HIDE DEF K
<1>4. Max(K) = k
    <2>1. Max(K) \in K /\ \A j \in K : Max(K) >= j
        BY <1>3, Zenon DEF Max
    <2> QED
        BY <2>1, <1>3
<1>5. PICK m, mem, ops : m = snapshots[k].machine /\ mem = snapshots[k].memory /\ ops = <<Cfi("restore_state", "sp", 0)>>
    OBVIOUS
<1>6. m \in Befores
    BY <1>2, <1>5 DEF Befores
<1>7. Step("return", snapshots[Max(K)].machine, snapshots[Max(K)].memory, <<Cfi("restore_state", "sp", 0)>>)
    BY DEF AfterReturn, K
<1>8. Step("return", m, mem, ops)
    BY <1>4, <1>5, <1>7
<1>9. ASSUME NEW r \in Fdes, ~Shadowed(r)', NEW a, NEW R, NEW st, NEW pc \in Int,
             FuncStart + (Len(snapshots) + 1) <= pc,
             Described(shape, CieRules(r), a, R, st, machine, done, Befores)
      PROVE  LET c == RunOps(r.cie, pc, Ctx(FuncStart + (Len(snapshots) + 1), a, CieRules(r), R, st, "running"), ops)
             IN  \/ c.status = "thrown" /\ Restores'
                 \/ Ends(shape, CieRules(r), FuncStart + (Len(snapshots) + 1), c, m, done \cup {"return"}, Befores')
    <2>1. FuncStart + (Len(snapshots) + 1) \in Int /\ shape \in TypedShape /\ At(shape, machine, memory, done)
        BY StepFacts
    <2>2. Ends(shape, CieRules(r), FuncStart + (Len(snapshots) + 1),
               RunOps(r.cie, pc, Ctx(FuncStart + (Len(snapshots) + 1), a, CieRules(r), R, st, "running"),
                      <<Cfi("restore_state", "sp", 0)>>),
               m, done \cup {"return"}, Befores')
        BY <2>1, <1>1, <1>6, <1>9, AfterReturnRules
    <2> QED
        BY <2>2, <1>5
<1>10. PICK x : x = Cfi("restore_state", "sp", 0)
    OBVIOUS
<1>11. x \in CfiOp /\ ops \in {<<x>>, <<x, x>>, <<x, x, x>>}
    BY <1>5, <1>10, OpsTyped
<1> QED
    BY <1>8, <1>9, <1>11, OpsKeep

LEMMA ClobberKeeps ==
    ASSUME FrameInv, FdeInv, NEW q \in {"x19", "x20", "lr", "x9"}, Clobber(q)
    PROVE  FdeInv'
<1>1. /\ \/ q \in {"x19", "x20"} /\ "save" \in done
         \/ q = "lr" /\ ("frame" \in done \/ "move" \in done)
         \/ q = "x9" /\ "move" \notin done
      /\ "epilogue" \notin done
    BY DEF Clobber, Did
<1>2. Step("clobber", [machine EXCEPT ![q] = Junk], memory, <<>>)
    BY DEF Clobber
<1>3. shape \in TypedShape /\ At(shape, machine, memory, done)
    BY StepFacts
<1>4. ASSUME NEW r \in Fdes, NEW a, NEW R, NEW st,
             Described(shape, CieRules(r), a, R, st, machine, done, Befores)
      PROVE  Described(shape, CieRules(r), a, R, st, [machine EXCEPT ![q] = Junk], done \cup {"clobber"}, Befores')
    BY <1>1, <1>3, <1>4, ClobberRules
<1> QED
    BY <1>2, <1>4, NoOpsKeep

LEMMA AppendThird ==
    ASSUME NEW S, NEW x \in S, NEW y \in S, NEW z \in S
    PROVE  Append(<<x, y>>, z) = <<x, y, z>>
<1>1. PICK t, s, n : t = <<x, y, z>> /\ s = <<x, y>> /\ n = Len(s)
    OBVIOUS
<1>2. t \in Seq(S) /\ Len(t) = 3 /\ t[1] = x /\ t[2] = y /\ t[3] = z
    BY <1>1
<1>3. s \in Seq(S) /\ n = 2 /\ s[1] = x /\ s[2] = y
    BY <1>1
<1>4. PICK v : v = Append(s, z)
    OBVIOUS
<1>5. v \in Seq(S) /\ Len(v) = n + 1 /\ v[n + 1] = z /\ \A i \in 1 .. n : v[i] = s[i]
    BY <1>1, <1>3, <1>4
<1>6. Len(v) = 3 /\ v[1] = x /\ v[2] = y /\ v[3] = z
    BY <1>3, <1>5
<1>7. \A i \in 1 .. 3 : v[i] = t[i]
    BY <1>2, <1>6
<1>8. v = t
    BY <1>2, <1>5, <1>6, <1>7
<1> QED
    BY <1>1, <1>4, <1>8

LEMMA EpilogueKeeps ==
    ASSUME FrameInv, FdeInv, Len(snapshots) < MaxLocation, NEW restores \in BOOLEAN, Epilogue(restores)
    PROVE  FdeInv'
<1>1. PICK x, y, z : x = Cfi("remember_state", "sp", 0) /\ y = Cfi("def_cfa", "sp", 0) /\ z = Cfi("restore", "lr", 0)
    OBVIOUS
<1>2. x \in CfiOp /\ y \in CfiOp /\ z \in CfiOp
    BY <1>1, OpsTyped
<1>3. ("save" \in done \/ "allocate" \in done) /\ "epilogue" \notin done
    BY DEF Epilogue, Did
<1>4. /\ shape \in TypedShape /\ At(shape, machine, memory, done) /\ FuncStart + (Len(snapshots) + 1) \in Int
      /\ shape.body = "frame" \/ shape.body = "frameless"
    BY StepFacts
<1>5. Built(shape, done)
    BY <1>3, <1>4, StepFacts DEF Built, FrameOrder, FramelessOrder
<1> DEFINE back == IF shape.body = "frameless" THEN [machine EXCEPT !.sp = @ + 2]
                   ELSE [machine EXCEPT !.sp = machine.fp + 2, !.x19 = memory[machine.fp - 1],
                                        !.x20 = memory[machine.fp - 2], !.lr = memory[machine.fp + 1],
                                        !.fp = memory[machine.fp]]
<1>6. PICK ops : ops = <<x, y>> \o (IF restores THEN <<z>> ELSE <<>>)
    OBVIOUS
<1>7. Step("epilogue", back, memory, ops)
    BY <1>1, <1>6, Zenon DEF Epilogue
<1>8. ops = <<x, y>> \/ ops = <<x, y, z>>
    <2>1. <<x, y>> \o <<z>> = <<x, y, z>> /\ <<x, y>> \o <<>> = <<x, y>>
        <3>1. PICK s : s = <<x, y>>
            OBVIOUS
        <3>2. s \in Seq(CfiOp)
            BY <3>1, <1>2
        <3>5. Append(s, z) = <<x, y, z>>
            BY <3>1, <1>2, AppendThird
        <3>3. s \o <<z>> = Append(s, z)
            BY <3>2, <1>2, Appends
        <3>4. s \o <<>> = s
            BY <3>2
        <3> QED
            BY <3>1, <3>3, <3>4, <3>5
    <2> QED
        BY <2>1, <1>6
<1>9. shape.body = "frameless" => back.lr = machine.lr /\ back.x9 = machine.x9
    <2>1. machine \in [CfiReg -> Int]
        BY <1>4 DEF At
    <2> QED
        BY <2>1 DEF CfiReg
<1> HIDE DEF back
<1>10. Befores' \subseteq {machine}
    BY <1>3, <1>7, StepSnapshots
<1>11. ASSUME NEW r \in Fdes, ~Shadowed(r)', NEW a, NEW R, NEW st, NEW pc \in Int,
             FuncStart + (Len(snapshots) + 1) <= pc,
             Described(shape, CieRules(r), a, R, st, machine, done, Befores)
      PROVE  LET c == RunOps(r.cie, pc, Ctx(FuncStart + (Len(snapshots) + 1), a, CieRules(r), R, st, "running"), ops)
             IN  \/ c.status = "thrown" /\ Restores'
                 \/ Ends(shape, CieRules(r), FuncStart + (Len(snapshots) + 1), c, back, done \cup {"epilogue"}, Befores')
    <2>1. PICK l, C, c0 : /\ l = FuncStart + (Len(snapshots) + 1) /\ C = CieRules(r)
                          /\ c0 = Ctx(l, a, C, R, st, "running") /\ l \in Int
        BY <1>4
    <2>2. Plain(r.cie)
        BY StepFacts
    <2>3. PICK R1, st1 : /\ Advance(r.cie, pc, Advance(r.cie, pc, c0, x), y) = Ctx(l, Cfa("sp", 0), C, R1, st1, "running")
                         /\ DOMAIN C \subseteq DOMAIN R1
                         /\ Described(shape, C, Cfa("sp", 0), R1, st1, back, done \cup {"epilogue"}, Befores')
        <3>1. Described(shape, C, a, R, st, machine, done, Befores) /\ l <= pc /\ l \in Int
            BY <2>1, <1>11
        <3>2. /\ Advance(r.cie, pc, Advance(r.cie, pc, Ctx(l, a, C, R, st, "running"), Cfi("remember_state", "sp", 0)),
                         Cfi("def_cfa", "sp", 0)) = Ctx(l, Cfa("sp", 0), C, R, <<Entry(R, a)>>, "running")
              /\ DOMAIN C \subseteq DOMAIN R
              /\ Described(shape, C, Cfa("sp", 0), R, <<Entry(R, a)>>, back, done \cup {"epilogue"}, Befores')
            BY <3>1, <2>2, <1>3, <1>4, <1>5, <1>9, <1>10, EpilogueRules
        <3> QED
            BY <3>2, <2>1, <1>1
    <2>4. PICK c2 : c2 = Ctx(l, Cfa("sp", 0), C, R1, st1, "running")
        OBVIOUS
    <2>5. Ends(shape, C, l, c2, back, done \cup {"epilogue"}, Befores')
        BY <2>3, <2>4, EndsWith
    <2>6. CASE ops = <<x, y>>
        <3>1. Len(ops) = 2 /\ ops[1] = x /\ ops[2] = y
            BY <2>6
        <3>2. RunOps(r.cie, pc, c0, ops) = c2
            BY <3>1, <2>3, <2>4 DEF RunOps
        <3> QED
            BY <3>2, <2>1, <2>5
    <2>7. CASE ops = <<x, y, z>>
        <3>1. Len(ops) = 3 /\ ops[1] = x /\ ops[2] = y /\ ops[3] = z
            BY <2>7
        <3>2. RunOps(r.cie, pc, c0, ops) = Advance(r.cie, pc, c2, z)
            BY <3>1, <2>3, <2>4 DEF RunOps
        <3>3. CASE "lr" \in DOMAIN C
            <4>1. Advance(r.cie, pc, c2, z) = c2
                BY <3>3, <2>1, <2>3, <2>4, <1>1, <1>11, RestoreInstruction
            <4> QED
                BY <4>1, <3>2, <2>1, <2>5
        <3>4. CASE "lr" \notin DOMAIN C
            <4>1. Advance(r.cie, pc, c2, z).status = "thrown"
                BY <3>4, <2>1, <2>3, <2>4, <1>1, <1>11, RestoreInstruction
            <4>2. z.op = "restore"
                BY <1>1 DEF Cfi
            <4>3. ops \in Seq(CfiOp) /\ ops # <<>> /\ 3 \in 1 .. Len(ops)
                BY <3>1, <2>7, <1>2
            <4>4. Restores'
                BY <4>2, <4>3, <3>1, <1>7, StepRestores
            <4> QED
                BY <4>1, <4>4, <3>2, <2>1
        <3> QED
            BY <3>3, <3>4
    <2> QED
        BY <2>6, <2>7, <1>8
<1>12. ops \in {<<x>>, <<x, y>>, <<x, y, z>>}
    BY <1>8
<1> QED
    BY <1>2, <1>7, <1>11, <1>12, OpsKeep

LEMMA FdeKeeps == FrameInv /\ FdeInv /\ CallFrameNext => FdeInv'
<1> SUFFICES ASSUME FrameInv, FdeInv, CallFrameNext PROVE FdeInv'
    OBVIOUS
<1>1. Len(snapshots) < MaxLocation
    BY DEF CallFrameNext, Location
<1> QED
    BY <1>1, PushFrameKeeps, SetFrameKeeps, SavePairKeeps, AllocateKeeps, MoveLinkKeeps, AfterReturnKeeps, ClobberKeeps,
       EpilogueKeeps DEF CallFrameNext

-----------------------------------------------------------------------------
(* Unwinding by the call frame instructions. *)

\* The record that the scan ends with.
LEMMA RecordFound ==
    ASSUME NEW pc, FindFde(pc) # 0
    PROVE  /\ FindFde(pc) \in 1 .. Len(shape.eh)
           /\ LET r == shape.eh[FindFde(pc)]
              IN  r.kind = "fde" /\ parse_cie(r.cie) => InFde(r, pc)
<1> DEFINE Ends1(r) == \/ r.kind \in {"zero", "bad"}
                       \/ r.kind = "fde" /\ (~parse_cie(r.cie) \/ InFde(r, pc))
           I == {i \in 1 .. Len(shape.eh) : Ends1(shape.eh[i])}
<1>1. FindFde(pc) = IF I # {} THEN Min(I) ELSE 0
    BY Zenon DEF FindFde, SelectInSeq
<1>2. I # {} /\ FindFde(pc) = Min(I)
    BY <1>1
<1>3. I \subseteq Nat
    OBVIOUS
<1>4. \A i \in I : i \in 1 .. Len(shape.eh) /\ Ends1(shape.eh[i])
    OBVIOUS
<1> HIDE DEF I
<1>5. PICK i \in I : \A j \in I : i <= j
    BY <1>2, <1>3, Least
<1>6. Min(I) \in I
    BY <1>5, Zenon DEF Min
<1>7. FindFde(pc) \in 1 .. Len(shape.eh) /\ Ends1(shape.eh[FindFde(pc)])
    BY <1>2, <1>4, <1>6
<1>8. PICK r : r = shape.eh[FindFde(pc)]
    OBVIOUS
<1>9. r.kind = "fde" /\ parse_cie(r.cie) => InFde(r, pc)
    BY <1>7, <1>8
<1> QED
    BY <1>7, <1>8, <1>9

LEMMA FdeInvUnwinds ==
    ASSUME FdesPlain, shape \in FrameShapes, FrameInv, FdeInv
    PROVE  FdeUnwinds
<1> SUFFICES ASSUME NEW l \in 0 .. Len(snapshots) - 1,
                    FdeOf(l) # 0, shape.eh[FdeOf(l)].kind = "fde",
                    parse_cie(shape.eh[FdeOf(l)].cie), ~Shadowed(shape.eh[FdeOf(l)])
             PROVE  \/ SeesCaller(UnwindAt(l)) /\ UnwindAt(l).x19 = Caller.x19 /\ UnwindAt(l).x20 = Caller.x20
                    \/ UnwindAt(l) = Thrown /\ Restores
    BY Zenon DEF FdeUnwinds
<1>1. PICK n \in Nat : n = Len(snapshots) /\ n <= MaxLocation
    BY DEF FrameInv
<1>2. FuncStart \in Nat /\ MaxLocation \in Nat /\ l \in 0 .. MaxLocation /\ l < n
    BY <1>1, CallFrameAssumption
<1>3. PICK pc, r, m, mem : /\ pc = FuncStart + l /\ r = shape.eh[FdeOf(l)]
                           /\ m = snapshots[l + 1].machine /\ mem = snapshots[l + 1].memory
    OBVIOUS
<1>4. ~UsesCompact(pc, compact_entry(pc)) /\ FdeOf(l) = FindFde(pc)
    BY <1>3 DEF FdeOf
<1>5. FindFde(pc) \in 1 .. Len(shape.eh) /\ InFde(r, pc) /\ r = shape.eh[FindFde(pc)]
    BY <1>3, <1>4, RecordFound
<1>6. r \in FdeRecords
    BY <1>5 DEF FdeRecords
<1>7. r \in Fdes
    BY <1>2, <1>3, <1>5, <1>6 DEF FdesPlain, Fdes
<1>8. pc \in Pcs /\ pc < FuncStart + n /\ pc - FuncStart + 1 = l + 1
    BY <1>2, <1>3 DEF Pcs
<1>9. PICK ctx : ctx = RunProgram(r, pc, cfi)
    OBVIOUS
<1>10. Ran(r, pc, ctx)
    BY <1>3, <1>7, <1>8, <1>9 DEF FdeInv
<1>11. UnwindAt(l) = RunFde(r, pc, m, mem)
    <2>1. UnwindAt(l) = unwind_frame(pc, m, mem)
        BY <1>3 DEF UnwindAt
    <2>2. FindFde(pc) # 0 /\ r.kind = "fde" /\ parse_cie(r.cie)
        BY <1>3, <1>4
    <2>3. unwind_frame(pc, m, mem) = RunFde(r, pc, m, mem)
        BY <2>2, <1>4, <1>5 DEF unwind_frame
    <2> QED
        BY <2>1, <2>3
<1>12. CASE ctx.status = "thrown" /\ Restores
    <2>1. RunFde(r, pc, m, mem) = Thrown
        BY <1>9, <1>12 DEF RunFde
    <2> QED
        BY <2>1, <1>11, <1>12
<1>13. CASE RanOn(shape, CieRules(r), cfiLocation, snapshots, machine, done, Befores, pc, ctx)
    <2>1. ctx.status = "running" /\ Finds(ctx, m, mem)
        <3>1. ctx = Ctx(ctx.location, ctx.cfa, CieRules(r), ctx.rules, ctx.stack, "running") /\ Finds(ctx, m, mem)
            BY <1>1, <1>3, <1>8, <1>13 DEF RanOn
        <3> QED
            BY <3>1 DEF Ctx
    <2>2. PICK u : u = execute_unwind_rules(ctx, m, mem)
        OBVIOUS
    <2>3. u.sp = 10 /\ u.fp = 16 /\ u.lr = 100 /\ u.x19 = 200 /\ u.x20 = 210
        BY <2>1, <2>2 DEF Finds
    <2>4. RunFde(r, pc, m, mem) = With(u, u.lr)
        BY <2>1, <2>2, <1>9 DEF RunFde
    <2>5. PICK w : w = With(u, u.lr)
        OBVIOUS
    <2>6. w.sp = 10 /\ w.fp = 16 /\ w.pc = 100 /\ w.x19 = 200 /\ w.x20 = 210
        BY <2>3, <2>5 DEF With, CfiReg
    <2>7. SeesCaller(w) /\ w.x19 = Caller.x19 /\ w.x20 = Caller.x20
        BY <2>6 DEF SeesCaller, Caller
    <2> QED
        BY <2>4, <2>5, <2>7, <1>11
<1> QED
    BY <1>10, <1>12, <1>13 DEF Ran

\* From every location of a function with a readable FDE the caller's frame, its
\* pc and its saved registers are found, or the instructions restore a register
\* that the CIE has no rule for and the unwinder reports an error: for every
\* function that the instructions of CallFrameNext build, of any length, with any
\* FDEs of the function in .eh_frame that start from a CIE as compilers write it.
THEOREM FdesFindCaller == ASSUME FdesPlain PROVE CallFrameSpec => []FdeUnwinds
<1> DEFINE Inv == shape \in FrameShapes /\ FrameInv /\ FdeInv
<1>1. CallFrameInit => Inv
    BY FrameStarts, FdeStarts DEF CallFrameInit
<1>2. Inv /\ [CallFrameNext]_frameVars => Inv'
    <2> SUFFICES ASSUME Inv, [CallFrameNext]_frameVars PROVE Inv'
        OBVIOUS
    <2>1. CASE CallFrameNext
        <3>1. FrameInv' /\ FdeInv'
            BY <2>1, FrameKeeps, FdeKeeps
        <3>2. shape' = shape
            BY <2>1, Zenon DEF CallFrameNext, PushFrame, SetFrame, SavePair, Allocate, MoveLink, AfterReturn, Clobber, Epilogue, Step
        <3> QED
            BY <3>1, <3>2
    <2>2. CASE UNCHANGED frameVars
        <3>1. UNCHANGED <<shape, machine, memory, cfi, cfiLocation, done, snapshots>>
            BY <2>2 DEF frameVars
        <3>2. FrameInv' /\ shape' \in FrameShapes
            BY <3>1 DEF FrameInv, FirstInv, BeforeEpilogue
        <3>3. (\A r : Shadowed(r)' <=> Shadowed(r)) /\ (Restores' <=> Restores) /\ Befores' = Befores
            BY <3>1 DEF Shadowed, Restores, Befores, BeforeEpilogue
        <3>4. FdeInv'
            BY <3>1, <3>3 DEF FdeInv, Ran
        <3> QED
            BY <3>2, <3>4
    <2> QED
        BY <2>1, <2>2
<1>3. Inv => FdeUnwinds
    BY FdeInvUnwinds
<1> QED
    BY <1>1, <1>2, <1>3, PTL DEF CallFrameSpec
=============================================================================
