-------------------------- MODULE BreakpointsProofs -------------------------
(***************************************************************************)
(* Proofs about Breakpoints: for every set of breakpoints, images and      *)
(* addresses, any number of hardware registers, and every order in which   *)
(* the loops visit their elements and throw.                               *)
(***************************************************************************)
EXTENDS Breakpoints, TLAPS

\* The pointers of a breakpoint, whether or not their sites still exist.
Has(b) == own[b] \cup dangling[b]
Queued == {job.queue[i] : i \in 1 .. Len(job.queue)}
Resolved(b) == Wanted(b, elves, Has(b)) \subseteq Has(b)

\* A breakpoint is listed once; one that is not listed has no site that can be
\* hit and no pointers, but for those its constructor has made so far.
ListInv ==
    /\ \A i, j \in DOMAIN order : order[i] = order[j] => i = j
    /\ is_enabled \subseteq Listed
    /\ \A b \in Breakpoint \ Listed : /\ dangling[b] = {}
                                      /\ own[b] = {} \/ (job.op = "construct" /\ job.b = b)

\* What each loop is about: elements that are there to be visited.
JobInv ==
    /\ job.op = "construct" => job.b \in Breakpoint \ Listed
    /\ job.op \in {"enable", "disable", "delete"} => job.b \in Listed /\ job.left \subseteq Has(job.b)
    /\ job.op = "delete" => own[job.b] \subseteq job.left
    /\ job.op = "reload" => /\ Queued \subseteq Listed
                            /\ job.b \in Listed \/ (job.b = "none" /\ job.left = {})
    /\ phase \in {"freed", "undefined"} => job.op = "none"
    /\ phase = "running" => job.op \in {"none", "reload"}

\* Every pointer leads to a site of its own breakpoint, and only a delete that
\* is under way, or one that was aborted, leaves pointers to destroyed sites.
PointerInv ==
    /\ \A b \in Breakpoint : \A a \in own[b] : site[a].parent = b
    /\ "delete" \notin failed =>
         /\ phase # "undefined"
         /\ phase # "freed" =>
              \A b \in Breakpoint : dangling[b] # {} => /\ job.op = "delete" /\ job.b = b
                                                         /\ dangling[b] \cap job.left = {}

\* What is left of a loop over targets is what its breakpoint still lacks, and
\* a reload that has not thrown leaves no breakpoint out.
ResolveInv ==
    /\ job.op # "reload" /\ "reload" \notin failed => \A b \in Listed : Resolved(b)
    /\ job.op = "reload" =>
         \A b \in Listed : \/ b \in Queued
                           \/ Resolved(b)
                           \/ b = job.b /\ Wanted(b, elves, Has(b)) \subseteq Has(b) \cup job.left
    /\ job.op = "construct" => Wanted(job.b, elves, Has(job.b)) \subseteq Has(job.b) \cup job.left

BreakpointsInv ==
    TypeOK /\ ListInv /\ JobInv /\ PointerInv /\ ResolveInv /\ HitHasBreakpoint /\ TrapHasSite

-----------------------------------------------------------------------------
(* Sequences. *)

Elements(s) == {s[i] : i \in 1 .. Len(s)}
Once(s) == \A i, j \in DOMAIN s : s[i] = s[j] => i = j

\* breakpoints_ after a push.
LEMMA ElementsAppend ==
    ASSUME NEW S, NEW s \in Seq(S), NEW x \in S
    PROVE  /\ Append(s, x) \in Seq(S)
           /\ Elements(Append(s, x)) = Elements(s) \cup {x}
           /\ Once(s) /\ x \notin Elements(s) => Once(Append(s, x))
  BY DEF Elements, Once

\* The queue of a reload after a step to the next breakpoint.
LEMMA ElementsTail ==
    ASSUME NEW S, NEW s \in Seq(S), s # <<>>
    PROVE  /\ Head(s) \in S /\ Tail(s) \in Seq(S)
           /\ Elements(s) = Elements(Tail(s)) \cup {Head(s)}
<1>1. Head(s) = s[1] /\ Len(s) \in Nat /\ Len(s) > 0 /\ Head(s) \in S /\ Tail(s) \in Seq(S)
  OBVIOUS
<1>2. Len(Tail(s)) = Len(s) - 1 /\ \A i \in 1 .. Len(s) - 1 : Tail(s)[i] = s[i + 1]
  BY <1>1
<1>3. ASSUME NEW i \in 1 .. Len(s) PROVE s[i] \in Elements(Tail(s)) \cup {Head(s)}
  <2>1. CASE i = 1
    BY <2>1, <1>1
  <2>2. CASE i # 1
    <3>1. i - 1 \in 1 .. Len(s) - 1 /\ Tail(s)[i - 1] = s[i]
      BY <2>2, <1>1, <1>2
    <3> QED
      BY <3>1, <1>2 DEF Elements
  <2> QED
    BY <2>1, <2>2
<1>4. ASSUME NEW i \in 1 .. Len(Tail(s)) PROVE Tail(s)[i] \in Elements(s)
  <2>1. i + 1 \in 1 .. Len(s) /\ Tail(s)[i] = s[i + 1]
    BY <1>1, <1>2
  <2> QED
    BY <2>1 DEF Elements
<1>5. Head(s) \in Elements(s)
  <2>1. 1 \in 1 .. Len(s)
    BY <1>1
  <2> QED
    BY <1>1, <2>1 DEF Elements
<1> QED
  BY <1>1, <1>3, <1>4, <1>5 DEF Elements

\* breakpoints_ after an erase.
LEMMA ElementsErase ==
    ASSUME NEW S, NEW s \in Seq(S), NEW k \in DOMAIN s
    PROVE  /\ Erase(s, k) \in Seq(S)
           /\ Once(s) => Once(Erase(s, k)) /\ Elements(Erase(s, k)) = Elements(s) \ {s[k]}
<1> DEFINE e == Erase(s, k)
<1>1. Len(s) \in Nat /\ k \in 1 .. Len(s) /\ DOMAIN s = 1 .. Len(s)
  OBVIOUS
<1>2. e \in Seq(S) /\ Len(e) = Len(s) - 1 /\ DOMAIN e = 1 .. Len(s) - 1
  BY <1>1 DEF Erase
<1>3. \A i \in 1 .. Len(s) - 1 : e[i] = IF i < k THEN s[i] ELSE s[i + 1]
  <2> DEFINE p == SubSeq(s, 1, k - 1)
             q == SubSeq(s, k + 1, Len(s))
  <2>1. Len(p) = k - 1 /\ Len(q) = Len(s) - k /\ p \in Seq(S) /\ q \in Seq(S)
    BY <1>1
  <2>2. \A i \in 1 .. k - 1 : p[i] = s[i]
    BY <1>1
  <2>3. \A i \in 1 .. Len(s) - k : q[i] = s[k + i]
    BY <1>1
  <2>4. e = p \o q
    BY DEF Erase
  <2> HIDE DEF p, q, e
  <2>5. SUFFICES ASSUME NEW i \in 1 .. Len(s) - 1 PROVE e[i] = IF i < k THEN s[i] ELSE s[i + 1]
    OBVIOUS
  <2>6. CASE i < k
    BY <2>6, <1>1, <2>1, <2>2, <2>4
  <2>7. CASE ~(i < k)
    <3>1. e[i] = q[i - (k - 1)] /\ i - (k - 1) \in 1 .. Len(s) - k
      BY <2>7, <1>1, <2>1, <2>4
    <3> QED
      BY <3>1, <2>7, <1>1, <2>3
  <2> QED
    BY <2>6, <2>7
<1> HIDE DEF e
<1>4. ASSUME Once(s) PROVE Once(e)
  <2>1. SUFFICES ASSUME NEW i \in DOMAIN e, NEW j \in DOMAIN e, e[i] = e[j] PROVE i = j
    BY DEF Once
  <2> DEFINE at(n) == IF n < k THEN n ELSE n + 1
  <2>2. at(i) \in DOMAIN s /\ at(j) \in DOMAIN s /\ (at(i) = at(j) => i = j)
    BY <1>1, <1>2
  <2>3. e[i] = s[at(i)] /\ e[j] = s[at(j)]
    BY <1>1, <1>2, <1>3
  <2> QED
    BY <1>4, <2>1, <2>2, <2>3 DEF Once
<1>5. ASSUME Once(s) PROVE Elements(e) = Elements(s) \ {s[k]}
  <2>1. ASSUME NEW i \in 1 .. Len(e) PROVE e[i] \in Elements(s) \ {s[k]}
    <3>1. CASE i < k
      BY <3>1, <1>1, <1>2, <1>3, <1>5 DEF Elements, Once
    <3>2. CASE ~(i < k)
      <4>1. i + 1 \in 1 .. Len(s) /\ e[i] = s[i + 1] /\ i + 1 # k
        BY <3>2, <1>1, <1>2, <1>3
      <4> QED
        BY <4>1, <1>1, <1>5 DEF Elements, Once
    <3> QED
      BY <3>1, <3>2
  <2>2. ASSUME NEW i \in 1 .. Len(s), s[i] # s[k] PROVE s[i] \in Elements(e)
    <3>1. CASE i < k
      <4>1. i \in 1 .. Len(e) /\ e[i] = s[i]
        BY <3>1, <1>1, <1>2, <1>3
      <4> QED
        BY <4>1 DEF Elements
    <3>2. CASE i > k
      <4>1. i - 1 \in 1 .. Len(e) /\ e[i - 1] = s[i]
        BY <3>2, <1>1, <1>2, <1>3
      <4> QED
        BY <4>1 DEF Elements
    <3> QED
      BY <3>1, <3>2, <2>2, <1>1
  <2> QED
    BY <2>1, <2>2 DEF Elements
<1> QED
  BY <1>2, <1>4, <1>5 DEF e

-----------------------------------------------------------------------------
(* Types. *)

LEMMA JobTyped ==
    ASSUME NEW op \in Ops, NEW b \in Breakpoint \cup {"none"}, NEW left \in SUBSET Address,
           NEW queue \in Seq(Breakpoint)
    PROVE  Job(op, b, left, queue) \in
             [op : Ops, b : Breakpoint \cup {"none"}, left : SUBSET Address, queue : Seq(Breakpoint)]
  BY DEF Job

LEMMA WantedTyped ==
    ASSUME NEW b \in Breakpoint, NEW known, NEW has
    PROVE  Wanted(b, known, has) \subseteq Address
  BY BreakpointsAssumption DEF Wanted, Found

\* No step makes a value of another kind.
LEMMA TypeStep ==
    ASSUME TypeOK, JobInv, [Next]_vars
    PROVE  TypeOK'
<1> USE DEF TypeOK
<1>1. Idle \in [op : Ops, b : Breakpoint \cup {"none"}, left : SUBSET Address, queue : Seq(Breakpoint)]
  <2>1. <<>> \in Seq(Breakpoint) /\ "none" \in Ops
    BY DEF Ops
  <2> QED
    BY <2>1, JobTyped DEF Idle
<1>2. ASSUME Throw PROVE phase' = "prompt" /\ job' = Idle /\ failed' \subseteq Ops
  <2>1. job.op \in Ops
    OBVIOUS
  <2> QED
    BY <1>2, <2>1, Zenon DEF Throw
<1>3. ASSUME NEW a \in Address, Advance(a)
      PROVE  /\ phase' = phase /\ failed' = failed
             /\ job' \in [op : Ops, b : Breakpoint \cup {"none"}, left : SUBSET Address, queue : Seq(Breakpoint)]
  BY <1>3 DEF Advance
<1>4. CASE Resolve
  <2>1. PICK a \in job.left : Skip(a) \/ Refuse(a) \/ CreateSite(a)
    BY <1>4 DEF Resolve
  <2>2. a \in Address
    BY <2>1
  <2>3. CASE Skip(a)
    BY <2>2, <2>3, <1>3 DEF Skip
  <2>4. CASE Refuse(a)
    <3>1. site' \in [Address -> SiteType]
      BY <2>4 DEF Refuse, SiteType
    <3> QED
      BY <3>1, <2>4, <1>1, <1>2 DEF Refuse
  <2>5. CASE CreateSite(a)
    <3> DEFINE on == job.b \in is_enabled /\ CanEnable(a, job.b \in IsHardware)
    <3>1. site' = [site EXCEPT ![a] = [parent |-> job.b, enabled |-> on, hardware |-> job.b \in IsHardware]]
      BY <2>5, Zenon DEF CreateSite
    <3>2. on \in BOOLEAN /\ (job.b \in IsHardware) \in BOOLEAN
      OBVIOUS
    <3> HIDE DEF on
    <3>3. [parent |-> job.b, enabled |-> on, hardware |-> job.b \in IsHardware] \in SiteType
      BY <3>2 DEF SiteType
    <3>4. site' \in [Address -> SiteType]
      BY <3>1, <3>3, <2>2
    <3>5. own' = [own EXCEPT ![job.b] = @ \cup {a}] /\ traps' \in {traps, traps \cup {a}}
      BY <2>5, Zenon DEF CreateSite
    <3>6. UNCHANGED <<mapped, elves, order, is_enabled, dangling>> /\ (Throw \/ Advance(a))
      BY <2>5 DEF CreateSite
    <3> QED
      BY <3>4, <3>5, <3>6, <1>1, <1>2, <1>3, <2>2
  <2> QED
    BY <2>1, <2>3, <2>4, <2>5
<1>5. CASE \E b \in Breakpoint : Create(b) \/ Enable(b) \/ Disable(b) \/ Delete(b)
  <2>1. PICK b \in Breakpoint : Create(b) \/ Enable(b) \/ Disable(b) \/ Delete(b)
    BY <1>5
  <2>2. <<>> \in Seq(Breakpoint) /\ own[b] \cup dangling[b] \subseteq Address /\ Wanted(b, elves, {}) \subseteq Address
    BY WantedTyped
  <2>3. PICK op \in {"construct", "enable", "disable", "delete"}, left \in SUBSET Address :
            job' = Job(op, b, left, <<>>)
    BY <2>1, <2>2 DEF Create, Enable, Disable, Delete
  <2>4. job' \in [op : Ops, b : Breakpoint \cup {"none"}, left : SUBSET Address, queue : Seq(Breakpoint)]
    BY <2>2, <2>3, JobTyped DEF Ops
  <2>5. /\ UNCHANGED <<phase, mapped, elves, order, own, dangling, site, traps, failed>>
        /\ is_enabled' \in {is_enabled, is_enabled \cup {b}, is_enabled \ {b}}
    BY <2>1, Zenon DEF Create, Enable, Disable, Delete
  <2> QED
    BY <2>4, <2>5
<1>6. ASSUME NEW a \in Address, NEW v \in BOOLEAN, site' = [site EXCEPT ![a].enabled = v]
      PROVE  site' \in [Address -> SiteType]
  BY <1>6 DEF SiteType
<1>7. CASE \E b \in Breakpoint, a \in Address : ToggleSite(b, a)
  <2>1. PICK b \in Breakpoint, a \in Address : ToggleSite(b, a)
    BY <1>7
  <2>2. UNCHANGED <<phase, job, mapped, elves, order, is_enabled, own, dangling, failed>>
    BY <2>1 DEF ToggleSite
  <2>3. (SetEnabled(a) \/ SetDisabled(a))
    BY <2>1 DEF ToggleSite
  <2> QED
    BY <2>2, <2>3, <1>6 DEF SetEnabled, SetDisabled
<1>8. CASE Resume
  BY <1>8 DEF Resume
<1>9. CASE Constructed
  <2>1. job.b \in Breakpoint /\ job.op = "construct" /\ <<>> \in Seq(Breakpoint)
    BY <1>9 DEF Constructed, JobInv
  <2>2. own[job.b] \subseteq Address
    BY <2>1
  <2>3. Append(order, job.b) \in Seq(Breakpoint)
    BY <2>1
  <2>4. Job("enable", job.b, own[job.b], <<>>) \in
          [op : Ops, b : Breakpoint \cup {"none"}, left : SUBSET Address, queue : Seq(Breakpoint)]
    BY <2>1, <2>2, JobTyped DEF Ops
  <2> QED
    BY <1>9, <2>1, <2>3, <2>4 DEF Constructed
<1>10. CASE EnableSites \/ DisableSites
  <2>1. PICK a \in job.left :
          \/ Undefined
          \/ /\ UNCHANGED <<mapped, elves, order, is_enabled, own, dangling>>
             /\ \/ Advance(a) /\ UNCHANGED <<site, traps>>
                \/ SetEnabled(a) /\ Advance(a)
                \/ SetDisabled(a) /\ Advance(a)
                \/ Throw /\ UNCHANGED <<site, traps>>
    BY <1>10, Zenon DEF EnableSites, DisableSites
  <2>2. a \in Address
    BY <2>1
  <2>3. CASE Undefined
    BY <2>3, <1>1 DEF Undefined
  <2>4. CASE /\ UNCHANGED <<mapped, elves, order, is_enabled, own, dangling, site, traps>>
             /\ Advance(a) \/ Throw
    BY <2>2, <2>4, <1>1, <1>2, <1>3
  <2>5. CASE /\ UNCHANGED <<mapped, elves, order, is_enabled, own, dangling>>
             /\ Advance(a)
             /\ SetEnabled(a) \/ SetDisabled(a)
    BY <2>2, <2>5, <1>3, <1>6 DEF SetEnabled, SetDisabled
  <2> QED
    BY <2>1, <2>3, <2>4, <2>5
<1>11. CASE DeleteSites
  <2>1. PICK a \in job.left :
          \/ Undefined
          \/ UNCHANGED <<mapped, elves, order, is_enabled>> /\ RemoveSite(a) /\ Advance(a)
          \/ UNCHANGED <<mapped, elves, order, is_enabled, own, dangling, site, traps>> /\ Throw
    BY <1>11, Zenon DEF DeleteSites
  <2>2. a \in Address
    BY <2>1
  <2>3. CASE Undefined
    BY <2>3, <1>1 DEF Undefined
  <2>4. CASE UNCHANGED <<mapped, elves, order, is_enabled>> /\ RemoveSite(a) /\ Advance(a)
    <3>1. NoSite \in SiteType
      BY DEF NoSite, SiteType
    <3>2. /\ site' = [site EXCEPT ![a] = NoSite]
          /\ traps' \in {traps, traps \ {a}}
          /\ own' = [b \in Breakpoint |-> own[b] \ {a}]
          /\ dangling' = [b \in Breakpoint |-> dangling[b] \cup ({a} \cap own[b])]
      BY <2>4, Zenon DEF RemoveSite
    <3>3. site' \in [Address -> SiteType]
      BY <3>1, <3>2
    <3> QED
      BY <2>2, <2>4, <3>2, <3>3, <1>3
  <2>5. CASE UNCHANGED <<mapped, elves, order, is_enabled, own, dangling, site, traps>> /\ Throw
    BY <2>5, <1>1, <1>2
  <2> QED
    BY <2>1, <2>3, <2>4, <2>5
<1>12. CASE Deleted
  <2>1. PICK i \in DOMAIN order : order' = Erase(order, i)
    BY <1>12, Zenon DEF Deleted
  <2>2. order' \in Seq(Breakpoint)
    BY <2>1, ElementsErase
  <2> QED
    BY <1>12, <1>1, <2>2 DEF Deleted
<1>20. CASE UsesFreed
  BY <1>20, <1>1 DEF UsesFreed
<1>13. CASE Finish
  BY <1>13, <1>1 DEF Finish
<1>14. CASE NextBreakpoint
  <2>1. job.queue # <<>> /\ job.queue \in Seq(Breakpoint)
    BY <1>14 DEF NextBreakpoint
  <2>2. Head(job.queue) \in Breakpoint /\ Tail(job.queue) \in Seq(Breakpoint)
    BY <2>1, ElementsTail
  <2>3. PICK left \in SUBSET Address : job' = Job("reload", Head(job.queue), left, Tail(job.queue))
    BY <1>14, <2>2, WantedTyped DEF NextBreakpoint
  <2>4. job' \in [op : Ops, b : Breakpoint \cup {"none"}, left : SUBSET Address, queue : Seq(Breakpoint)]
    BY <2>2, <2>3, JobTyped DEF Ops
  <2> QED
    BY <1>14, <2>4 DEF NextBreakpoint
<1>15. CASE Reloaded
  BY <1>15, <1>1 DEF Reloaded
<1>16. ASSUME NEW images, images \subseteq Image, Reload(images)
       PROVE  /\ elves' \subseteq Image
              /\ job' \in [op : Ops, b : Breakpoint \cup {"none"}, left : SUBSET Address, queue : Seq(Breakpoint)]
  BY <1>16, JobTyped DEF Reload, Ops
<1>17. CASE Stop
  BY <1>16, <1>17 DEF Stop
<1>18. CASE \E i \in Image : Load(i) \/ Unload(i)
  BY <1>16, <1>18, BreakpointsAssumption DEF Load, Unload
<1>19. CASE UNCHANGED vars
  BY <1>19 DEF vars
<1> QED
  BY <1>4, <1>5, <1>7, <1>8, <1>9, <1>10, <1>11, <1>12, <1>13, <1>14, <1>15, <1>17, <1>18, <1>19, <1>20
     DEF Next, User, Debugger

-----------------------------------------------------------------------------
(* The loops over targets: resolve(). *)

LEMMA AdvanceFields ==
    ASSUME TypeOK, NEW a, Advance(a)
    PROVE  /\ job'.op = job.op /\ job'.b = job.b /\ job'.queue = job.queue /\ job'.left = job.left \ {a}
           /\ UNCHANGED <<phase, failed>> /\ Queued' = Queued
<1>1. job'.op = job.op /\ job'.b = job.b /\ job'.queue = job.queue /\ job'.left = job.left \ {a}
  BY DEF TypeOK, Advance
<1> QED
  BY <1>1 DEF Advance, Queued

LEMMA ThrowFields ==
    ASSUME Throw
    PROVE  /\ job'.op = "none" /\ phase' = "prompt"
           /\ failed \subseteq failed' /\ job.op \in failed'
  BY DEF Throw, Idle, Job

LEMMA SkipStep ==
    ASSUME BreakpointsInv, TypeOK', job.op \in {"construct", "reload"}, NEW a \in job.left, Skip(a)
    PROVE  BreakpointsInv'
<1> USE DEF BreakpointsInv
<1>1. /\ UNCHANGED <<phase, mapped, elves, order, is_enabled, own, dangling, site, traps, failed>>
      /\ a \in Has(job.b)
  BY DEF Skip, Advance, Has
<1>2. job.b \in Breakpoint
  BY DEF JobInv, TypeOK, Listed
<1>3. /\ job'.op = job.op /\ job'.b = job.b /\ job'.queue = job.queue /\ job'.left = job.left \ {a}
      /\ Queued' = Queued
  BY AdvanceFields DEF Skip
<1>4. Listed' = Listed
  BY <1>1 DEF Listed
<1>5. \A b : Has(b)' = Has(b) /\ Resolved(b)' = Resolved(b)
  BY <1>1 DEF Has, Resolved, Wanted, Found
<1>6. ListInv'
  BY <1>1, <1>3, <1>4 DEF ListInv
<1>7. JobInv'
  BY <1>1, <1>3, <1>4, <1>5 DEF JobInv
<1>8. PointerInv'
  BY <1>1, <1>3 DEF PointerInv
<1>9. ResolveInv'
  BY <1>1, <1>3, <1>4, <1>5 DEF ResolveInv, Resolved, Wanted, Found
<1>10. HitHasBreakpoint' /\ TrapHasSite'
  BY <1>1, <1>4 DEF HitHasBreakpoint, TrapHasSite, Exists
<1> QED
  BY <1>6, <1>7, <1>8, <1>9, <1>10

LEMMA RefuseStep ==
    ASSUME BreakpointsInv, TypeOK', job.op \in {"construct", "reload"}, NEW a \in job.left, Refuse(a)
    PROVE  BreakpointsInv'
<1> USE DEF BreakpointsInv
<1> DEFINE lost == IF job.op = "construct" THEN own[job.b] ELSE {}
<1>1. /\ UNCHANGED <<mapped, elves, order, is_enabled, dangling, traps>>
      /\ own' = [own EXCEPT ![job.b] = @ \ lost]
      /\ site' = [s \in Address |-> IF s \in lost THEN [site[s] EXCEPT !.parent = Destroyed] ELSE site[s]]
      /\ job'.op = "none" /\ phase' = "prompt"
      /\ failed \subseteq failed' /\ job.op \in failed'
  BY ThrowFields DEF Refuse
<1>2. job.b \in Breakpoint /\ (job.op = "construct" => job.b \notin Listed)
  BY DEF JobInv, TypeOK, Listed
<1>4. Listed' = Listed
  BY <1>1 DEF Listed
<1>5. /\ \A b \in Breakpoint : own'[b] = IF b = job.b THEN own[b] \ lost ELSE own[b]
      /\ \A b \in Listed : own'[b] = own[b]
  <2>1. \A b \in Breakpoint : own'[b] = IF b = job.b THEN own[b] \ lost ELSE own[b]
    BY <1>1, <1>2 DEF TypeOK
  <2>2. \A b \in Listed : b \in Breakpoint /\ (b = job.b => lost = {})
    BY <1>2 DEF TypeOK, Listed
  <2> QED
    BY <2>1, <2>2
<1>3. \A s \in lost : s \in Address /\ site[s].parent = job.b
  BY <1>2 DEF PointerInv, TypeOK
<1>6. \A s \in Address : /\ site'[s].enabled = site[s].enabled
                         /\ s \notin lost => site'[s] = site[s]
                         /\ s \in lost => site'[s].parent = Destroyed
  BY <1>1 DEF TypeOK, SiteType
<1>7. ListInv'
  BY <1>1, <1>2, <1>4, <1>5 DEF ListInv
<1>8. JobInv'
  BY <1>1 DEF JobInv
<1>9. PointerInv'
  <2>1. \A b \in Breakpoint : \A s \in own'[b] : site'[s].parent = b
    <3>1. SUFFICES ASSUME NEW b \in Breakpoint, NEW s \in own'[b] PROVE site'[s].parent = b
      OBVIOUS
    <3>2. s \in own[b] /\ s \in Address /\ site[s].parent = b
      BY <1>5, <3>1 DEF PointerInv, TypeOK
    <3>3. s \notin lost
      BY <3>1, <3>2, <1>2, <1>3, <1>5
    <3> QED
      BY <3>2, <3>3, <1>6
  <2> QED
    BY <2>1, <1>1 DEF PointerInv, JobInv
<1>10. ResolveInv'
  <2>1. \A b \in Listed : Has(b)' = Has(b) /\ Resolved(b)' = Resolved(b)
    BY <1>1, <1>5 DEF Has, Resolved, Wanted, Found
  <2> QED
    BY <2>1, <1>1, <1>4 DEF ResolveInv
<1>11. HitHasBreakpoint'
  <2>1. \A s \in lost : ~site[s].enabled
    <3>1. SUFFICES ASSUME NEW s \in lost, site[s].enabled PROVE FALSE
      OBVIOUS
    <3>2. Exists(s) /\ job.b \notin Listed
      BY <1>2, <1>3, BreakpointsAssumption DEF Exists
    <3> QED
      BY <3>1, <3>2, <1>3 DEF HitHasBreakpoint
  <2> QED
    BY <2>1, <1>4, <1>5, <1>6 DEF HitHasBreakpoint, Exists, TypeOK, SiteType
<1>12. TrapHasSite'
  <2>1. \A s \in Address : Exists(s) <=> Exists(s)'
    BY <1>2, <1>3, <1>6, BreakpointsAssumption DEF Exists, Destroyed
  <2> QED
    BY <2>1, <1>1, <1>6 DEF TrapHasSite, TypeOK
<1> QED
  BY <1>7, <1>8, <1>9, <1>10, <1>11, <1>12

LEMMA CreateSiteStep ==
    ASSUME BreakpointsInv, TypeOK', job.op \in {"construct", "reload"}, NEW a \in job.left,
           a \notin own[job.b] \cup dangling[job.b], CreateSite(a)
    PROVE  BreakpointsInv'
<1> USE DEF BreakpointsInv
<1> DEFINE on == job.b \in is_enabled /\ CanEnable(a, job.b \in IsHardware)
<1>1. /\ UNCHANGED <<mapped, elves, order, is_enabled, dangling>>
      /\ own' = [own EXCEPT ![job.b] = @ \cup {a}]
      /\ site' = [site EXCEPT ![a] = [parent |-> job.b, enabled |-> on, hardware |-> job.b \in IsHardware]]
      /\ traps' = IF on THEN traps \cup {a} ELSE traps
      /\ ~Exists(a)
  BY DEF CreateSite
<1>2. (job.b \in is_enabled /\ Throw) \/ Advance(a)
  BY DEF CreateSite
<1>3. job.b \in Breakpoint /\ a \in Address /\ (job.op = "construct" => job.b \notin Listed)
  BY DEF JobInv, TypeOK, Listed
<1>4. Listed' = Listed
  BY <1>1 DEF Listed
<1>5. job.b \in is_enabled => job.op = "reload" /\ job.b \in Listed
  BY <1>3 DEF ListInv
<1>6. /\ site'[a].parent = job.b /\ site'[a].enabled = on
      /\ \A s \in Address \ {a} : site'[s] = site[s]
  BY <1>1, <1>3 DEF TypeOK
<1>7. \A b \in Breakpoint : own'[b] = IF b = job.b THEN own[b] \cup {a} ELSE own[b]
  BY <1>1, <1>3 DEF TypeOK
<1>8. Exists(a)'
  BY <1>6, <1>3, BreakpointsAssumption DEF Exists
<1>9. \A b \in Breakpoint : a \notin own[b]
  BY <1>1, <1>3, BreakpointsAssumption DEF PointerInv, Exists
<1>10. \/ job.b \in is_enabled /\ job'.op = "none" /\ phase' = "prompt" /\ failed \subseteq failed' /\ job.op \in failed'
       \/ /\ job'.op = job.op /\ job'.b = job.b /\ job'.queue = job.queue /\ job'.left = job.left \ {a}
          /\ UNCHANGED <<phase, failed>> /\ Queued' = Queued
  BY <1>2, AdvanceFields, ThrowFields
<1> HIDE DEF on
<1>11. ListInv'
  <2>1. SUFFICES ASSUME NEW b \in Breakpoint \ Listed
                 PROVE  /\ dangling'[b] = {}
                        /\ own'[b] = {} \/ (job'.op = "construct" /\ job'.b = b)
    BY <1>1, <1>4 DEF ListInv
  <2>2. CASE b = job.b
    <3>1. job.op = "construct" /\ job.b \notin is_enabled /\ dangling[b] = {}
      BY <2>1, <2>2, <1>5 DEF JobInv, ListInv
    <3> QED
      BY <3>1, <2>2, <1>1, <1>10
  <2>3. CASE b # job.b
    BY <2>1, <2>3, <1>1, <1>7 DEF ListInv
  <2> QED
    BY <2>2, <2>3
<1>12. JobInv'
  BY <1>3, <1>4, <1>10 DEF JobInv
<1>13. PointerInv'
  <2>1. \A b \in Breakpoint : \A s \in own'[b] : site'[s].parent = b
    BY <1>3, <1>6, <1>7, <1>9 DEF PointerInv, TypeOK
  <2> QED
    BY <2>1, <1>1, <1>10 DEF PointerInv, JobInv
<1>14. ResolveInv'
  <2>1. \A b \in Breakpoint \ {job.b} : Has(b)' = Has(b) /\ Resolved(b)' = Resolved(b)
    BY <1>1, <1>7 DEF Has, Resolved, Wanted, Found
  <2>2. \A b \in {job.b} : Has(b)' = Has(b) \cup {a}
    BY <1>1, <1>3, <1>7 DEF Has
  <2>3. \A b \in {job.b} : Wanted(b, elves', Has(b)') \subseteq Wanted(b, elves, Has(b))
    BY <2>2, <1>1 DEF Wanted, Found
  <2>4. Listed \subseteq Breakpoint
    BY DEF Listed, TypeOK
  <2>5. CASE job'.op = "none"
    <3>1. job.op = "reload" /\ "reload" \in failed'
      BY <2>5, <1>5, <1>10
    <3> QED
      BY <3>1, <2>5 DEF ResolveInv
  <2>6. CASE /\ job'.op = job.op /\ job'.b = job.b /\ job'.left = job.left \ {a}
             /\ UNCHANGED failed /\ Queued' = Queued
    <3>1. CASE job.op = "construct"
      <4>1. \A b \in Listed : Resolved(b)' = Resolved(b)
        BY <3>1, <2>1, <2>4, <1>3
      <4>2. Wanted(job.b, elves, Has(job.b)) \subseteq Has(job.b) \cup job.left
        BY <3>1 DEF ResolveInv
      <4>3. \A b \in {job.b} : Wanted(b, elves', Has(b)') \subseteq Has(b)' \cup job'.left
        BY <4>2, <2>2, <2>3, <2>6
      <4>4. (Wanted(job.b, elves, Has(job.b)) \subseteq Has(job.b) \cup job.left)'
        BY <4>3, <2>6
      <4> QED
        BY <3>1, <2>6, <4>1, <4>4, <1>4 DEF ResolveInv
    <3>2. CASE job.op = "reload"
      <4>1. SUFFICES ASSUME NEW b \in Listed
                     PROVE  \/ b \in Queued
                            \/ Resolved(b)'
                            \/ b = job.b /\ Wanted(b, elves', Has(b)') \subseteq Has(b)' \cup job'.left
        BY <3>2, <2>6, <1>4 DEF ResolveInv
      <4>2. CASE b = job.b
        BY <4>2, <4>1, <3>2, <2>2, <2>3, <2>6 DEF ResolveInv, Resolved
      <4>3. CASE b # job.b
        BY <4>3, <4>1, <3>2, <2>1, <2>4 DEF ResolveInv
      <4> QED
        BY <4>2, <4>3
    <3> QED
      BY <3>1, <3>2
  <2> QED
    BY <2>5, <2>6, <1>10
<1>15. HitHasBreakpoint'
  <2>1. SUFFICES ASSUME NEW s \in Address, Exists(s)', site'[s].enabled
                 PROVE  \E b \in Listed : site'[s].parent = b /\ s \in own'[b]
    BY <1>4 DEF HitHasBreakpoint
  <2>2. CASE s = a
    <3>1. job.b \in Listed
      BY <2>1, <2>2, <1>5, <1>6 DEF on
    <3> QED
      BY <3>1, <2>2, <1>3, <1>6, <1>7
  <2>3. CASE s # a
    <3>1. Exists(s) /\ site[s].enabled
      BY <2>1, <2>3, <1>6 DEF Exists
    <3>2. PICK b \in Listed : site[s].parent = b /\ s \in own[b]
      BY <3>1 DEF HitHasBreakpoint
    <3>3. b \in Breakpoint
      BY <3>2 DEF Listed, TypeOK
    <3> QED
      BY <3>2, <3>3, <2>3, <1>6, <1>7
  <2> QED
    BY <2>2, <2>3
<1>16. TrapHasSite'
  <2>1. \A s \in Address \ {a} : (Exists(s) <=> Exists(s)') /\ site'[s].enabled = site[s].enabled
    BY <1>6 DEF Exists
  <2>2. \A s \in Address \ {a} : s \in traps' <=> s \in traps
    BY <1>1
  <2>3. a \notin traps
    BY <1>1 DEF TrapHasSite
  <2>4. a \in traps' <=> on
    BY <2>3, <1>1
  <2> QED
    BY <2>1, <2>2, <2>4, <1>6, <1>8 DEF TrapHasSite, TypeOK
<1> QED
  BY <1>11, <1>12, <1>13, <1>14, <1>15, <1>16

-----------------------------------------------------------------------------
(* The commands and the loops over sites. *)

\* Commands that start a loop.
LEMMA CommandStep ==
    ASSUME BreakpointsInv, TypeOK', NEW b \in Breakpoint,
           Create(b) \/ Enable(b) \/ Disable(b) \/ Delete(b)
    PROVE  BreakpointsInv'
<1> USE DEF BreakpointsInv
<1>1. /\ UNCHANGED <<phase, mapped, elves, order, own, dangling, site, traps, failed>>
      /\ job.op = "none" /\ phase = "prompt"
  BY DEF Create, Enable, Disable, Delete, Free
<1>2. \/ b \notin Listed /\ job' = Job("construct", b, Wanted(b, elves, {}), <<>>) /\ is_enabled' = is_enabled
      \/ /\ b \in Listed
         /\ \E op \in {"enable", "disable", "delete"} : job' = Job(op, b, Has(b), <<>>)
         /\ is_enabled' \in {is_enabled, is_enabled \cup {b}, is_enabled \ {b}}
  BY DEF Create, Enable, Disable, Delete, Has
<1>3. \/ b \notin Listed /\ job'.op = "construct" /\ job'.b = b /\ job'.left = Wanted(b, elves, {}) /\ is_enabled' = is_enabled
      \/ /\ b \in Listed /\ job'.op \in {"enable", "disable", "delete"} /\ job'.b = b /\ job'.left = Has(b)
         /\ is_enabled' \in {is_enabled, is_enabled \cup {b}, is_enabled \ {b}}
  BY <1>2 DEF Job
<1>4. Listed' = Listed
  BY <1>1 DEF Listed
<1>5. \A c : Has(c)' = Has(c) /\ Resolved(c)' = Resolved(c)
  BY <1>1 DEF Has, Resolved, Wanted, Found
<1>6. ListInv'
  BY <1>1, <1>3, <1>4 DEF ListInv
<1>7. JobInv'
  <2>1. /\ job'.op \in {"enable", "disable", "delete"} => job'.b \in Listed /\ job'.left \subseteq Has(job'.b)
        /\ own[job'.b] \subseteq Has(job'.b)
    BY <1>3 DEF Has
  <2> QED
    BY <1>1, <1>3, <1>4, <1>5, <2>1 DEF JobInv
<1>8. PointerInv'
  BY <1>1, <1>3 DEF PointerInv
<1>9. ResolveInv'
  <2>1. b \notin Listed => Has(b) = {}
    BY <1>1 DEF ListInv, Has
  <2>2. \A c \in {b} : job'.op = "construct" => Wanted(c, elves', Has(c)') \subseteq Has(c)' \cup job'.left
    BY <2>1, <1>1, <1>3, <1>5
  <2> QED
    BY <2>2, <1>1, <1>3, <1>4, <1>5 DEF ResolveInv
<1>10. HitHasBreakpoint' /\ TrapHasSite'
  BY <1>1, <1>4 DEF HitHasBreakpoint, TrapHasSite, Exists
<1> QED
  BY <1>6, <1>7, <1>8, <1>9, <1>10

LEMMA ConstructedStep ==
    ASSUME BreakpointsInv, TypeOK', Constructed
    PROVE  BreakpointsInv'
<1> USE DEF BreakpointsInv
<1>1. /\ UNCHANGED <<phase, mapped, elves, own, dangling, site, traps, failed>>
      /\ order' = Append(order, job.b) /\ is_enabled' = is_enabled \cup {job.b}
      /\ job.op = "construct" /\ job.left = {}
  BY DEF Constructed
<1>2. job'.op = "enable" /\ job'.b = job.b /\ job'.left = own[job.b]
  BY DEF Constructed, Job
<1>3. job.b \in Breakpoint /\ job.b \notin Listed
  BY <1>1 DEF JobInv
<1>4. Listed' = Listed \cup {job.b} /\ (\A i, j \in DOMAIN order : order[i] = order[j] => i = j)'
  BY <1>1, <1>3, ElementsAppend DEF Listed, Elements, Once, ListInv, TypeOK
<1>5. \A c : Has(c)' = Has(c) /\ Resolved(c)' = Resolved(c)
  BY <1>1 DEF Has, Resolved, Wanted, Found
<1>6. ListInv'
  BY <1>1, <1>4 DEF ListInv
<1>7. JobInv'
  BY <1>1, <1>2, <1>4 DEF JobInv, Has
<1>8. PointerInv'
  BY <1>1, <1>2 DEF PointerInv
<1>9. ResolveInv'
  BY <1>1, <1>2, <1>4, <1>5 DEF ResolveInv, Resolved
<1>10. HitHasBreakpoint' /\ TrapHasSite'
  BY <1>1, <1>4 DEF HitHasBreakpoint, TrapHasSite, Exists
<1> QED
  BY <1>6, <1>7, <1>8, <1>9, <1>10

\* The end of a loop, and what undefined behaviour leaves.
LEMMA IdleStep ==
    ASSUME BreakpointsInv, TypeOK', job.op \in {"enable", "disable", "delete"},
           Throw \/ (job' = Idle /\ UNCHANGED <<phase, failed>>)
                 \/ (job' = Idle /\ UNCHANGED failed /\ phase' = "undefined" /\ dangling[job.b] \cap job.left # {}),
           job.op = "delete" => Throw \/ phase' = "undefined",
           UNCHANGED <<mapped, elves, order, is_enabled, own, dangling, site, traps>>
    PROVE  BreakpointsInv'
<1> USE DEF BreakpointsInv
<1>1. /\ job'.op = "none" /\ failed \subseteq failed'
      /\ job.op = "delete" => "delete" \in failed'
      /\ phase' = "undefined" => "delete" \in failed
  <2>1. job.b \in Breakpoint
    BY DEF JobInv, Listed, TypeOK
  <2>2. ~(UNCHANGED <<phase, failed>>) \/ phase = "prompt"
    BY DEF TypeOK, JobInv
  <2>3. dangling[job.b] \cap job.left # {} => "delete" \in failed
    BY <2>1 DEF PointerInv, JobInv
  <2> QED
    BY <2>1, <2>2, <2>3, ThrowFields DEF Idle, Job
<1>4. Listed' = Listed
  BY DEF Listed
<1>5. \A c : Has(c)' = Has(c) /\ Resolved(c)' = Resolved(c)
  BY DEF Has, Resolved, Wanted, Found
<1>6. ListInv'
  BY <1>4 DEF ListInv
<1>7. JobInv'
  BY <1>1, ThrowFields DEF JobInv
<1>8. PointerInv'
  BY <1>1, ThrowFields DEF PointerInv, JobInv
<1>9. ResolveInv'
  BY <1>1, <1>4, <1>5 DEF ResolveInv
<1>10. HitHasBreakpoint' /\ TrapHasSite'
  BY <1>4 DEF HitHasBreakpoint, TrapHasSite, Exists
<1> QED
  BY <1>6, <1>7, <1>8, <1>9, <1>10

\* The loops that enable or disable sites go on to the next one.
LEMMA AdvanceInv ==
    ASSUME BreakpointsInv, job.op \in {"enable", "disable"}, NEW a, Advance(a),
           UNCHANGED <<elves, order, is_enabled, own, dangling>>
    PROVE  ListInv' /\ JobInv' /\ ResolveInv' /\ Listed' = Listed
<1> USE DEF BreakpointsInv
<1>1. /\ job'.op = job.op /\ job'.b = job.b /\ job'.queue = job.queue /\ job'.left = job.left \ {a}
      /\ UNCHANGED <<phase, failed>>
  BY AdvanceFields
<1>2. Listed' = Listed
  BY DEF Listed
<1>3. \A c : Has(c)' = Has(c) /\ Resolved(c)' = Resolved(c)
  BY DEF Has, Resolved, Wanted, Found
<1>4. ListInv'
  BY <1>1, <1>2 DEF ListInv
<1>5. JobInv'
  BY <1>1, <1>2, <1>3 DEF JobInv
<1>6. ResolveInv'
  BY <1>1, <1>2, <1>3 DEF ResolveInv
<1> QED
  BY <1>2, <1>4, <1>5, <1>6

\* One site of a listed breakpoint is enabled or disabled.
LEMMA ToggleInv ==
    ASSUME BreakpointsInv, TypeOK', NEW b \in Listed, NEW a \in own[b], SetEnabled(a) \/ SetDisabled(a),
           UNCHANGED <<mapped, order, own, dangling>>
    PROVE  /\ HitHasBreakpoint' /\ TrapHasSite'
           /\ \A s \in Address : site'[s].parent = site[s].parent
<1> USE DEF BreakpointsInv
<1>1. b \in Breakpoint /\ a \in Address /\ site[a].parent = b
  BY DEF TypeOK, Listed, PointerInv
<1>2. Listed' = Listed
  BY DEF Listed
<1>3. /\ \A s \in Address \ {a} : site'[s] = site[s]
      /\ site'[a].parent = b
      /\ \/ site'[a].enabled /\ traps' = traps \cup {a}
         \/ ~site'[a].enabled /\ traps' = traps \ {a}
  BY <1>1 DEF SetEnabled, SetDisabled, TypeOK, SiteType
<1>4. Exists(a)' /\ \A s \in Address : Exists(s)' <=> Exists(s)
  BY <1>1, <1>3, BreakpointsAssumption DEF Exists
<1>5. HitHasBreakpoint'
  <2>1. SUFFICES ASSUME NEW s \in Address, Exists(s)', site'[s].enabled
                 PROVE  \E c \in Listed : site'[s].parent = c /\ s \in own[c]
    BY <1>2 DEF HitHasBreakpoint
  <2>2. CASE s = a
    BY <2>2, <1>3
  <2>3. CASE s # a
    BY <2>1, <2>3, <1>3, <1>4 DEF HitHasBreakpoint
  <2> QED
    BY <2>2, <2>3
<1>6. TrapHasSite'
  <2>1. \A s \in Address \ {a} : s \in traps' <=> s \in traps
    BY <1>3
  <2>2. a \in traps' <=> site'[a].enabled
    BY <1>3
  <2> QED
    BY <2>1, <2>2, <1>3, <1>4 DEF TrapHasSite, TypeOK
<1> QED
  BY <1>1, <1>3, <1>5, <1>6

LEMMA ToggleSiteStep ==
    ASSUME BreakpointsInv, TypeOK', NEW b \in Breakpoint, NEW a \in Address, ToggleSite(b, a)
    PROVE  BreakpointsInv'
<1> USE DEF BreakpointsInv
<1>1. /\ UNCHANGED <<phase, job, mapped, elves, order, is_enabled, own, dangling, failed>>
      /\ b \in Listed /\ a \in own[b] /\ (SetEnabled(a) \/ SetDisabled(a))
  BY DEF ToggleSite
<1>2. HitHasBreakpoint' /\ TrapHasSite' /\ \A s \in Address : site'[s].parent = site[s].parent
  BY <1>1, ToggleInv
<1>3. Listed' = Listed /\ Queued' = Queued
  BY <1>1 DEF Listed, Queued
<1>4. \A c : Has(c)' = Has(c) /\ Resolved(c)' = Resolved(c)
  BY <1>1 DEF Has, Resolved, Wanted, Found
<1>5. ListInv' /\ JobInv'
  BY <1>1, <1>3, <1>4 DEF ListInv, JobInv
<1>6. PointerInv'
  BY <1>1, <1>2 DEF PointerInv, TypeOK
<1>7. ResolveInv'
  BY <1>1, <1>3, <1>4 DEF ResolveInv
<1> QED
  BY <1>2, <1>5, <1>6, <1>7

LEMMA SwitchSitesStep ==
    ASSUME BreakpointsInv, TypeOK', EnableSites \/ DisableSites
    PROVE  BreakpointsInv'
<1> USE DEF BreakpointsInv
<1>1. PICK a \in job.left :
        \/ a \in dangling[job.b] /\ Undefined
        \/ /\ a \notin dangling[job.b]
           /\ UNCHANGED <<mapped, elves, order, is_enabled, own, dangling>>
           /\ \/ Advance(a) /\ UNCHANGED <<site, traps>>
              \/ (SetEnabled(a) \/ SetDisabled(a)) /\ Advance(a)
              \/ Throw /\ UNCHANGED <<site, traps>>
  BY Zenon DEF EnableSites, DisableSites
<1>2. job.op \in {"enable", "disable"}
  BY DEF EnableSites, DisableSites
<1>3. job.b \in Listed /\ job.left \subseteq Has(job.b)
  BY <1>2 DEF JobInv
<1>4. CASE a \in dangling[job.b] /\ Undefined
  <2>1. /\ job' = Idle /\ UNCHANGED failed /\ phase' = "undefined" /\ dangling[job.b] \cap job.left # {}
        /\ UNCHANGED <<mapped, elves, order, is_enabled, own, dangling, site, traps>>
    BY <1>1, <1>4 DEF Undefined
  <2> QED
    BY <1>2, <2>1, IdleStep
<1>5. CASE Throw /\ UNCHANGED <<mapped, elves, order, is_enabled, own, dangling, site, traps>>
  BY <1>2, <1>5, IdleStep
<1>6. CASE Advance(a) /\ UNCHANGED <<mapped, elves, order, is_enabled, own, dangling, site, traps>>
  <2>1. ListInv' /\ JobInv' /\ ResolveInv' /\ Listed' = Listed
    BY <1>2, <1>6, AdvanceInv
  <2>2. UNCHANGED <<phase, failed>> /\ job'.op = job.op /\ job'.left \subseteq job.left
    BY <1>6, AdvanceFields
  <2>3. PointerInv'
    BY <1>2, <1>6, <2>2 DEF PointerInv
  <2>4. HitHasBreakpoint' /\ TrapHasSite'
    BY <1>6, <2>1 DEF HitHasBreakpoint, TrapHasSite, Exists
  <2> QED
    BY <2>1, <2>3, <2>4
<1>7. CASE /\ a \notin dangling[job.b]
           /\ (SetEnabled(a) \/ SetDisabled(a)) /\ Advance(a)
           /\ UNCHANGED <<mapped, elves, order, is_enabled, own, dangling>>
  <2>1. ListInv' /\ JobInv' /\ ResolveInv' /\ Listed' = Listed
    BY <1>2, <1>7, AdvanceInv
  <2>2. UNCHANGED <<phase, failed>> /\ job'.op = job.op /\ job'.left \subseteq job.left
    BY <1>7, AdvanceFields
  <2>3. a \in own[job.b]
    BY <1>1, <1>3, <1>7 DEF Has
  <2>4. HitHasBreakpoint' /\ TrapHasSite' /\ \A s \in Address : site'[s].parent = site[s].parent
    BY <1>3, <1>7, <2>3, ToggleInv
  <2>5. PointerInv'
    BY <1>2, <1>7, <2>2, <2>4 DEF PointerInv, TypeOK
  <2> QED
    BY <2>1, <2>4, <2>5
<1> QED
  BY <1>1, <1>4, <1>5, <1>6, <1>7

\* delete takes the sites of its breakpoint away one at a time.
LEMMA RemoveSiteStep ==
    ASSUME BreakpointsInv, TypeOK', job.op = "delete", NEW a \in job.left, a \notin dangling[job.b],
           RemoveSite(a), Advance(a), UNCHANGED <<mapped, elves, order, is_enabled>>
    PROVE  BreakpointsInv'
<1> USE DEF BreakpointsInv
<1>1. /\ site' = [site EXCEPT ![a] = NoSite]
      /\ traps' = IF site[a].enabled THEN traps \ {a} ELSE traps
      /\ own' = [b \in Breakpoint |-> own[b] \ {a}]
      /\ dangling' = [b \in Breakpoint |-> dangling[b] \cup ({a} \cap own[b])]
  BY DEF RemoveSite
<1>2. /\ job'.op = job.op /\ job'.b = job.b /\ job'.queue = job.queue /\ job'.left = job.left \ {a}
      /\ UNCHANGED <<phase, failed>>
  BY AdvanceFields
<1>3. job.b \in Listed /\ job.b \in Breakpoint /\ a \in Address /\ a \in own[job.b]
  BY DEF JobInv, TypeOK, Listed, Has
<1>4. \A b \in Breakpoint \ {job.b} : own'[b] = own[b] /\ dangling'[b] = dangling[b]
  BY <1>1, <1>3 DEF PointerInv
<1>5. own'[job.b] = own[job.b] \ {a} /\ dangling'[job.b] = dangling[job.b] \cup {a}
  BY <1>1, <1>3
<1>6. Listed' = Listed /\ Listed \subseteq Breakpoint
  BY DEF Listed, TypeOK
<1>7. \A b \in Breakpoint : Has(b)' = Has(b) /\ Resolved(b)' = Resolved(b)
  BY <1>3, <1>4, <1>5 DEF Has, Resolved, Wanted, Found
<1>8. /\ \A s \in Address \ {a} : site'[s] = site[s]
      /\ ~site'[a].enabled /\ ~Exists(a)'
  BY <1>1, <1>3 DEF TypeOK, NoSite, Exists
<1>9. ListInv'
  BY <1>2, <1>3, <1>4, <1>6 DEF ListInv
<1>10. JobInv'
  <2>1. job'.left \subseteq Has(job.b)' /\ own'[job.b] \subseteq job'.left
    BY <1>2, <1>3, <1>5 DEF JobInv, Has
  <2> QED
    BY <2>1, <1>2, <1>3, <1>6 DEF JobInv, Has
<1>11. PointerInv'
  <2>1. \A b \in Breakpoint : \A s \in own'[b] : site'[s].parent = b
    <3>1. SUFFICES ASSUME NEW b \in Breakpoint, NEW s \in own'[b] PROVE site'[s].parent = b
      OBVIOUS
    <3>2. s \in own[b] /\ s # a /\ s \in Address
      BY <1>1, <3>1 DEF TypeOK
    <3> QED
      BY <3>2, <1>8 DEF PointerInv
  <2>2. \A b \in Breakpoint : dangling'[b] # {} =>
          \/ dangling[b] # {} /\ b # job.b
          \/ b = job.b
    BY <1>4
  <2>3. "delete" \notin failed => dangling[job.b] \cap job.left = {}
    BY <1>3 DEF PointerInv, JobInv
  <2> QED
    BY <2>1, <2>2, <2>3, <1>2, <1>3, <1>5 DEF PointerInv
<1>12. ResolveInv'
  BY <1>2, <1>6, <1>7 DEF ResolveInv
<1>13. HitHasBreakpoint'
  <2>1. SUFFICES ASSUME NEW s \in Address, Exists(s)', site'[s].enabled
                 PROVE  \E b \in Listed : site'[s].parent = b /\ s \in own'[b]
    BY <1>6 DEF HitHasBreakpoint
  <2>2. s # a /\ Exists(s) /\ site[s].enabled
    BY <2>1, <1>8 DEF Exists
  <2> QED
    BY <2>2, <1>1, <1>6, <1>8 DEF HitHasBreakpoint
<1>14. TrapHasSite'
  <2>1. a \notin traps'
    BY <1>1 DEF TrapHasSite
  <2>2. \A s \in Address \ {a} : (s \in traps' <=> s \in traps) /\ (Exists(s)' <=> Exists(s))
    BY <1>1, <1>8 DEF Exists
  <2> QED
    BY <2>1, <2>2, <1>8 DEF TrapHasSite, TypeOK
<1> QED
  BY <1>9, <1>10, <1>11, <1>12, <1>13, <1>14

LEMMA DeleteSitesStep ==
    ASSUME BreakpointsInv, TypeOK', DeleteSites
    PROVE  BreakpointsInv'
<1>1. PICK a \in job.left :
        \/ a \in dangling[job.b] /\ Undefined
        \/ /\ a \notin dangling[job.b] /\ UNCHANGED <<mapped, elves, order, is_enabled>>
           /\ RemoveSite(a) /\ Advance(a)
        \/ UNCHANGED <<mapped, elves, order, is_enabled, own, dangling, site, traps>> /\ Throw
  BY Zenon DEF DeleteSites
<1>2. job.op = "delete"
  BY DEF DeleteSites
<1>3. CASE a \in dangling[job.b] /\ Undefined
  <2>1. /\ job' = Idle /\ UNCHANGED failed /\ phase' = "undefined" /\ dangling[job.b] \cap job.left # {}
        /\ UNCHANGED <<mapped, elves, order, is_enabled, own, dangling, site, traps>>
    BY <1>1, <1>3 DEF Undefined
  <2> QED
    BY <1>2, <2>1, IdleStep
<1>4. CASE UNCHANGED <<mapped, elves, order, is_enabled, own, dangling, site, traps>> /\ Throw
  BY <1>2, <1>4, IdleStep
<1> QED
  BY <1>1, <1>2, <1>3, <1>4, RemoveSiteStep

LEMMA DeletedStep ==
    ASSUME BreakpointsInv, TypeOK', Deleted
    PROVE  BreakpointsInv'
<1> USE DEF BreakpointsInv
<1>1. /\ UNCHANGED <<phase, mapped, elves, site, traps, failed>>
      /\ is_enabled' = is_enabled \ {job.b}
      /\ own' = [own EXCEPT ![job.b] = {}] /\ dangling' = [dangling EXCEPT ![job.b] = {}]
      /\ job.op = "delete" /\ job.left = {}
  BY DEF Deleted
<1>2. job'.op = "none"
  BY DEF Deleted, Idle, Job
<1>3. job.b \in Listed /\ job.b \in Breakpoint /\ own[job.b] = {}
  BY <1>1 DEF JobInv, TypeOK, Listed
<1>4. Listed' = Listed \ {job.b} /\ (\A i, j \in DOMAIN order : order[i] = order[j] => i = j)'
  <2>1. PICK i \in DOMAIN order : order[i] = job.b /\ order' = Erase(order, i)
    BY DEF Deleted
  <2>2. Once(order) /\ order \in Seq(Breakpoint)
    BY DEF Once, ListInv, TypeOK
  <2>3. Once(order') /\ Elements(order') = Elements(order) \ {job.b}
    BY <2>1, <2>2, ElementsErase
  <2> QED
    BY <2>3 DEF Once, Elements, Listed
<1>5. \A b \in Breakpoint : /\ own'[b] = own[b]
                            /\ dangling'[b] = IF b = job.b THEN {} ELSE dangling[b]
  BY <1>1, <1>3 DEF TypeOK
<1>6. \A b \in Breakpoint \ {job.b} : Has(b)' = Has(b) /\ Resolved(b)' = Resolved(b)
  BY <1>1, <1>5 DEF Has, Resolved, Wanted, Found
<1>7. Listed \subseteq Breakpoint
  BY DEF Listed, TypeOK
<1>8. ListInv'
  BY <1>1, <1>3, <1>4, <1>5 DEF ListInv
<1>9. JobInv'
  BY <1>1, <1>2 DEF JobInv
<1>10. PointerInv'
  BY <1>1, <1>2, <1>5 DEF PointerInv
<1>11. ResolveInv'
  BY <1>1, <1>2, <1>4, <1>6, <1>7 DEF ResolveInv
<1>12. HitHasBreakpoint'
  BY <1>1, <1>3, <1>4, <1>5, <1>7 DEF HitHasBreakpoint, Exists
<1>13. TrapHasSite'
  BY <1>1 DEF TrapHasSite, Exists
<1> QED
  BY <1>8, <1>9, <1>10, <1>11, <1>12, <1>13

LEMMA UsesFreedStep ==
    ASSUME BreakpointsInv, TypeOK', UsesFreed
    PROVE  BreakpointsInv'
<1> USE DEF BreakpointsInv
<1>1. /\ job.op = "delete" /\ phase' = "freed" /\ job' = Idle
      /\ UNCHANGED <<mapped, elves, order, is_enabled, own, dangling, site, traps, failed>>
  BY DEF UsesFreed
<1>2. job'.op = "none"
  BY <1>1 DEF Idle, Job
<1>3. Listed' = Listed
  BY <1>1 DEF Listed
<1>4. \A c : Has(c)' = Has(c) /\ Resolved(c)' = Resolved(c)
  BY <1>1 DEF Has, Resolved, Wanted, Found
<1>5. ListInv'
  BY <1>1, <1>3 DEF ListInv
<1>6. JobInv' /\ PointerInv'
  BY <1>1, <1>2 DEF JobInv, PointerInv
<1>7. ResolveInv'
  BY <1>1, <1>2, <1>3, <1>4 DEF ResolveInv
<1>8. HitHasBreakpoint' /\ TrapHasSite'
  BY <1>1, <1>3 DEF HitHasBreakpoint, TrapHasSite, Exists
<1> QED
  BY <1>5, <1>6, <1>7, <1>8

-----------------------------------------------------------------------------
(* Stops and the dynamic loader. *)

LEMMA ResumeStep ==
    ASSUME BreakpointsInv, TypeOK', Resume
    PROVE  BreakpointsInv'
<1> USE DEF BreakpointsInv
<1>1. /\ UNCHANGED <<job, mapped, elves, order, is_enabled, own, dangling, site, traps, failed>>
      /\ phase = "prompt" /\ phase' = "running" /\ job.op = "none"
  BY DEF Resume, Free
<1>2. Listed' = Listed
  BY <1>1 DEF Listed
<1>3. \A b : Has(b)' = Has(b) /\ Resolved(b)' = Resolved(b)
  BY <1>1 DEF Has, Resolved, Wanted, Found
<1>4. ListInv' /\ JobInv' /\ PointerInv' /\ ResolveInv'
  BY <1>1, <1>2, <1>3 DEF ListInv, JobInv, PointerInv, ResolveInv
<1> QED
  BY <1>1, <1>2, <1>4 DEF HitHasBreakpoint, TrapHasSite, Exists

\* A reload starts with every listed breakpoint in its queue.
LEMMA ReloadInv ==
    ASSUME BreakpointsInv, NEW images, Reload(images), job.op = "none",
           phase = "running", phase' \in {"prompt", "running"},
           UNCHANGED <<order, is_enabled, own, dangling, site, failed>>
    PROVE  ListInv' /\ JobInv' /\ PointerInv' /\ ResolveInv' /\ HitHasBreakpoint'
<1> USE DEF BreakpointsInv
<1>1. job'.op = "reload" /\ job'.b = "none" /\ job'.left = {} /\ job'.queue = order
  BY DEF Reload, Job
<1>2. Listed' = Listed /\ Queued' = Listed
  BY <1>1 DEF Listed, Queued
<1>3. ListInv'
  BY <1>2 DEF ListInv
<1>4. JobInv'
  BY <1>1, <1>2 DEF JobInv
<1>5. PointerInv'
  BY <1>1 DEF PointerInv
<1>6. ResolveInv'
  BY <1>1, <1>2 DEF ResolveInv
<1> QED
  BY <1>2, <1>3, <1>4, <1>5, <1>6 DEF HitHasBreakpoint, Exists

LEMMA LoaderStep ==
    ASSUME BreakpointsInv, TypeOK', Stop \/ \E i \in Image : Load(i) \/ Unload(i)
    PROVE  BreakpointsInv'
<1> USE DEF BreakpointsInv
<1>1. CASE Stop \/ \E i \in Image : Load(i)
  <2>1. /\ job.op = "none" /\ phase = "running" /\ phase' \in {"prompt", "running"} /\ \E images : Reload(images)
        /\ UNCHANGED <<order, is_enabled, own, dangling, site, traps, failed>>
    BY <1>1 DEF Stop, Load
  <2>2. ListInv' /\ JobInv' /\ PointerInv' /\ ResolveInv' /\ HitHasBreakpoint'
    BY <2>1, ReloadInv
  <2>3. TrapHasSite'
    BY <2>1 DEF TrapHasSite, Exists
  <2> QED
    BY <2>2, <2>3
<1>2. CASE \E i \in Image : Unload(i)
  <2>1. PICK i \in Image : Unload(i)
    BY <1>2
  <2>2. /\ UNCHANGED <<phase, job, elves, order, is_enabled, own, dangling, site, failed>>
        /\ i # Main
        /\ traps' = {a \in traps : ImageOf[a] # i \/ (Exists(a) /\ site[a].hardware)}
    BY <2>1 DEF Unload
  <2>3. Listed' = Listed /\ Queued' = Queued
    BY <2>2 DEF Listed, Queued
  <2>4. \A b : Has(b)' = Has(b) /\ Resolved(b)' = Resolved(b)
    BY <2>2 DEF Has, Resolved, Wanted, Found
  <2>5. ListInv' /\ JobInv'
    BY <2>2, <2>3, <2>4 DEF ListInv, JobInv
  <2>6. PointerInv' /\ ResolveInv'
    BY <2>2, <2>3, <2>4 DEF PointerInv, ResolveInv
  <2>7. HitHasBreakpoint'
    BY <2>2, <2>3 DEF HitHasBreakpoint, Exists
  <2>8. TrapHasSite'
    BY <2>2 DEF TrapHasSite, Exists
  <2> QED
    BY <2>5, <2>6, <2>7, <2>8
<1> QED
  BY <1>1, <1>2

LEMMA NextBreakpointStep ==
    ASSUME BreakpointsInv, TypeOK', NextBreakpoint
    PROVE  BreakpointsInv'
<1> USE DEF BreakpointsInv
<1>1. /\ UNCHANGED <<phase, mapped, elves, order, is_enabled, own, dangling, site, traps, failed>>
      /\ job.op = "reload" /\ job.left = {} /\ job.queue # <<>> /\ job.queue \in Seq(Breakpoint)
  BY DEF NextBreakpoint, TypeOK
<1>2. PICK b : b = Head(job.queue)
  OBVIOUS
<1>3. job'.op = "reload" /\ job'.b = b /\ job'.left = Wanted(b, elves, Has(b)) /\ job'.queue = Tail(job.queue)
  BY <1>2 DEF NextBreakpoint, Job, Has
<1>4. Queued = Queued' \cup {b}
  <2>1. Elements(job.queue) = Elements(Tail(job.queue)) \cup {Head(job.queue)}
    BY <1>1, ElementsTail
  <2>2. Queued = Elements(job.queue) /\ Queued' = Elements(Tail(job.queue))
    BY <1>3 DEF Queued, Elements
  <2> QED
    BY <1>2, <2>1, <2>2
<1>5. Listed' = Listed
  BY <1>1 DEF Listed
<1>6. \A c : Has(c)' = Has(c) /\ Resolved(c)' = Resolved(c)
  BY <1>1 DEF Has, Resolved, Wanted, Found
<1>7. ListInv' /\ PointerInv'
  BY <1>1, <1>3, <1>5 DEF ListInv, PointerInv
<1>8. JobInv'
  BY <1>1, <1>3, <1>4, <1>5 DEF JobInv
<1>9. ResolveInv'
  <2>1. SUFFICES ASSUME NEW c \in Listed
                 PROVE  \/ c \in Queued'
                        \/ Resolved(c)
                        \/ c = b /\ Wanted(c, elves, Has(c)) \subseteq Has(c) \cup job'.left
    BY <1>1, <1>3, <1>5, <1>6 DEF ResolveInv
  <2> QED
    BY <2>1, <1>1, <1>3, <1>4 DEF ResolveInv, Resolved
<1>10. HitHasBreakpoint' /\ TrapHasSite'
  BY <1>1, <1>5 DEF HitHasBreakpoint, TrapHasSite, Exists
<1> QED
  BY <1>7, <1>8, <1>9, <1>10

LEMMA ReloadedStep ==
    ASSUME BreakpointsInv, TypeOK', Reloaded
    PROVE  BreakpointsInv'
<1> USE DEF BreakpointsInv
<1>1. /\ UNCHANGED <<phase, mapped, elves, order, is_enabled, own, dangling, site, traps>>
      /\ job.op = "reload" /\ job.left = {} /\ job.queue = <<>>
      /\ failed' = failed \ {"reload"}
  BY DEF Reloaded
<1>2. job'.op = "none"
  BY DEF Reloaded, Idle, Job
<1>3. Queued = {}
  BY <1>1 DEF Queued
<1>4. Listed' = Listed
  BY <1>1 DEF Listed
<1>5. \A c : Has(c)' = Has(c) /\ Resolved(c)' = Resolved(c)
  BY <1>1 DEF Has, Resolved, Wanted, Found
<1>6. ListInv' /\ JobInv' /\ PointerInv'
  BY <1>1, <1>2, <1>4 DEF ListInv, JobInv, PointerInv
<1>7. ResolveInv'
  BY <1>1, <1>2, <1>3, <1>4, <1>5 DEF ResolveInv, Resolved
<1>8. HitHasBreakpoint' /\ TrapHasSite'
  BY <1>1, <1>4 DEF HitHasBreakpoint, TrapHasSite, Exists
<1> QED
  BY <1>6, <1>7, <1>8

-----------------------------------------------------------------------------
LEMMA BreakpointsStep ==
    ASSUME BreakpointsInv, [Next]_vars
    PROVE  BreakpointsInv'
<1>1. TypeOK'
  BY TypeStep DEF BreakpointsInv
<1>2. CASE User
  BY <1>1, <1>2, CommandStep, ToggleSiteStep, ResumeStep DEF User
<1>3. CASE Resolve
  <2>1. PICK a \in job.left : Skip(a) \/ Refuse(a) \/ (a \notin own[job.b] \cup dangling[job.b] /\ CreateSite(a))
    BY <1>3 DEF Resolve
  <2>2. job.op \in {"construct", "reload"}
    BY <1>3 DEF Resolve
  <2> QED
    BY <1>1, <2>1, <2>2, SkipStep, RefuseStep, CreateSiteStep
<1>4. CASE Finish
  <2>1. /\ job.op \in {"enable", "disable"} /\ job' = Idle
        /\ UNCHANGED <<phase, mapped, elves, order, is_enabled, own, dangling, site, traps, failed>>
    BY <1>4 DEF Finish
  <2> QED
    BY <1>1, <2>1, IdleStep
<1>5. CASE UNCHANGED vars
  <2>1. Listed' = Listed /\ Queued' = Queued
    BY <1>5 DEF vars, Listed, Queued
  <2>2. \A c : Has(c)' = Has(c) /\ Resolved(c)' = Resolved(c)
    BY <1>5 DEF vars, Has, Resolved, Wanted, Found
  <2>3. ListInv' /\ JobInv' /\ PointerInv'
    BY <1>5, <2>1, <2>2 DEF BreakpointsInv, ListInv, JobInv, PointerInv, vars
  <2>4. ResolveInv' /\ HitHasBreakpoint' /\ TrapHasSite'
    BY <1>5, <2>1, <2>2 DEF BreakpointsInv, ResolveInv, HitHasBreakpoint, TrapHasSite, Exists, vars
  <2> QED
    BY <1>1, <2>3, <2>4 DEF BreakpointsInv
<1> QED
  BY <1>1, <1>2, <1>3, <1>4, <1>5, ConstructedStep, SwitchSitesStep, DeleteSitesStep, DeletedStep,
     UsesFreedStep, NextBreakpointStep, ReloadedStep, LoaderStep DEF Next, Debugger

LEMMA BreakpointsInvHolds == Spec => []BreakpointsInv
<1>1. Init => BreakpointsInv
  <2> SUFFICES ASSUME Init PROVE BreakpointsInv
    OBVIOUS
  <2>1. Listed = {} /\ job.op = "none" /\ \A a \in Address : ~Exists(a)
    BY DEF Init, Listed, Idle, Job, NoSite, Exists
  <2>2. TypeOK
    BY BreakpointsAssumption DEF Init, TypeOK, Idle, Job, Ops, NoSite, SiteType
  <2>3. ListInv /\ JobInv /\ PointerInv
    BY <2>1 DEF Init, ListInv, JobInv, PointerInv
  <2>4. ResolveInv /\ HitHasBreakpoint /\ TrapHasSite
    BY <2>1 DEF Init, ResolveInv, HitHasBreakpoint, TrapHasSite
  <2> QED
    BY <2>2, <2>3, <2>4 DEF BreakpointsInv
<1>2. BreakpointsInv /\ [Next]_vars => BreakpointsInv'
  BY BreakpointsStep
<1> QED
  BY <1>1, <1>2, PTL DEF Spec

\* Every variable of the breakpoint machinery keeps its kind.
THEOREM BreakpointsTyped == Spec => []TypeOK
<1>1. BreakpointsInv => TypeOK
  BY DEF BreakpointsInv
<1> QED
  BY <1>1, BreakpointsInvHolds, PTL

\* A site that can be hit has a listed breakpoint that holds it, for
\* parent_->notify_hit() in wait_on_signal, whatever threw before.
THEOREM HitsNotifyBreakpoints == Spec => []HitHasBreakpoint
<1>1. BreakpointsInv => HitHasBreakpoint
  BY DEF BreakpointsInv
<1> QED
  BY <1>1, BreakpointsInvHolds, PTL

\* No trap is left without its enabled site, and in the executable no enabled
\* site lacks its trap.
THEOREM TrapsBelongToSites == Spec => []TrapHasSite
<1>1. BreakpointsInv => TrapHasSite
  BY DEF BreakpointsInv
<1> QED
  BY <1>1, BreakpointsInvHolds, PTL

\* Unless a delete was aborted, the pointers of every breakpoint lead to sites
\* of its own between commands; inside commands a destroyed site is used only
\* after an aborted delete and at the end of a delete, through every pointer of
\* the breakpoint.
THEOREM PointersLead == Spec => []PointersValid
<1>1. BreakpointsInv => PointersValid
  BY DEF BreakpointsInv, PointersValid, PointerInv, JobInv
<1> QED
  BY <1>1, BreakpointsInvHolds, PTL

\* At the prompt no listed breakpoint lacks a site that its targets in the
\* known images ask for, unless the last reload threw.
THEOREM ReloadResolves == Spec => []PendingResolved
<1>1. BreakpointsInv => PendingResolved
  BY DEF BreakpointsInv, PendingResolved, ResolveInv, Resolved, Has, Free
<1> QED
  BY <1>1, BreakpointsInvHolds, PTL
=============================================================================
