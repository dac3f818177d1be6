----------------------------- MODULE Breakpoints ----------------------------
(***************************************************************************)
(* The breakpoints of sdb::target: an address, function or line breakpoint *)
(* is resolved to breakpoint sites in the images that are loaded, again    *)
(* whenever the process stops or the dynamic loader reports new images,    *)
(* and is enabled, disabled and deleted through those sites.               *)
(*                                                                         *)
(* breakpoint::breakpoint_sites_ holds plain pointers; the sites belong to *)
(* process::breakpoint_sites_.  Each of the loops over sites or targets    *)
(* stops at the first element that throws and leaves the rest undone.      *)
(* job is the loop that is running: left are the elements still to visit.  *)
(* DWARF indexes and vectors put the elements in an order that depends on  *)
(* the program and on the history, so any of left may be the next.         *)
(***************************************************************************)
EXTENDS Naturals, Sequences, FiniteSets

CONSTANTS
    Breakpoint,   \* the breakpoints a user may create
    Address,      \* addresses they resolve to
    Image,        \* the executable and its libraries
    ImageOf,      \* the image an address lies in
    Targets,      \* the addresses a breakpoint stands for, over all images
    ByAddress,    \* the address breakpoints
    IsHardware,   \* the breakpoints with is_hardware_
    Main,         \* the image of the executable
    NumSlots      \* hardware breakpoint registers

ASSUME BreakpointsAssumption ==
    /\ ImageOf \in [Address -> Image]
    /\ Targets \in [Breakpoint -> SUBSET Address]
    /\ ByAddress \subseteq Breakpoint /\ IsHardware \subseteq Breakpoint
    /\ Main \in Image
    /\ NumSlots \in Nat
    /\ IsFiniteSet(Address)
    /\ {"none", "destroyed"} \cap Breakpoint = {}

VARIABLES
    phase,      \* "prompt", "running"; after undefined behaviour "freed" or "undefined"
    job,        \* the loop that is running
    mapped,     \* images the inferior has mapped
    elves,      \* elves_: images the debugger knows
    order,      \* breakpoints_
    is_enabled, \* breakpoints with is_enabled_
    own,        \* breakpoint_sites_ of a breakpoint: pointers to sites
    dangling,   \* those of its pointers whose site has been destroyed
    site,       \* process::breakpoint_sites_, by address
    traps,      \* addresses of traps in memory and in debug registers
    failed      \* history: kinds of loops that have thrown

vars == <<phase, job, mapped, elves, order, is_enabled, own, dangling, site, traps, failed>>

-----------------------------------------------------------------------------
NoSite == [parent |-> "none", enabled |-> FALSE, hardware |-> FALSE]
Destroyed == "destroyed"   \* what parent_ refers to once its breakpoint is gone
Exists(a) == site[a].parent # "none"
Listed == {order[i] : i \in 1 .. Len(order)}

Ops == {"none", "construct", "reload", "enable", "disable", "delete"}
Job(op, b, left, queue) == [op |-> op, b |-> b, left |-> left, queue |-> queue]
Idle == Job("none", "none", {}, <<>>)
Free == phase = "prompt" /\ job.op = "none"

\* find_functions and get_line_entries_by_line ask every known image.
Found(b, known) == {a \in Targets[b] : ImageOf[a] \in known}

\* Mutant: a name that no known image defines resolves to address 0.
WantedNull(b, known, has) ==
    IF b \in ByAddress THEN IF has = {} THEN Targets[b] ELSE {}
                       ELSE {IF ImageOf[a] \in known THEN a ELSE 0 : a \in Targets[b]}

\* What resolve() looks up: an address breakpoint its address, and only if it
\* has no site yet, the others what the known images say of their name.
Wanted(b, known, has) ==
    IF b \in ByAddress THEN IF has = {} THEN Targets[b] ELSE {}
                       ELSE Found(b, known)

-----------------------------------------------------------------------------
(* One site. *)

UsedSlots == {a \in traps : Exists(a) /\ site[a].hardware}
CanEnable(a, hw) == IF hw THEN Cardinality(UsedSlots) < NumSlots ELSE ImageOf[a] \in mapped
CanDisable(a) == site[a].hardware \/ ImageOf[a] \in mapped

Throw ==
    /\ job' = Idle
    /\ phase' = "prompt"
    /\ failed' = failed \cup {job.op}

Advance(a) ==
    /\ job' = [job EXCEPT !.left = @ \ {a}]
    /\ UNCHANGED <<phase, failed>>

SetEnabled(a) ==
    /\ site' = [site EXCEPT ![a].enabled = TRUE]
    /\ traps' = traps \cup {a}

SetDisabled(a) ==
    /\ site' = [site EXCEPT ![a].enabled = FALSE]
    /\ traps' = traps \ {a}

-----------------------------------------------------------------------------
(* resolve() *)

\* create_breakpoint_site refuses an address where the process has a site, of
\* whichever breakpoint.  The new site is enabled with its breakpoint.
CreateSite(a) ==
    LET b == job.b
        hw == b \in IsHardware
        on == b \in is_enabled /\ CanEnable(a, hw)
    IN  /\ ~Exists(a)
        /\ own' = [own EXCEPT ![b] = @ \cup {a}]
        /\ site' = [site EXCEPT ![a] = [parent |-> b, enabled |-> on, hardware |-> hw]]
        /\ traps' = IF on THEN traps \cup {a} ELSE traps
        /\ IF b \in is_enabled /\ ~on THEN Throw ELSE Advance(a)
        /\ UNCHANGED <<mapped, elves, order, is_enabled, dangling>>

\* contains_address compares with every pointer, whose site may be gone: the
\* freed site still reads as its old address.
Skip(a) ==
    /\ a \in own[job.b] \cup dangling[job.b]
    /\ Advance(a)
    /\ UNCHANGED <<mapped, elves, order, is_enabled, own, dangling, site, traps>>

\* A throw out of the constructor destroys the breakpoint, and its sites stay.
Refuse(a) ==
    LET b == job.b
        lost == IF job.op = "construct" THEN own[b] ELSE {}
    IN  /\ Exists(a) /\ a \notin own[b] \cup dangling[b]
        /\ Throw
        /\ own' = [own EXCEPT ![b] = @ \ lost]
        /\ site' = [s \in Address |-> IF s \in lost THEN [site[s] EXCEPT !.parent = Destroyed]
                                                    ELSE site[s]]
        /\ UNCHANGED <<mapped, elves, order, is_enabled, dangling, traps>>

Resolve ==
    /\ job.op \in {"construct", "reload"}
    /\ \E a \in job.left : Skip(a) \/ Refuse(a)
                           \/ (a \notin own[job.b] \cup dangling[job.b] /\ CreateSite(a))

-----------------------------------------------------------------------------
(* breakpoint set, enable, disable and delete. *)

\* Mutant: the breakpoint is enabled by its constructor.
CreateEnabled(b) ==
    /\ Free
    /\ b \notin Listed
    /\ job' = Job("construct", b, Wanted(b, elves, {}), <<>>)
    /\ is_enabled' = is_enabled \cup {b}
    /\ UNCHANGED <<phase, mapped, elves, order, own, dangling, site, traps, failed>>

Create(b) ==
    /\ Free
    /\ b \notin Listed
    /\ job' = Job("construct", b, Wanted(b, elves, {}), <<>>)
    /\ UNCHANGED <<phase, mapped, elves, order, is_enabled, own, dangling, site, traps, failed>>

\* The constructed breakpoint is listed and then enabled.
Constructed ==
    /\ job.op = "construct" /\ job.left = {}
    /\ order' = Append(order, job.b)
    /\ is_enabled' = is_enabled \cup {job.b}
    /\ job' = Job("enable", job.b, own[job.b], <<>>)
    /\ UNCHANGED <<phase, mapped, elves, own, dangling, site, traps, failed>>

Enable(b) ==
    /\ Free
    /\ b \in Listed
    /\ is_enabled' = is_enabled \cup {b}
    /\ job' = Job("enable", b, own[b] \cup dangling[b], <<>>)
    /\ UNCHANGED <<phase, mapped, elves, order, own, dangling, site, traps, failed>>

Disable(b) ==
    /\ Free
    /\ b \in Listed
    /\ is_enabled' = is_enabled \ {b}
    /\ job' = Job("disable", b, own[b] \cup dangling[b], <<>>)
    /\ UNCHANGED <<phase, mapped, elves, order, own, dangling, site, traps, failed>>

\* Through a pointer to a destroyed site, or at the end() of a search.
Undefined ==
    /\ phase' = "undefined"
    /\ job' = Idle
    /\ UNCHANGED <<mapped, elves, order, is_enabled, own, dangling, site, traps, failed>>

EnableSites ==
    /\ job.op = "enable"
    /\ \E a \in job.left :
         IF a \in dangling[job.b] THEN Undefined
         ELSE /\ UNCHANGED <<mapped, elves, order, is_enabled, own, dangling>>
              /\ \/ site[a].enabled /\ Advance(a) /\ UNCHANGED <<site, traps>>
                 \/ /\ ~site[a].enabled /\ CanEnable(a, site[a].hardware)
                    /\ SetEnabled(a) /\ Advance(a)
                 \/ /\ ~site[a].enabled /\ ~CanEnable(a, site[a].hardware)
                    /\ Throw /\ UNCHANGED <<site, traps>>

DisableSites ==
    /\ job.op = "disable"
    /\ \E a \in job.left :
         IF a \in dangling[job.b] THEN Undefined
         ELSE /\ UNCHANGED <<mapped, elves, order, is_enabled, own, dangling>>
              /\ \/ ~site[a].enabled /\ Advance(a) /\ UNCHANGED <<site, traps>>
                 \/ site[a].enabled /\ CanDisable(a) /\ SetDisabled(a) /\ Advance(a)
                 \/ site[a].enabled /\ ~CanDisable(a) /\ Throw /\ UNCHANGED <<site, traps>>

\* breakpoint enable and disable of id.site
ToggleSite(b, a) ==
    /\ Free
    /\ b \in Listed /\ a \in own[b]
    /\ \/ ~site[a].enabled /\ CanEnable(a, site[a].hardware) /\ SetEnabled(a)
       \/ site[a].enabled /\ CanDisable(a) /\ SetDisabled(a)
    /\ UNCHANGED <<phase, job, mapped, elves, order, is_enabled, own, dangling, failed>>

Delete(b) ==
    /\ Free
    /\ b \in Listed
    /\ job' = Job("delete", b, own[b] \cup dangling[b], <<>>)
    /\ UNCHANGED <<phase, mapped, elves, order, is_enabled, own, dangling, site, traps, failed>>

\* Mutant: the site is destroyed without being disabled.
RemoveSiteEnabled(a) ==
    /\ site' = [site EXCEPT ![a] = NoSite]
    /\ own' = [b \in Breakpoint |-> own[b] \ {a}]
    /\ dangling' = [b \in Breakpoint |-> dangling[b] \cup ({a} \cap own[b])]
    /\ UNCHANGED traps

\* The site at the address is disabled and destroyed, so every pointer to it dangles.
RemoveSite(a) ==
    /\ site' = [site EXCEPT ![a] = NoSite]
    /\ traps' = IF site[a].enabled THEN traps \ {a} ELSE traps
    /\ own' = [b \in Breakpoint |-> own[b] \ {a}]
    /\ dangling' = [b \in Breakpoint |-> dangling[b] \cup ({a} \cap own[b])]

DeleteSites ==
    /\ job.op = "delete"
    /\ \E a \in job.left :
         IF a \in dangling[job.b] THEN Undefined
         ELSE /\ UNCHANGED <<mapped, elves, order, is_enabled>>
              /\ \/ /\ site[a].enabled => CanDisable(a)
                    /\ RemoveSite(a) /\ Advance(a)
                 \/ /\ site[a].enabled /\ ~CanDisable(a)
                    /\ Throw /\ UNCHANGED <<own, dangling, site, traps>>

\* Mutant: the breakpoint stays in the list without its sites.
DeletedSitesOnly ==
    /\ job.op = "delete" /\ job.left = {}
    /\ job' = Idle
    /\ UNCHANGED <<phase, mapped, elves, order, is_enabled, own, dangling, site, traps, failed>>

Erase(s, i) == SubSeq(s, 1, i - 1) \o SubSeq(s, i + 1, Len(s))

\* Last, remove_by_id disables the breakpoint through its pointers and erases it.
\* Every one of the pointers leads to a site just freed.  This is the outcome in
\* which their is_enabled_ still reads as it was left, and the loop does nothing.
Deleted ==
    /\ job.op = "delete" /\ job.left = {}
    /\ \E i \in DOMAIN order : order[i] = job.b /\ order' = Erase(order, i)
    /\ is_enabled' = is_enabled \ {job.b}
    /\ own' = [own EXCEPT ![job.b] = {}]
    /\ dangling' = [dangling EXCEPT ![job.b] = {}]
    /\ job' = Idle
    /\ UNCHANGED <<phase, mapped, elves, site, traps, failed>>

\* The other: the memory reads as anything else, and disable() acts on it.
UsesFreed ==
    /\ job.op = "delete" /\ job.left = {} /\ dangling[job.b] # {}
    /\ phase' = "freed" /\ job' = Idle
    /\ UNCHANGED <<mapped, elves, order, is_enabled, own, dangling, site, traps, failed>>

Finish ==
    /\ job.op \in {"enable", "disable"} /\ job.left = {}
    /\ job' = Idle
    /\ UNCHANGED <<phase, mapped, elves, order, is_enabled, own, dangling, site, traps, failed>>

-----------------------------------------------------------------------------
(* Stops and the dynamic loader. *)

Resume ==
    /\ Free
    /\ phase' = "running"
    /\ UNCHANGED <<job, mapped, elves, order, is_enabled, own, dangling, site, traps, failed>>

\* reload_dynamic_libraries takes new images in, forgets none, and resolves
\* every breakpoint in turn.
Reload(images) ==
    /\ elves' = elves \cup images
    /\ job' = Job("reload", "none", {}, order)

\* Mutant: a breakpoint that has sites is not resolved again.
NextUnresolved ==
    LET b == Head(job.queue)
        has == own[b] \cup dangling[b]
    IN  /\ job.op = "reload" /\ job.left = {} /\ job.queue # <<>>
        /\ job' = Job("reload", b, IF has = {} THEN Wanted(b, elves, has) ELSE {}, Tail(job.queue))
        /\ UNCHANGED <<phase, mapped, elves, order, is_enabled, own, dangling, site, traps, failed>>

NextBreakpoint ==
    LET b == Head(job.queue)
    IN  /\ job.op = "reload" /\ job.left = {} /\ job.queue # <<>>
        /\ job' = Job("reload", b, Wanted(b, elves, own[b] \cup dangling[b]), Tail(job.queue))
        /\ UNCHANGED <<phase, mapped, elves, order, is_enabled, own, dangling, site, traps, failed>>

Reloaded ==
    /\ job.op = "reload" /\ job.left = {} /\ job.queue = <<>>
    /\ job' = Idle
    /\ failed' = failed \ {"reload"}
    /\ UNCHANGED <<phase, mapped, elves, order, is_enabled, own, dangling, site, traps>>

Stop ==
    /\ phase = "running" /\ job.op = "none"
    /\ phase' = "prompt"
    /\ Reload(mapped)
    /\ UNCHANGED <<mapped, order, is_enabled, own, dangling, site, traps, failed>>

\* dlopen: fresh pages, then the loader's notification, whose hit handler
\* reloads and lets the process run on.
Load(i) ==
    /\ phase = "running" /\ job.op = "none"
    /\ i \notin mapped
    /\ mapped' = mapped \cup {i}
    /\ Reload(mapped')
    /\ UNCHANGED <<phase, order, is_enabled, own, dangling, site, traps, failed>>

\* dlclose: the pages go with the software traps in them.
Unload(i) ==
    /\ phase = "running" /\ job.op = "none"
    /\ i \in mapped \ {Main}
    /\ mapped' = mapped \ {i}
    /\ traps' = {a \in traps : ImageOf[a] # i \/ (Exists(a) /\ site[a].hardware)}
    /\ UNCHANGED <<phase, job, elves, order, is_enabled, own, dangling, site, failed>>

-----------------------------------------------------------------------------
Init ==
    /\ phase = "prompt" /\ job = Idle
    /\ mapped = {Main} /\ elves = {Main}
    /\ order = <<>> /\ is_enabled = {}
    /\ own = [b \in Breakpoint |-> {}]
    /\ dangling = [b \in Breakpoint |-> {}]
    /\ site = [a \in Address |-> NoSite]
    /\ traps = {} /\ failed = {}

User ==
    \/ \E b \in Breakpoint : Create(b) \/ Enable(b) \/ Disable(b) \/ Delete(b)
    \/ \E b \in Breakpoint, a \in Address : ToggleSite(b, a)
    \/ Resume

Debugger ==
    \/ Resolve \/ Constructed \/ EnableSites \/ DisableSites \/ DeleteSites
    \/ Deleted \/ UsesFreed \/ Finish \/ NextBreakpoint \/ Reloaded

Next == User \/ Debugger \/ Stop \/ \E i \in Image : Load(i) \/ Unload(i)

Spec == Init /\ [][Next]_vars

-----------------------------------------------------------------------------
SiteType == [parent : Breakpoint \cup {"none", Destroyed}, enabled : BOOLEAN, hardware : BOOLEAN]

\* Every variable holds a value of its kind.
TypeOK ==
    /\ phase \in {"prompt", "running", "freed", "undefined"}
    /\ job \in [op : Ops, b : Breakpoint \cup {"none"}, left : SUBSET Address, queue : Seq(Breakpoint)]
    /\ {Main} \subseteq mapped /\ mapped \subseteq Image /\ elves \subseteq Image
    /\ order \in Seq(Breakpoint) /\ is_enabled \subseteq Breakpoint
    /\ own \in [Breakpoint -> SUBSET Address]
    /\ dangling \in [Breakpoint -> SUBSET Address]
    /\ site \in [Address -> SiteType]
    /\ traps \subseteq Address /\ failed \subseteq Ops

\* A site that can be hit has a breakpoint that still exists and still holds
\* it, so that wait_on_signal may call parent_->notify_hit(): after failed
\* constructors, aborted deletes and failed reloads too.
HitHasBreakpoint ==
    \A a \in Address : Exists(a) /\ site[a].enabled =>
        \E b \in Listed : site[a].parent = b /\ a \in own[b]

\* No trap is in memory, and no debug register armed, without an enabled site
\* that takes it out again; and in the executable, which stays mapped, no enabled
\* site lacks its trap.
TrapHasSite ==
    /\ \A a \in traps : Exists(a) /\ site[a].enabled
    /\ \A a \in Address : Exists(a) /\ site[a].enabled /\ ImageOf[a] = Main => a \in traps

\* Between commands the pointers of a breakpoint lead to its own sites, each to
\* one breakpoint, unless a delete was aborted by a site that could not be
\* disabled.  Inside a command a destroyed site is used after an aborted delete,
\* and by every delete of a breakpoint with sites: at its end all the pointers
\* that breakpoint::disable goes through dangle.
PointersValid ==
    /\ phase # "freed" /\ job.op = "none" /\ "delete" \notin failed =>
            \A b \in Breakpoint : dangling[b] = {}
    /\ \A b \in Breakpoint : \A a \in own[b] : site[a].parent = b
    /\ job.op = "delete" /\ job.left = {} => own[job.b] = {}
    /\ phase = "undefined" => "delete" \in failed

\* At the prompt every listed breakpoint has a site, enabled or not, at each
\* of its addresses in the images that are known, unless the last reload threw.
PendingResolved ==
    Free /\ "reload" \notin failed =>
        \A b \in Listed : Wanted(b, elves, own[b] \cup dangling[b]) \subseteq own[b] \cup dangling[b]
=============================================================================
