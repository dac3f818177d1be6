------------------------------- MODULE DieTree ------------------------------
(***************************************************************************)
(* The debugging information entries of a program (sdb::die, sdb::dwarf):  *)
(* the walk over the children of an entry in the flat data, the ranges of  *)
(* addresses of an entry, the indexes made on the first lookup and the     *)
(* lookups of functions, inlined calls, scopes, variables and members.     *)
(*                                                                         *)
(* The data is written entry by entry by a compiler: an entry that has     *)
(* children is followed by them and by a null entry.  A position is the    *)
(* index of an entry; open keeps the tree, for the reference definitions.  *)
(***************************************************************************)
EXTENDS Integers, Sequences, FiniteSets, SequencesExt, FiniteSetsExt

CONSTANTS
    DieKinds,        \* what a compiler may write: [tag, children, name, location]
    RangeForms,      \* the addresses of an entry: [form, list], [form, low, high] or [form, low]
    UnitLowPc,       \* DW_AT_low_pc of the unit
    ReadAddresses,   \* the addresses looked up
    MaxDies          \* bound on the entries

VARIABLES
    dies,            \* the entries in the order of the data
    open,            \* positions of the entries whose children are being written
    parents          \* history: the position of each entry's parent, 0 for a root

dieVars == <<dies, open, parents>>

NullDie == [tag |-> "null"]
Positions == {i \in DOMAIN dies : dies[i].tag # "null"}

-----------------------------------------------------------------------------
(* Ranges. *)

\* range_list: entries [selects, low, high] up to the terminator; the bounds
\* are relative to the base selected last, at first the unit's.
range_list(list) ==
    FoldLeft(LAMBDA s, e : IF e.selects THEN [s EXCEPT !.base = e.high]
                           ELSE [s EXCEPT !.out = Append(@, [low |-> s.base + e.low, high |-> s.base + e.high])],
             [base |-> UnitLowPc, out |-> <<>>], list).out

HasRange(d) == d.range.form # "none"
low_pc(r) ==
    IF r.form = "ranges" THEN Head(range_list(r.list)).low ELSE r.low
high_pc(r) ==
    CASE r.form = "ranges" -> Last(range_list(r.list)).high
      [] r.form = "addr" -> r.high
      [] r.form = "data" -> r.low + r.high

\* high_pc throws for an entry with a low pc and no high pc, such as a label,
\* and contains_address asks it for every address from the low pc on.
contains_address_throws(r, a) == r.form = "low" /\ low_pc(r) <= a

\* contains_address, where it does not throw.
contains_address(r, a) ==
    CASE r.form = "ranges" -> \E i \in DOMAIN range_list(r.list) :
                                range_list(r.list)[i].low <= a /\ a < range_list(r.list)[i].high
      [] r.form \in {"addr", "data"} -> low_pc(r) <= a /\ a < high_pc(r)
      [] r.form \in {"low", "none"} -> FALSE

-----------------------------------------------------------------------------
(* The walk over children. *)

\* children_range::iterator: from an entry without children the next entry is
\* the sibling; else its children are walked to their null entry first.
\* ListEnd[i] is the null entry of the list that i is in.
ListEnd ==
    LET End[i \in DOMAIN dies] ==
            IF dies[i].tag = "null" THEN i
            ELSE End[IF dies[i].children THEN End[i + 1] + 1 ELSE i + 1]
    IN  End

\* Mutant: the entry behind one with children is taken for its sibling.
next_sibling_flat(i) == i + 1
next_sibling(i) == IF dies[i].children THEN ListEnd[i + 1] + 1 ELSE i + 1

children(i) ==
    LET Siblings[j \in DOMAIN dies] ==
            IF dies[j].tag = "null" THEN <<>> ELSE <<j>> \o Siblings[next_sibling(j)]
    IN  IF dies[i].children THEN Siblings[i + 1] ELSE <<>>

-----------------------------------------------------------------------------
(* Names and indexes. *)

IsFunction(i) == dies[i].tag \in {"subprogram", "inlined_subroutine"}

\* An entry's own name, or that of its specification or abstract origin.
name ==
    LET Name[i \in Positions] ==
            IF dies[i].name # "" THEN dies[i].name
            ELSE IF dies[i].specification # 0 THEN Name[dies[i].specification]
            ELSE IF dies[i].abstract_origin # 0 THEN Name[dies[i].abstract_origin]
            ELSE ""
    IN  Name

\* index_die: an entry and all that its children reach, from each unit.
Subtree ==
    LET Visit[i \in Positions] == {i} \cup UNION {Visit[children(i)[k]] : k \in DOMAIN children(i)}
    IN  Visit
Visited == UNION {Subtree[i] : i \in {j \in Positions : parents[j] = 0}}
InFunction(i) == \E f \in Visited \ {i} : IsFunction(f) /\ i \in Subtree[f]

function_index == {i \in Visited : IsFunction(i) /\ HasRange(dies[i]) /\ name[i] # ""}
global_variable_index ==
    {i \in Visited : dies[i].tag = "variable" /\ dies[i].location /\ name[i] # "" /\ ~InFunction(i)}
\* insert keeps the first definition of a declaration.
member_function_index ==
    LET refs(i) == IF dies[i].specification # 0 THEN dies[i].specification ELSE dies[i].abstract_origin
        defs == {i \in Visited : IsFunction(i) /\ refs(i) # 0}
    IN  [d \in {refs(i) : i \in defs} |-> Min({i \in defs : refs(i) = d})]

-----------------------------------------------------------------------------
(* Lookups: sets and sequences of positions. *)

\* Any of these is returned: the index has no order.
functions_containing_address(a) ==
    {i \in function_index : contains_address(dies[i].range, a) /\ dies[i].tag = "subprogram"}
find_functions(n) == {i \in function_index : name[i] = n}
find_global_variable(n) == {i \in global_variable_index : name[i] = n}

\* From the function inwards, through entries for inlined calls only.
inline_stack_at_address(f, a) ==
    LET Found(i) == SelectSeq(children(i), LAMBDA c : dies[c].tag = "inlined_subroutine"
                                                      /\ contains_address(dies[c].range, a))
        Stack[i \in Positions] == <<i>> \o (IF Found(i) = <<>> THEN <<>> ELSE Stack[Head(Found(i))])
    IN  Stack[f]

\* Mutant: a scope comes before the scopes in it.
scopes_at_address_outward(f, a) ==
    LET Here(i) == SelectSeq(children(i), LAMBDA c : contains_address(dies[c].range, a))
        In[i \in Positions] == FlattenSeq([k \in DOMAIN Here(i) |-> <<Here(i)[k]>> \o In[Here(i)[k]]])
    IN  <<f>> \o In[f]
\* Every child of the function and of the scopes at the address is asked.
scopes_at_address_throws(f, a) ==
    LET Throws[i \in Positions] ==
            \E c \in ToSet(children(i)) : \/ contains_address_throws(dies[c].range, a)
                                          \/ contains_address(dies[c].range, a) /\ Throws[c]
    IN  Throws[f]

\* scopes_at_address, where it does not throw: the scopes in a scope come before
\* it, the function last.
scopes_at_address(f, a) ==
    LET Here(i) == SelectSeq(children(i), LAMBDA c : contains_address(dies[c].range, a))
        In[i \in Positions] == FlattenSeq([k \in DOMAIN Here(i) |-> In[Here(i)[k]] \o <<Here(i)[k]>>])
    IN  In[f] \o <<f>>

\* find_local_variable throws where scopes_at_address does.
IsLocal(i) == dies[i].tag \in {"variable", "formal_parameter"}
find_local_variable(n, f, a) ==
    LET all == FlattenSeq([k \in DOMAIN scopes_at_address(f, a) |-> children(scopes_at_address(f, a)[k])])
        k == SelectInSeq(all, LAMBDA i : IsLocal(i) /\ name[i] = n)
    IN  IF k = 0 THEN 0 ELSE all[k]

\* From a declaration to the entry with code, through entries without.
get_member_function_definition ==
    LET Def[d \in Positions] ==
            IF d \notin DOMAIN member_function_index THEN 0
            ELSE LET i == member_function_index[d] IN IF HasRange(dies[i]) THEN i ELSE Def[i]
    IN  Def

-----------------------------------------------------------------------------
(* The compiler. *)

\* The addresses of an entry, as the format defines them.
Covered(r) == {a \in ReadAddresses : contains_address(r, a)}
Parent == Last(open)

\* Ranges nest, and entries beside each other share no address.
Nests(d) ==
    \A i \in {j \in Positions : HasRange(dies[j])} :
        IF i \in ToSet(open) THEN Covered(d.range) \subseteq Covered(dies[i].range)
        ELSE Covered(d.range) \cap Covered(dies[i].range) = {}

IsNamed(d) == d.name # ""

\* A definition refers to a declaration, an inlined call to an abstract function;
\* a function with code is not inside another, and blocks and inlined calls are
\* directly inside an entry with code.  Only a label has a low pc and no high pc.
Refers(d) ==
    /\ d.specification # 0 => /\ d.tag = "subprogram" /\ dies[d.specification].tag = "subprogram"
                              /\ ~HasRange(dies[d.specification])
                              /\ dies[d.specification].specification = 0
                              /\ \A i \in Positions : dies[i].specification # d.specification
    /\ d.abstract_origin # 0 => /\ IsFunction(d.abstract_origin) /\ ~HasRange(dies[d.abstract_origin])
                                /\ d.tag \in {"subprogram", "inlined_subroutine"} /\ HasRange(d)
    /\ d.tag = "inlined_subroutine" => HasRange(d) /\ d.abstract_origin # 0
    /\ d.tag = "subprogram" /\ HasRange(d) => Len(open) = 1
    /\ d.tag \in {"inlined_subroutine", "lexical_block", "label"} => open # <<>> /\ HasRange(dies[Parent])
    /\ d.tag = "label" => contains_address(dies[Parent].range, d.range.low)
    /\ IsNamed(d) <=> d.specification = 0 /\ d.abstract_origin = 0 /\ d.tag # "lexical_block"
    /\ ~(d.specification # 0 /\ d.abstract_origin # 0)

AddDie(k, r, s, o) ==
    LET d == [tag |-> k.tag, children |-> k.children, name |-> k.name, location |-> k.location,
              range |-> r, specification |-> s, abstract_origin |-> o]
    IN  /\ Len(dies) < MaxDies
        /\ k.tag = "compile_unit" <=> open = <<>>
        /\ k.tag \in {"variable", "formal_parameter", "compile_unit"} => r.form = "none" /\ s = 0 /\ o = 0
        /\ k.tag = "lexical_block" => r.form # "none" /\ s = 0 /\ o = 0
        /\ k.tag = "label" => s = 0 /\ o = 0
        /\ k.tag = "label" <=> r.form = "low"
        /\ s \in Positions \cup {0} /\ o \in Positions \cup {0}
        /\ Refers(d) /\ Nests(d)
        /\ dies' = Append(dies, d)
        /\ parents' = Append(parents, IF open = <<>> THEN 0 ELSE Parent)
        /\ open' = IF k.children THEN Append(open, Len(dies) + 1) ELSE open

EndChildren ==
    /\ open # <<>>
    /\ dies' = Append(dies, NullDie) /\ parents' = Append(parents, 0)
    /\ open' = Front(open)

DieTreeInit == dies = <<>> /\ open = <<>> /\ parents = <<>>
DieTreeNext ==
    \/ EndChildren
    \/ \E k \in DieKinds, r \in RangeForms, s, o \in 0 .. Len(dies) : AddDie(k, r, s, o)

-----------------------------------------------------------------------------
(* Properties. *)

Written == dies # <<>> /\ open = <<>>
\* The entries around i, itself included.
Around ==
    LET Up[i \in Positions] == {i} \cup (IF parents[i] = 0 THEN {} ELSE Up[parents[i]])
    IN  Up

\* The walk over the flat data finds the tree that was written: the children of
\* every entry, in order, past any depth of their own children; so the index has
\* every function with code, a global variable is one outside every function,
\* and a declaration leads to the code of its function through every entry
\* without code.
TreeWalked ==
    Written =>
        /\ \A i \in Positions :
            children(i) = SelectSeq([j \in 1 .. Len(dies) |-> j], LAMBDA j : j \in Positions /\ parents[j] = i)
        /\ \A i \in Positions : IsFunction(i) /\ HasRange(dies[i]) /\ name[i] # "" => i \in find_functions(name[i])
        /\ global_variable_index =
            {i \in Positions : /\ dies[i].tag = "variable" /\ dies[i].location
                               /\ ~\E f \in Around[i] : IsFunction(f)}
        /\ \A i, d \in Positions :
            HasRange(dies[i]) /\ dies[i].specification = d => get_member_function_definition[d] = i

\* What the format defines for a list of ranges.
InRanges(r, a) ==
    \E i \in DOMAIN r.list :
        LET bases == {j \in 1 .. i - 1 : r.list[j].selects}
            base == IF bases = {} THEN UnitLowPc ELSE r.list[Max(bases)].high
        IN  ~r.list[i].selects /\ base + r.list[i].low <= a /\ a < base + r.list[i].high

\* At every address there is at most one function.  The lookup of its scopes
\* fails exactly where one of them holds a label at or before the address, though
\* a label is no scope; elsewhere it gives the entries that cover the address,
\* each before the ones around it, and a local name means the variable of the
\* innermost scope that has one.  Every frame of the inline stack is inside the
\* one before, labels or not.
ScopesNest ==
    Written =>
        \A a \in ReadAddresses :
            /\ \A i \in Positions : dies[i].range.form = "ranges" =>
                    contains_address(dies[i].range, a) = InRanges(dies[i].range, a)
            /\ Cardinality(functions_containing_address(a)) <= 1
            /\ \A f \in functions_containing_address(a) :
                LET scopes == scopes_at_address(f, a)
                    inl == inline_stack_at_address(f, a)
                    covering == {i \in Positions : f \in Around[i] /\ contains_address(dies[i].range, a)}
                    labels == {i \in Positions : dies[i].tag = "label" /\ parents[i] \in covering}
                IN  /\ scopes_at_address_throws(f, a) = \E i \in labels : dies[i].range.low <= a
                    /\ \A k \in 1 .. Len(inl) - 1 : parents[inl[k + 1]] = inl[k]
                    /\ ~scopes_at_address_throws(f, a) =>
                        /\ ToSet(scopes) = covering
                        /\ \A j, k \in DOMAIN scopes :
                            j < k => scopes[k] \in Around[scopes[j]] \/ scopes[j] \notin Around[scopes[k]]
                        /\ \A v \in Positions :
                            IsLocal(v) /\ parents[v] \in ToSet(scopes) =>
                                LET found == find_local_variable(name[v], f, a)
                                IN  found # 0 /\ parents[v] \in Around[parents[found]]
=============================================================================
