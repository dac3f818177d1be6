----------------------------- MODULE Expression -----------------------------
(***************************************************************************)
(* Location descriptions: sdb::dwarf_expression::eval, the location lists  *)
(* it is reached through, and target::read_location_data, which turns its  *)
(* result into the bytes of a variable.                                    *)
(*                                                                         *)
(* As in LineTable every step executes any opcode that a compiler may put  *)
(* next.  exact and meant are history: the stack in exact integers and the *)
(* locations that the expression stands for.  A byte has ByteBits bits and *)
(* a word has two bytes, so that the words stay few.                       *)
(***************************************************************************)
EXTENDS Integers, Sequences, FiniteSets, SequencesExt, FiniteSetsExt, Bitwise

CONSTANTS
    StackOps,        \* the opcodes on the stack: [op, n]
    RegisterValue,   \* the registers of the frame: words
    FrameCfa,        \* registers::cfa
    Ram,             \* memory: a sequence of bytes, its first at address 0
    FrameBase,       \* how DW_AT_frame_base evaluates: a location
    Implicit,        \* contents of implicit_value, as opcodes: see Stray
    PieceSizes,      \* operands of piece and bit_piece: [bits, offset]
    LocationForms,   \* how the attribute is written: [form, list, pc, base]
    MaxStackOps, MaxPieces, MaxDepth     \* bounds

ByteBits == 2
WordBytes == 2
WordBits == ByteBits * WordBytes
M == 2 ^ WordBits

ASSUME ExpressionAssumption ==
    /\ FrameCfa \in 0 .. M - 1 /\ RegisterValue \in [DOMAIN RegisterValue -> 0 .. M - 1]
    /\ Ram \in Seq(0 .. 2 ^ ByteBits - 1)

VARIABLES
    attribute,       \* the attribute evaluated
    in_frame_info,
    stack,
    most_recent_location, result_is_address, pieces,
    executed,        \* opcodes executed, at most MaxStackOps
    skipped,         \* an opcode that a branch jumps over comes next
    evaluation,      \* "list", "running", "done", "empty", "error" or "undefined"
    exact, meant,    \* history
    kind,            \* history: what the current description is
    strayed          \* history: bytes of an operand acted as opcodes

expressionVars == <<attribute, in_frame_info, stack, most_recent_location, result_is_address, pieces,
                    executed, skipped, evaluation, exact, meant, kind, strayed>>

Empty == [at |-> "empty", v |-> 0]
Address(a) == [at |-> "address", v |-> a]
InRegister(r) == [at |-> "register", v |-> r]
Literal(v) == [at |-> "literal", v |-> v]
Data(bytes) == [at |-> "data", v |-> bytes]

-----------------------------------------------------------------------------
(* Location lists: entries [selects, first, second]; one that selects has  *)
(* the new base address in second.                                         *)

\* location_list::eval: the entry whose expression is evaluated, 0 for none.
location_list_entry(a) ==
    LET step(s, i) ==
            LET e == a.list[i]
            IN  IF s.found # 0 THEN s
                ELSE IF e.selects THEN [s EXCEPT !.base = e.second]
                ELSE IF s.base + e.first <= a.pc /\ a.pc < s.base + e.second THEN [s EXCEPT !.found = i]
                ELSE s
    IN  FoldLeft(step, [base |-> a.base, found |-> 0], [i \in 1 .. Len(a.list) |-> i]).found

\* as_evaluated_location and the search in the list.
as_evaluated_location ==
    /\ evaluation = "list"
    /\ evaluation' = CASE attribute.form = "exprloc" -> "running"
                       [] attribute.form = "sec_offset" ->
                            IF location_list_entry(attribute) = 0 THEN "empty" ELSE "running"
                       [] OTHER -> "error"
    /\ UNCHANGED <<attribute, in_frame_info, stack, most_recent_location, result_is_address, pieces,
                   executed, skipped, exact, meant, kind, strayed>>

-----------------------------------------------------------------------------
(* Opcodes on the stack. *)

Signed(w) == IF w >= M \div 2 THEN w - M ELSE w
IsSigned(z) == z \in -(M \div 2) .. M \div 2 - 1
IsUnsigned(z) == z \in 0 .. M - 1
Abs(z) == IF z < 0 THEN 0 - z ELSE z
Quotient(x, y) == LET q == Abs(x) \div Abs(y) IN IF (x < 0) # (y < 0) THEN 0 - q ELSE q
BoolWord(b) == IF b THEN 1 ELSE 0

Compares(op, x, y) ==
    CASE op = "le" -> x <= y [] op = "ge" -> x >= y [] op = "eq" -> x = y
      [] op = "lt" -> x < y  [] op = "gt" -> x > y  [] op = "ne" -> x # y
Relations == {"le", "ge", "eq", "lt", "gt", "ne"}
Shifts == {"shl", "shr", "shra"}
Binary == {"plus", "minus", "mul", "and", "or", "xor", "mod", "div"} \cup Shifts \cup Relations

\* C++ leaves division by zero and shifts past the word undefined.
Defined(op, l, r) ==
    /\ op \in {"mod", "div"} => r # 0
    /\ op \in Shifts => r < WordBits

\* binop on std::uint64_t, relop and div on std::int64_t.
binop(op, l, r) ==
    CASE op = "plus" -> (l + r) % M
      [] op = "minus" -> (l - r) % M
      [] op = "mul" -> (l * r) % M
      [] op = "mod" -> l % r
      [] op = "and" -> l & r
      [] op = "or" -> l | r
      [] op = "xor" -> l ^^ r
      [] op = "shl" -> (l * 2 ^ r) % M
      [] op = "shr" -> l \div 2 ^ r
      [] op = "shra" -> (Signed(l) \div 2 ^ r) % M
      [] op = "div" -> Quotient(Signed(l), Signed(r)) % M
      [] op \in Relations -> BoolWord(Compares(op, Signed(l), Signed(r)))

Unary == {"abs", "neg", "not", "plus_uconst"}
unop(op, n, w) ==
    CASE op = "abs" -> Abs(Signed(w)) % M
      [] op = "neg" -> (0 - Signed(w)) % M
      [] op = "not" -> M - 1 - w
      [] op = "plus_uconst" -> (w + n) % M

Unknown == M ^ 5
\* The same in exact integers; Unknown where a word cannot hold what it stands for.
ExactBinary(op, x, y) ==
    IF Unknown \in {x, y} THEN Unknown
    ELSE CASE op = "plus" -> x + y
           [] op = "minus" -> x - y
           [] op = "mul" -> x * y
           [] op = "shl" /\ IsUnsigned(y) -> x * 2 ^ y
           [] op \in {"mod", "shr"} /\ IsUnsigned(x) /\ IsUnsigned(y) ->
                IF op = "mod" THEN x % y ELSE x \div 2 ^ y
           [] op = "shra" /\ IsSigned(x) /\ IsUnsigned(y) -> x \div 2 ^ y
           [] op = "div" /\ IsSigned(x) /\ IsSigned(y) -> Quotient(x, y)
           [] op \in Relations /\ IsSigned(x) /\ IsSigned(y) -> BoolWord(Compares(op, x, y))
           [] OTHER -> Unknown
ExactUnary(op, n, x) ==
    IF x = Unknown THEN Unknown
    ELSE CASE op = "abs" /\ IsSigned(x) -> Abs(x)
           [] op = "neg" -> 0 - x
           [] op = "not" -> 0 - 1 - x
           [] op = "plus_uconst" -> x + n
           [] OTHER -> Unknown

\* process::read_memory: n bytes, or an error.
Readable(a, n) == a + n <= Len(Ram)
read_memory(a, n) == SubSeq(Ram, a + 1, a + n)
\* Little endian.
FromBytes(bytes) == MapThenSumSet(LAMBDA i : bytes[i] * 2 ^ (ByteBits * (i - 1)), DOMAIN bytes)
ToBytes(w, n) == [i \in 1 .. n |-> (w \div 2 ^ (ByteBits * (i - 1))) % 2 ^ ByteBits]

\* Positions count from the top, as in stack.rbegin().
Top(s, i) == s[Len(s) - i]
Push(s, w) == Append(s, w)
DropN(s, n) == SubSeq(s, 1, Len(s) - n)

\* The opcodes that move entries: on words and on exact integers alike.
Shuffled(op, n, s) ==
    CASE op = "dup" -> Push(s, Top(s, 0))
      [] op = "drop" -> DropN(s, 1)
      [] op = "pick" -> Push(s, Top(s, n))
      [] op = "over" -> Push(s, Top(s, 1))
      [] op = "swap" -> DropN(s, 2) \o <<Top(s, 0), Top(s, 1)>>
      [] op = "rot" -> DropN(s, 3) \o <<Top(s, 0), Top(s, 2), Top(s, 1)>>
Shuffles == {"dup", "drop", "pick", "over", "swap", "rot"}
Pushes == {"lit", "breg", "call_frame_cfa", "fbreg"}

Needs(o) ==
    CASE o.op \in Pushes \cup {"skip"} -> 0
      [] o.op \in {"dup", "drop", "deref", "deref_size", "bra"} \cup Unary -> 1
      [] o.op = "pick" -> o.n + 1
      [] o.op = "rot" -> 3
      [] OTHER -> 2

\* lit stands for every constant; breg has the offset 0 here.
Pushed(o) ==
    CASE o.op = "lit" -> o.n
      [] o.op = "breg" -> RegisterValue[o.n]
      [] o.op = "call_frame_cfa" -> FrameCfa
      [] o.op = "fbreg" -> FrameBase.v + o.n

Becomes(words, exacts) == stack' = words /\ exact' = exacts
Keeps == UNCHANGED <<stack, exact>>

Computes(o) ==
    /\ skipped' = FALSE /\ UNCHANGED strayed
    /\ CASE o.op \in Pushes /\ (o.op = "fbreg" => FrameBase.at = "address") ->
                Becomes(Push(stack, Pushed(o) % M), Push(exact, Pushed(o))) /\ UNCHANGED evaluation
         [] o.op \in Shuffles ->
                Becomes(Shuffled(o.op, o.n, stack), Shuffled(o.op, o.n, exact)) /\ UNCHANGED evaluation
         [] o.op \in Unary ->
                /\ Becomes(Push(DropN(stack, 1), unop(o.op, o.n, Top(stack, 0))),
                           Push(DropN(exact, 1), ExactUnary(o.op, o.n, Top(exact, 0))))
                /\ UNCHANGED evaluation
         [] o.op \in Binary /\ Defined(o.op, Top(stack, 1), Top(stack, 0)) ->
                /\ Becomes(Push(DropN(stack, 2), binop(o.op, Top(stack, 1), Top(stack, 0))),
                           Push(DropN(exact, 2), ExactBinary(o.op, Top(exact, 1), Top(exact, 0))))
                /\ UNCHANGED evaluation
         [] o.op \in {"deref", "deref_size"} /\ Readable(Top(stack, 0), o.n) ->
                LET w == FromBytes(read_memory(Top(stack, 0), o.n))
                IN  Becomes(Push(DropN(stack, 1), w), Push(DropN(exact, 1), w)) /\ UNCHANGED evaluation
         [] OTHER -> Keeps /\ evaluation' = IF o.op \in Binary THEN "undefined" ELSE "error"

\* bra jumps over the code behind it, here one opcode.  Its operand is read only
\* if it jumps: else the operand is executed, and a length from 48 to 79 is a
\* literal.  A jump back is a length that no data has.
Lit0 == 48
Branches(o) ==
    LET jumps == o.op = "skip" \/ Top(stack, 0) # 0
        strays == ~jumps /\ o.n >= Lit0
        after(s) == IF strays THEN Push(DropN(s, 1), o.n - Lit0) ELSE DropN(s, 1)
    IN  /\ IF o.op = "skip" THEN Keeps ELSE Becomes(after(stack), after(exact))
        /\ skipped' = jumps /\ strayed' = (strayed \/ strays)
        /\ evaluation' = IF jumps /\ o.n < 0 THEN "error" ELSE evaluation

\* The next opcode of a description.
Opcode == evaluation = "running" /\ executed < MaxStackOps /\ executed' = executed + 1
InDescription == Opcode /\ kind \in {"none", "address"}

\* An opcode on the stack, or one that a branch has jumped over.
StackOp(o) ==
    /\ InDescription
    /\ Len(stack) >= Needs(o)
    /\ skipped => o.op \notin {"skip", "bra"}
    /\ CASE skipped -> skipped' = FALSE /\ Keeps /\ UNCHANGED <<evaluation, strayed>>
         [] ~skipped /\ o.op \in {"skip", "bra"} -> Branches(o)
         [] OTHER -> Computes(o)
    /\ kind' = IF stack' = <<>> THEN "none" ELSE "address"
    /\ UNCHANGED <<attribute, in_frame_info, most_recent_location, result_is_address, pieces, meant>>

\* xderef, call2, push_object_address and the other opcodes that are refused.
Unsupported ==
    /\ InDescription /\ ~skipped
    /\ evaluation' = "error"
    /\ UNCHANGED <<attribute, in_frame_info, stack, most_recent_location, result_is_address, pieces,
                   skipped, exact, meant, kind, strayed>>

-----------------------------------------------------------------------------
(* Opcodes that name a location. *)

\* reg0 to reg31 and regx.
reg(r) ==
    /\ Opcode /\ kind = "none" /\ ~skipped
    /\ IF in_frame_info
         THEN /\ Becomes(Push(stack, RegisterValue[r]), Push(exact, RegisterValue[r]))
              /\ kind' = "address" /\ UNCHANGED most_recent_location
         ELSE most_recent_location' = <<InRegister(r)>> /\ kind' = "register" /\ Keeps
    /\ UNCHANGED <<attribute, in_frame_info, result_is_address, pieces, skipped, evaluation, meant, strayed>>

\* The bytes of the value are not skipped: those that are opcodes are executed.
implicit_value(v) ==
    /\ Opcode /\ kind = "none" /\ ~skipped
    /\ most_recent_location' = <<Data(v.bytes)>> /\ kind' = "data"
    /\ IF v.pushes THEN Becomes(Push(stack, v.word), Push(exact, v.word)) ELSE Keeps
    /\ strayed' = (strayed \/ v.pushes)
    /\ UNCHANGED <<attribute, in_frame_info, result_is_address, pieces, skipped, evaluation, meant>>

stack_value ==
    /\ Opcode /\ kind = "address" /\ ~skipped
    /\ result_is_address' = FALSE /\ kind' = "value"
    /\ UNCHANGED <<attribute, in_frame_info, stack, most_recent_location, pieces, skipped, evaluation,
                   exact, meant, strayed>>

\* Mutant: the register stays for the next piece.
TakeLocation_keeps ==
    CASE stack = <<>> -> UNCHANGED <<stack, most_recent_location, result_is_address>>
      [] OTHER -> stack' = DropN(stack, 1) /\ result_is_address' = TRUE /\ UNCHANGED most_recent_location
\* get_current_location: the location, and what taking it leaves.
get_current_location ==
    IF stack = <<>> THEN IF most_recent_location = <<>> THEN Empty ELSE most_recent_location[1]
    ELSE IF result_is_address THEN Address(Top(stack, 0)) ELSE Literal(Top(stack, 0))
TakeLocation ==
    CASE stack = <<>> -> most_recent_location' = <<>> /\ UNCHANGED <<stack, result_is_address>>
      [] OTHER -> stack' = DropN(stack, 1) /\ result_is_address' = TRUE /\ UNCHANGED most_recent_location

\* What the description stands for, in exact integers.
Intended ==
    CASE kind = "none" -> Empty
      [] kind = "register" -> most_recent_location[1]
      [] kind = "data" -> most_recent_location[1]
      [] kind = "address" -> Address(Top(exact, 0))
      [] kind = "value" -> Literal(Top(exact, 0))

\* A piece leaves nothing on the stack; the end leaves what it does not use.
Complete == evaluation = "running" /\ ~skipped
Single == kind \in {"address", "value"} => Len(exact) = 1

\* piece and bit_piece.
piece(p) ==
    /\ Complete /\ Single /\ Len(pieces) < MaxPieces
    /\ pieces' = Append(pieces, [location |-> get_current_location, bits |-> p.bits, offset |-> p.offset])
    /\ TakeLocation
    /\ meant' = Append(meant, Intended)
    /\ exact' = <<>> /\ kind' = "none"
    /\ UNCHANGED <<attribute, in_frame_info, executed, skipped, evaluation, strayed>>

\* The end of the data: the pieces, or the one location.
AtExpressionEnd ==
    /\ Complete /\ (pieces # <<>> => kind = "none")
    /\ evaluation' = "done"
    /\ IF pieces # <<>> THEN UNCHANGED <<stack, most_recent_location, result_is_address, pieces, exact, meant>>
       ELSE /\ pieces' = <<[location |-> get_current_location, bits |-> 0, offset |-> 0]>>
            /\ TakeLocation /\ meant' = <<Intended>> /\ exact' = <<>>
    /\ UNCHANGED <<attribute, in_frame_info, executed, skipped, kind, strayed>>

ExpressionInit ==
    /\ attribute \in LocationForms /\ in_frame_info \in BOOLEAN
    /\ \E push_cfa \in BOOLEAN :
        /\ stack = IF push_cfa THEN <<FrameCfa>> ELSE <<>>
        /\ kind = IF push_cfa THEN "address" ELSE "none"
    /\ exact = stack
    /\ most_recent_location = <<>> /\ result_is_address = TRUE /\ pieces = <<>>
    /\ executed = 0 /\ skipped = FALSE /\ evaluation = "list" /\ meant = <<>> /\ strayed = FALSE

ExpressionNext ==
    \/ as_evaluated_location \/ Unsupported \/ stack_value \/ AtExpressionEnd
    \/ \E o \in StackOps : Len(stack) < MaxDepth /\ StackOp(o)
    \/ \E r \in DOMAIN RegisterValue : reg(r)
    \/ \E v \in Implicit : implicit_value(v)
    \/ \E p \in PieceSizes : piece(p)

-----------------------------------------------------------------------------
(* target::read_location_data: bytes, none after an error. *)

ReadError == <<>>

\* A register gives its whole value and an implicit value all its data,
\* whatever the size.
read_simple(loc, size) ==
    CASE loc.at = "register" -> ToBytes(RegisterValue[loc.v], WordBytes)
      [] loc.at = "address" /\ Readable(loc.v, size) -> read_memory(loc.v, size)
      [] loc.at = "data" -> loc.v
      [] loc.at = "literal" /\ size <= WordBytes -> ToBytes(loc.v, size)
      [] OTHER -> ReadError

BitOf(bytes, k) == (bytes[k \div ByteBits + 1] \div 2 ^ (k % ByteBits)) % 2

memcpy_bits(dest, dest_bit, src, src_bit, n) ==
    LET bit(k) == IF k \in dest_bit .. dest_bit + n - 1 THEN BitOf(src, src_bit + k - dest_bit) ELSE BitOf(dest, k)
    IN  [i \in DOMAIN dest |-> MapThenSumSet(LAMBDA b : 2 ^ b * bit((i - 1) * ByteBits + b), 0 .. ByteBits - 1)]

InBytes(bits) == (bits + ByteBits - 1) \div ByteBits

\* Mutant: the offset does not move.
read_piece_stays(s, p) ==
    LET d == read_simple(p.location, InBytes(p.bits))
    IN  IF d = ReadError \/ Len(d) > Len(s.data) THEN [s EXCEPT !.ok = FALSE]
        ELSE [s EXCEPT !.data = [i \in DOMAIN @ |-> IF i \in DOMAIN d THEN d[i] ELSE @[i]]]

\* A whole piece is copied to its offset; any other goes to the first bit and
\* moves no offset.  Bytes behind the end of the buffer are not ok.
read_piece(s, p) ==
    LET d == read_simple(p.location, InBytes(p.bits))
        at == s.offset \div ByteBits
    IN  IF ~s.ok \/ d = ReadError THEN [s EXCEPT !.ok = FALSE]
        ELSE IF s.offset % ByteBits = 0 /\ p.offset = 0 /\ p.bits % ByteBits = 0
        THEN [data |-> [i \in DOMAIN s.data |-> IF i - at \in DOMAIN d THEN d[i - at] ELSE s.data[i]],
              offset |-> s.offset + p.bits, ok |-> at + Len(d) <= Len(s.data)]
        ELSE IF p.offset + p.bits > ByteBits * Len(d) THEN [s EXCEPT !.ok = FALSE]
        ELSE [s EXCEPT !.data = memcpy_bits(@, 0, d, p.offset, p.bits)]

read_location_data(size) ==
    IF pieces[1].bits = 0 THEN read_simple(pieces[1].location, size)
    ELSE LET s == FoldLeft(read_piece, [data |-> [i \in 1 .. size |-> 0], offset |-> 0, ok |-> TRUE], pieces)
         IN  IF s.ok THEN s.data ELSE ReadError

-----------------------------------------------------------------------------
(* Properties. *)

Agree(loc, m) ==
    /\ loc.at = m.at
    /\ IF m.at \in {"address", "literal"} THEN m.v = Unknown \/ (m.v - loc.v) % M = 0 ELSE loc.v = m.v

\* The entries of a list that hold for the pc, each under the base selected last.
ReferenceEntries(a) ==
    LET base(i) == LET b == {j \in 1 .. i - 1 : a.list[j].selects}
                   IN  IF b = {} THEN a.base ELSE a.list[Max(b)].second
    IN  {i \in DOMAIN a.list : /\ ~a.list[i].selects
                               /\ base(i) + a.list[i].first <= a.pc /\ a.pc < base(i) + a.list[i].second}

\* Every piece, or the one location, is what its own part of the expression
\* stands for: no register, value or flag is left over from an earlier part, and
\* words that wrap and are reinterpreted as signed stand for the exact integers
\* where these fit.  A list is searched under the right base.
ExpressionLocates ==
    /\ evaluation = "done" /\ ~strayed =>
            /\ Len(pieces) = Len(meant)
            /\ \A i \in DOMAIN pieces : Agree(pieces[i].location, meant[i])
    /\ attribute.form = "sec_offset" /\ evaluation \notin {"list", "error"} =>
            LET found == ReferenceEntries(attribute)
            IN  IF found = {} THEN evaluation = "empty"
                ELSE evaluation # "empty" /\ location_list_entry(attribute) = Min(found)

Whole == \A i \in DOMAIN pieces : pieces[i].bits % ByteBits = 0 /\ pieces[i].offset = 0
Size == InBytes(MapThenSumSet(LAMBDA i : pieces[i].bits, DOMAIN pieces))

\* The bytes read for whole pieces are those of the pieces one behind the other,
\* and the bits of a single piece are its own, if every byte fits the variable.
ReadsObject ==
    evaluation = "done" /\ pieces[1].bits # 0 =>
        LET data == read_location_data(Size)
            need(i) == InBytes(pieces[i].bits)
            raw(i) == read_simple(pieces[i].location, need(i))
        IN  data # ReadError =>
                /\ Whole /\ (\A i \in DOMAIN pieces : Len(raw(i)) >= need(i))
                        => data = FlattenSeq([i \in DOMAIN pieces |-> SubSeq(raw(i), 1, need(i))])
                /\ Len(pieces) = 1 =>
                        \A k \in 0 .. pieces[1].bits - 1 :
                            k + pieces[1].offset < ByteBits * Len(raw(1))
                            => BitOf(data, k) = BitOf(raw(1), k + pieces[1].offset)
=============================================================================
