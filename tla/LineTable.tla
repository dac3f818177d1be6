------------------------------ MODULE LineTable -----------------------------
(***************************************************************************)
(* The DWARF line table (sdb::line_table): the machine whose opcodes emit  *)
(* rows, and the two lookups made over the rows.                           *)
(*                                                                         *)
(* A program is not given: every step executes any opcode a compiler may   *)
(* write next, so a behaviour is a program and its execution.  program is  *)
(* the history of it, for the reference definition.                        *)
(***************************************************************************)
EXTENDS Integers, Sequences, FiniteSets, SequencesExt, FiniteSetsExt

CONSTANTS
    LineOps,       \* the opcodes with their operands: [op, n]
    LineBase, LineRange, OpcodeBase, DefaultIsStmt,   \* the header
    LineHeaders,   \* its checked part: [version, instruction, operations, lengths, directories, files]
    CompilationDir, DefinedFile,   \* DW_AT_comp_dir; the file define_file adds
    MaxLineOps     \* bound on the length of a program

Marks == {"basic_block_start", "prologue_end", "epilogue_begin", "discriminator"}
Opcodes ==
    {"copy", "advance_pc", "fixed_advance_pc", "advance_line", "set_file", "set_column", "negate_stmt",
     "const_add_pc", "set_isa", "special", "end_sequence", "set_address", "define_file"} \cup Marks

\* Only advance_line has a signed operand, and a special opcode is a byte.
ASSUME LineTableAssumption ==
    /\ LineRange \in Nat \ {0} /\ OpcodeBase \in 1 .. 255 /\ LineBase \in Int
    /\ DefaultIsStmt \in BOOLEAN
    /\ LineOps \subseteq [op : Opcodes, n : Int]
    /\ \A o \in LineOps : /\ o.op # "advance_line" => o.n \in Nat
                          /\ o.op = "special" => o.n \in OpcodeBase .. 255

VARIABLES
    registers,     \* registers_
    rows,          \* the rows emitted so far: the values of current_
    directories,   \* include_directories_
    file_names,    \* file_names_: paths, as sequences of components
    stray,         \* an operand that will be read as an opcode
    line_status,   \* "unparsed", "running", "end" (pos_ is null) or "error"
    program        \* history: the opcodes executed

lineVars == <<registers, rows, directories, file_names, stray, line_status, program>>

entry == [address |-> 0, file_index |-> 1, line |-> 1, is_stmt |-> DefaultIsStmt,
          end_sequence |-> FALSE, marks |-> {}]

-----------------------------------------------------------------------------
(* The header. *)

IsAbsolute(path) == path # <<>> /\ Head(path) = "/"
PathIn(dir, path) == IF IsAbsolute(path) THEN path ELSE dir \o path

\* parse_line_table_file: a directory index is not checked.
parse_line_table_file(dirs, f) ==
    PathIn(IF IsAbsolute(f.path) \/ f.dir = 0 THEN CompilationDir ELSE dirs[f.dir], f.path)

\* Lengths of the operands of the standard opcodes that the reader knows.
ExpectedLengths == <<0, 1, 1, 1, 1, 0, 0, 0, 1, 0, 0, 1>>

parse_line_table(h) ==
    /\ line_status = "unparsed"
    /\ IF h.version # 4 \/ h.instruction # 1 \/ h.operations # 1 \/ ~IsPrefix(h.lengths, ExpectedLengths)
         THEN line_status' = "error" /\ UNCHANGED <<directories, file_names>>
         ELSE LET dirs == [i \in 1 .. Len(h.directories) |-> PathIn(CompilationDir, h.directories[i])]
              IN  /\ line_status' = "running" /\ directories' = dirs
                  /\ file_names' = [i \in 1 .. Len(h.files) |-> parse_line_table_file(dirs, h.files[i])]
    /\ UNCHANGED <<registers, rows, stray, program>>

-----------------------------------------------------------------------------
(* execute_instruction *)

LineOp(op, n) == [op |-> op, n |-> n]
Executed(op, n) == program' = Append(program, LineOp(op, n))

\* operator++ looks the file up in the table when a row comes out.
Emit(row, next) ==
    /\ rows' = Append(rows, row)
    /\ registers' = next
    /\ line_status' = IF row.file_index \in DOMAIN file_names THEN line_status ELSE "error"

Set(next) == registers' = next /\ UNCHANGED <<rows, line_status>>

\* Mutant: the marks survive the row.
AfterRow_keeps(r) == r
\* What copy and the special opcodes reset once the row is out.
AfterRow(r) == [r EXCEPT !.marks = {}]

copy == Emit(registers, AfterRow(registers))
advance_pc(n) == Set([registers EXCEPT !.address = @ + n])
advance_line(n) == Set([registers EXCEPT !.line = @ + n])
set_file(n) == Set([registers EXCEPT !.file_index = n])
negate_stmt == Set([registers EXCEPT !.is_stmt = ~@])
mark(m) == Set([registers EXCEPT !.marks = @ \cup {m}])
const_add_pc == Set([registers EXCEPT !.address = @ + (255 - OpcodeBase) \div LineRange])
set_address(n) == Set([registers EXCEPT !.address = n])

special(opcode) ==
    LET adjusted == opcode - OpcodeBase
        row == [registers EXCEPT !.address = @ + adjusted \div LineRange,
                                 !.line = @ + LineBase + (adjusted % LineRange)]
    IN  Emit(row, AfterRow(row))

end_sequence == Emit([registers EXCEPT !.end_sequence = TRUE], entry)

\* The operand of set_isa is not read: it is the next opcode.
set_isa == Set(registers)
define_file == Set(registers)

Operandless == {"copy", "negate_stmt", "basic_block_start", "prologue_end", "epilogue_begin", "const_add_pc"}

Perform(op, n) ==
    CASE op = "copy" -> copy
      [] op \in {"advance_pc", "fixed_advance_pc"} -> advance_pc(n)
      [] op = "advance_line" -> advance_line(n)
      [] op = "set_file" -> set_file(n)
      [] op = "set_column" -> Set(registers)
      [] op = "negate_stmt" -> negate_stmt
      [] op \in Marks -> mark(op)
      [] op = "const_add_pc" -> const_add_pc
      [] op = "set_isa" -> set_isa
      [] op = "special" -> special(n)
      [] op = "end_sequence" -> end_sequence
      [] op = "set_address" -> set_address(n)
      [] op = "define_file" -> define_file

InSequence == rows # <<>> /\ ~Last(rows).end_sequence

\* The next opcode.  A compiler sets the address before the first row of a
\* sequence only.
execute_instruction(o) ==
    /\ line_status = "running" /\ Len(program) < MaxLineOps
    /\ stray => o.op \in Operandless
    /\ o.op = "set_address" => ~InSequence
    /\ Perform(o.op, o.n)
    /\ stray' = (o.op = "set_isa")
    /\ file_names' = IF o.op = "define_file"
                       THEN Append(file_names, parse_line_table_file(directories, DefinedFile)) ELSE file_names
    /\ UNCHANGED directories
    /\ Executed(o.op, o.n)

\* operator++ at the end of the data, which is behind a row or is truncated.
AtEnd ==
    /\ line_status = "running"
    /\ line_status' = IF program = <<>> \/ Last(program).op \in {"copy", "special", "end_sequence"}
                        THEN "end" ELSE "error"
    /\ UNCHANGED <<registers, rows, directories, file_names, stray, program>>

LineTableInit ==
    /\ registers = entry /\ rows = <<>> /\ directories = <<>> /\ file_names = <<>>
    /\ stray = FALSE /\ line_status = "unparsed" /\ program = <<>>

LineTableNext == (\E h \in LineHeaders : parse_line_table(h)) \/ AtEnd \/ \E o \in LineOps : execute_instruction(o)

LineTableSpec == LineTableInit /\ [][LineTableNext]_lineVars

-----------------------------------------------------------------------------
(* Lookups: the index of a row, 0 for end(). *)

\* Mutant: a row that ends a sequence is found too.
get_entry_by_address_any(a) ==
    LET found == {i \in 1 .. Len(rows) - 1 : rows[i].address <= a /\ rows[i + 1].address > a}
    IN  IF found = {} THEN 0 ELSE Min(found)

get_entry_by_address(a) ==
    LET found == {i \in 1 .. Len(rows) - 1 :
                    /\ rows[i].address <= a /\ rows[i + 1].address > a
                    /\ ~rows[i].end_sequence}
    IN  IF found = {} THEN 0 ELSE Min(found)

\* A relative path has to be the end of the file's path.
get_entries_by_line(path, l) ==
    {i \in 1 .. Len(rows) :
        /\ rows[i].line = l
        /\ IF IsAbsolute(path) THEN file_names[rows[i].file_index] = path
           ELSE IsSuffix(path, file_names[rows[i].file_index])}

-----------------------------------------------------------------------------
(* Reference definitions. *)

Emits(i) == program[i].op \in {"copy", "special", "end_sequence"}
\* The place in the program that emitted row k, and the last place before i
\* with a property.
EmittedAt(k) == CHOOSE i \in DOMAIN program : Emits(i) /\ Cardinality({j \in 1 .. i : Emits(j)}) = k
LastBefore(i, P(_)) == Max({0} \cup {j \in 1 .. i - 1 : P(j)})

AddressDelta(o) ==
    CASE o.op \in {"advance_pc", "fixed_advance_pc"} -> o.n
      [] o.op = "special" -> (o.n - OpcodeBase) \div LineRange
      [] o.op = "const_add_pc" -> (255 - OpcodeBase) \div LineRange
      [] OTHER -> 0
LineDelta(o) ==
    CASE o.op = "advance_line" -> o.n
      [] o.op = "special" -> LineBase + ((o.n - OpcodeBase) % LineRange)
      [] OTHER -> 0

\* What DWARF says of row k: sums, parities and sets over the opcodes since the
\* sequence, the last set_address or the last row.
ReferenceRow(k) ==
    LET i == EmittedAt(k)
        seq == LastBefore(i, LAMBDA j : program[j].op = "end_sequence")
        base == LastBefore(i, LAMBDA j : program[j].op \in {"end_sequence", "set_address"})
        row == LastBefore(i, Emits)
        file == LastBefore(i, LAMBDA j : j > seq /\ program[j].op = "set_file")
    IN  [address |-> MapThenSumSet(LAMBDA j : AddressDelta(program[j]), base + 1 .. i)
                     + (IF base > 0 /\ program[base].op = "set_address" THEN program[base].n ELSE 0),
         file_index |-> IF file = 0 THEN 1 ELSE program[file].n,
         line |-> 1 + MapThenSumSet(LAMBDA j : LineDelta(program[j]), seq + 1 .. i),
         is_stmt |-> (Cardinality({j \in seq + 1 .. i : program[j].op = "negate_stmt"}) % 2 = 0)
                     = DefaultIsStmt,
         end_sequence |-> program[i].op = "end_sequence",
         marks |-> {program[j].op : j \in row + 1 .. i} \cap Marks]

\* The rows of the sequence that row k belongs to.
SequenceOf(k) ==
    {i \in 1 .. Len(rows) : \A j \in Min({i, k}) .. Max({i, k}) - 1 : ~rows[j].end_sequence}
\* The addresses that a finished sequence covers.
Covers(k, a) ==
    /\ \E i \in SequenceOf(k) : rows[i].end_sequence /\ a < rows[i].address
    /\ \E i \in SequenceOf(k) : rows[i].address <= a

-----------------------------------------------------------------------------
(* Properties. *)

\* Every row that a program without set_isa emits is the one the format defines.
RowsCorrect ==
    (\A i \in DOMAIN program : program[i].op # "set_isa")
        => \A k \in 1 .. Len(rows) : rows[k] = ReferenceRow(k)

\* get_entry_by_address finds a row for every address that a finished sequence
\* covers, and the row is the last of its sequence that does not lie behind the
\* address.  So a row that get_entries_by_line gives to a breakpoint is found
\* again at its address, if it begins a range and the sequences are disjoint.
LookupCorrect ==
    line_status = "end" =>
        LET Addresses == {rows[i].address : i \in 1 .. Len(rows)}
        IN  /\ \A a \in 0 .. Max({0} \cup Addresses) :
                LET r == get_entry_by_address(a)
                IN  IF r = 0 THEN \A k \in 1 .. Len(rows) : ~Covers(k, a)
                    ELSE /\ rows[r].address <= a
                         /\ \A i \in SequenceOf(r) : i > r => rows[i].address > a
                         /\ r # Max(SequenceOf(r))
            /\ (\A j, k \in 1 .. Len(rows), a \in Addresses :
                    Covers(j, a) /\ Covers(k, a) => SequenceOf(j) = SequenceOf(k))
               => \A k \in 1 .. Len(rows) :
                    \A b \in get_entries_by_line(<<Last(file_names[rows[k].file_index])>>, rows[k].line) :
                        Covers(b, rows[b].address) /\ ~rows[b].end_sequence
                        => rows[get_entry_by_address(rows[b].address)].address = rows[b].address
=============================================================================
