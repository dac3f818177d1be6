--------------------------- MODULE LineTableProofs --------------------------
(***************************************************************************)
(* Proofs about LineTable: for every header and every line program, of any *)
(* length, that sets the address only outside a sequence.                  *)
(***************************************************************************)
EXTENDS LineTable, FiniteSetTheorems, WellFoundedInduction, TLAPS

Row == [address : Nat, file_index : Nat, line : Int, is_stmt : BOOLEAN, end_sequence : BOOLEAN,
        marks : SUBSET Marks]

\* No sequence ends from row i up to the row before j.
Joined(i, j) == \A k \in i .. j - 1 : rows[k].end_sequence = FALSE

RowsTyped ==
    /\ rows \in Seq(Row)
    /\ registers \in Row /\ registers.end_sequence = FALSE

\* Addresses do not fall within a sequence, nor does the next row's.
Ascending ==
    /\ \A i, j \in 1 .. Len(rows) : i <= j /\ Joined(i, j) => rows[i].address <= rows[j].address
    /\ \A i \in 1 .. Len(rows) : Joined(i, Len(rows) + 1) => rows[i].address <= registers.address

\* A row lies behind no other.
Bounded == rows # <<>> => \E m \in 1 .. Len(rows) : \A i \in 1 .. Len(rows) : rows[i].address <= rows[m].address

LineTableInv == RowsTyped /\ Ascending /\ Bounded

-----------------------------------------------------------------------------
(* Smallest and largest elements. *)

LEMMA Least ==
    ASSUME NEW S, S \subseteq Nat, S # {}
    PROVE  \E x \in S : \A y \in S : x <= y
<1>1. \E x \in S : \A y \in S : ~(<<y, x>> \in OpToRel(<, Nat))
  BY NatLessThanWellFounded, WFMin
<1>2. PICK x \in S : \A y \in S : ~(<<y, x>> \in OpToRel(<, Nat))
  BY <1>1
<1>3. ASSUME NEW y \in S PROVE x <= y
  <2>1. x \in Nat /\ y \in Nat
    OBVIOUS
  <2>2. y < x => <<y, x>> \in OpToRel(<, Nat)
    BY <2>1 DEF OpToRel
  <2>3. ~(y < x)
    BY <1>2, <2>2, Zenon
  <2> QED
    BY <2>1, <2>3
<1> QED
  BY <1>3

LEMMA Largest ==
    ASSUME NEW n \in Nat, NEW S, S \subseteq 0 .. n, S # {}
    PROVE  \E x \in S : \A y \in S : x >= y
<1> DEFINE T == {n - x : x \in S}
<1>0. ASSUME NEW x \in S PROVE n - x \in Nat
  OBVIOUS
<1>1. T \subseteq Nat /\ T # {}
  BY <1>0, Zenon
<1>2. PICK t \in T : \A y \in T : t <= y
  BY <1>1, Least
<1>3. PICK x \in S : t = n - x
  BY <1>2, Zenon
<1>4. ASSUME NEW y \in S PROVE x >= y
  <2>1. n - y \in T
    OBVIOUS
  <2>2. x \in Int /\ y \in Int /\ t <= n - y
    BY <2>1, <1>2
  <2> QED
    BY <2>2, <1>3
<1> QED
  BY <1>4

LEMMA MinIsLeast ==
    ASSUME NEW S, S \subseteq Nat, S # {}
    PROVE  Min(S) \in S /\ \A y \in S : Min(S) <= y
BY Least DEF Min

LEMMA MaxIsLargest ==
    ASSUME NEW n \in Nat, NEW S, S \subseteq 0 .. n, S # {}
    PROVE  Max(S) \in S /\ \A y \in S : Max(S) >= y
BY Largest DEF Max

LEMMA OfTwo ==
    ASSUME NEW i \in Int, NEW k \in Int
    PROVE  /\ Min({i, k}) = IF i <= k THEN i ELSE k
           /\ Max({i, k}) = IF i <= k THEN k ELSE i
<1>1. Min({i, k}) \in {i, k} /\ \A y \in {i, k} : Min({i, k}) <= y
  <2>1. \E x \in {i, k} : \A y \in {i, k} : x <= y
    OBVIOUS
  <2> QED
    BY <2>1 DEF Min
<1>2. Max({i, k}) \in {i, k} /\ \A y \in {i, k} : Max({i, k}) >= y
  <2>1. \E x \in {i, k} : \A y \in {i, k} : x >= y
    OBVIOUS
  <2> QED
    BY <2>1 DEF Max
<1> QED
  BY <1>1, <1>2

-----------------------------------------------------------------------------
(* What an instruction does. *)

\* The address of a row made by a special opcode.
LEMMA Quotient ==
    ASSUME NEW a \in Nat, NEW b \in Nat \ {0}
    PROVE  a \div b \in Nat
OBVIOUS

\* The registers move on without a row.
Moves ==
    /\ rows' = rows
    /\ registers' \in Row /\ registers'.end_sequence = FALSE
    /\ registers'.address >= registers.address \/ ~InSequence

\* A row comes out.
Outputs(row) ==
    /\ rows' = Append(rows, row)
    /\ row \in Row /\ row.address >= registers.address
    /\ registers' \in Row /\ registers'.end_sequence = FALSE
    /\ row.end_sequence = FALSE => registers'.address = row.address

LEMMA EntryTyped == entry \in Row /\ entry.end_sequence = FALSE
BY LineTableAssumption DEF entry, Row

\* Rows with one flag changed.
LEMMA Changed ==
    ASSUME NEW r \in Row, NEW f \in BOOLEAN
    PROVE  LET s == [r EXCEPT !.is_stmt = f]
               e == [r EXCEPT !.end_sequence = f]
           IN  /\ s \in Row /\ s.end_sequence = r.end_sequence /\ s.address >= r.address
               /\ e \in Row /\ e.end_sequence = f /\ e.address >= r.address
<1>1. r.address \in Nat /\ r.address >= r.address
  BY DEF Row
<1>2. /\ [r EXCEPT !.is_stmt = f] \in Row /\ [r EXCEPT !.end_sequence = f] \in Row
  BY DEF Row
<1>3. /\ [r EXCEPT !.is_stmt = f].end_sequence = r.end_sequence
      /\ [r EXCEPT !.is_stmt = f].address = r.address
      /\ [r EXCEPT !.end_sequence = f].end_sequence = f
      /\ [r EXCEPT !.end_sequence = f].address = r.address
  BY DEF Row
<1> QED
  BY <1>1, <1>2, <1>3

LEMMA InstructionEffect ==
    ASSUME NEW o \in LineOps, execute_instruction(o), RowsTyped
    PROVE  Moves \/ \E row : Outputs(row)
<1>0. /\ registers \in Row /\ registers.end_sequence = FALSE
      /\ o.op \in Opcodes /\ o.n \in Int
      /\ o.op # "advance_line" => o.n \in Nat
      /\ o.op = "special" => o.n \in OpcodeBase .. 255
  BY LineTableAssumption DEF RowsTyped
<1>1. Perform(o.op, o.n) /\ (o.op = "set_address" => ~InSequence)
  BY DEF execute_instruction
<1>2. ASSUME NEW r \in Row, Set(r), r.end_sequence = FALSE, r.address >= registers.address \/ ~InSequence
      PROVE  Moves
  BY <1>2 DEF Set, Moves
<1>3. ASSUME NEW row \in Row, NEW r \in Row, Emit(row, r), row.address >= registers.address,
             r.end_sequence = FALSE, row.end_sequence = FALSE => r.address = row.address
      PROVE  Outputs(row)
  BY <1>3 DEF Emit, Outputs
<1>4. CASE o.op = "copy"
  <2>1. copy
    BY <1>1, <1>4 DEF Perform, Marks
  <2>2. /\ AfterRow(registers) \in Row /\ AfterRow(registers).end_sequence = FALSE
        /\ AfterRow(registers).address = registers.address /\ registers.address >= registers.address
    BY <1>0 DEF AfterRow, Row
  <2> QED
    BY <2>1, <2>2, <1>0, <1>3 DEF copy
<1>5. CASE o.op \in {"advance_pc", "fixed_advance_pc"}
  <2>1. advance_pc(o.n)
    BY <1>1, <1>5 DEF Perform, Marks
  <2> DEFINE r == [registers EXCEPT !.address = @ + o.n]
  <2>2. r \in Row /\ r.end_sequence = FALSE /\ r.address >= registers.address
    BY <1>0, <1>5 DEF Row
  <2> QED
    BY <2>1, <2>2, <1>2 DEF advance_pc
<1>6. CASE o.op = "advance_line"
  <2>1. advance_line(o.n)
    BY <1>1, <1>6 DEF Perform, Marks
  <2> DEFINE r == [registers EXCEPT !.line = @ + o.n]
  <2>2. r \in Row /\ r.end_sequence = FALSE /\ r.address >= registers.address
    BY <1>0 DEF Row
  <2> QED
    BY <2>1, <2>2, <1>2 DEF advance_line
<1>7. CASE o.op = "set_file"
  <2>1. set_file(o.n)
    BY <1>1, <1>7 DEF Perform, Marks
  <2> DEFINE r == [registers EXCEPT !.file_index = o.n]
  <2>2. r \in Row /\ r.end_sequence = FALSE /\ r.address >= registers.address
    BY <1>0, <1>7 DEF Row
  <2> QED
    BY <2>1, <2>2, <1>2 DEF set_file
<1>8. CASE o.op \in {"set_column", "set_isa", "define_file"}
  <2>1. Set(registers)
    BY <1>1, <1>8 DEF Perform, Marks, set_isa, define_file
  <2>2. registers.address >= registers.address
    BY <1>0 DEF Row
  <2> QED
    BY <2>1, <2>2, <1>0, <1>2
<1>9. CASE o.op = "negate_stmt"
  <2>1. negate_stmt
    BY <1>1, <1>9 DEF Perform, Marks
  <2> DEFINE r == [registers EXCEPT !.is_stmt = ~@]
  <2>0. (~registers.is_stmt) \in BOOLEAN
    BY Zenon
  <2>2. r \in Row /\ r.end_sequence = FALSE /\ r.address >= registers.address
    BY <1>0, <2>0, Changed
  <2> QED
    BY <2>1, <2>2, <1>2 DEF negate_stmt
<1>10. CASE o.op \in Marks
  <2>1. mark(o.op)
    BY <1>1, <1>10 DEF Perform, Marks
  <2> DEFINE r == [registers EXCEPT !.marks = @ \cup {o.op}]
  <2>2. r \in Row /\ r.end_sequence = FALSE /\ r.address >= registers.address
    BY <1>0, <1>10 DEF Row
  <2> QED
    BY <2>1, <2>2, <1>2 DEF mark
<1>11. CASE o.op = "const_add_pc"
  <2>1. const_add_pc
    BY <1>1, <1>11 DEF Perform, Marks
  <2> DEFINE r == [registers EXCEPT !.address = @ + (255 - OpcodeBase) \div LineRange]
  <2>2. (255 - OpcodeBase) \div LineRange \in Nat
    BY LineTableAssumption, Quotient
  <2>3. r \in Row /\ r.end_sequence = FALSE /\ r.address >= registers.address
    BY <1>0, <2>2 DEF Row
  <2> QED
    BY <2>1, <2>3, <1>2 DEF const_add_pc
<1>12. CASE o.op = "special"
  <2> DEFINE adjusted == o.n - OpcodeBase
             row == [registers EXCEPT !.address = @ + adjusted \div LineRange,
                                      !.line = @ + LineBase + (adjusted % LineRange)]
  <2>1. Emit(row, AfterRow(row))
    BY <1>1, <1>12 DEF Perform, Marks, special
  <2>2. adjusted \div LineRange \in Nat /\ LineBase \in Int /\ adjusted % LineRange \in Int
    BY <1>0, <1>12, LineTableAssumption, Quotient
  <2>3. row \in Row /\ row.address >= registers.address /\ row.end_sequence = FALSE
    <3>1. registers.address \in Nat /\ registers.line \in Int
      BY <1>0 DEF Row
    <3>2. PICK a \in Nat : a = registers.address + adjusted \div LineRange
      BY <2>2, <3>1
    <3>3. PICK l \in Int : l = registers.line + LineBase + (adjusted % LineRange)
      BY <2>2, <3>1
    <3>4. a >= registers.address
      BY <2>2, <3>1, <3>2
    <3>5. row = [registers EXCEPT !.address = a, !.line = l]
      BY <3>2, <3>3, Zenon
    <3> HIDE DEF row
    <3>6. row \in Row
      BY <1>0, <3>5 DEF Row
    <3>7. row.address = a /\ row.end_sequence = registers.end_sequence
      BY <1>0, <3>5 DEF Row
    <3> QED
      BY <1>0, <3>4, <3>6, <3>7, Zenon
  <2> HIDE DEF row
  <2>4. AfterRow(row) \in Row /\ AfterRow(row).end_sequence = FALSE /\ AfterRow(row).address = row.address
    BY <2>3 DEF AfterRow, Row
  <2> QED
    BY <2>1, <2>3, <2>4, <1>3
<1>13. CASE o.op = "end_sequence"
  <2> DEFINE row == [registers EXCEPT !.end_sequence = TRUE]
  <2>1. Emit(row, entry)
    BY <1>1, <1>13 DEF Perform, Marks, end_sequence
  <2>2. row \in Row /\ row.address >= registers.address /\ row.end_sequence = TRUE
    BY <1>0, Changed
  <2> HIDE DEF row
  <2> QED
    BY <2>1, <2>2, <1>3, EntryTyped
<1>14. CASE o.op = "set_address"
  <2>1. set_address(o.n)
    BY <1>1, <1>14 DEF Perform, Marks
  <2> DEFINE r == [registers EXCEPT !.address = o.n]
  <2>2. r \in Row /\ r.end_sequence = FALSE /\ ~InSequence
    BY <1>0, <1>1, <1>14 DEF Row
  <2> QED
    BY <2>1, <2>2, <1>2 DEF set_address
<1> QED
  BY <1>0, <1>4, <1>5, <1>6, <1>7, <1>8, <1>9, <1>10, <1>11, <1>12, <1>13, <1>14, Zenon DEF Opcodes

-----------------------------------------------------------------------------
(* The invariant. *)

LEMMA RowFields ==
    ASSUME NEW r \in Row
    PROVE  r.address \in Nat /\ r.end_sequence \in BOOLEAN
BY DEF Row

LEMMA KeepsMoves ==
    ASSUME LineTableInv, Moves
    PROVE  LineTableInv'
<1>1. RowsTyped'
  BY DEF LineTableInv, RowsTyped, Moves
<1>2. Bounded'
  BY DEF LineTableInv, Bounded, Moves
<1>3. rows \in Seq(Row) /\ rows' = rows /\ registers.address \in Nat /\ registers'.address \in Nat
  BY RowFields DEF LineTableInv, RowsTyped, Moves
<1>4. ASSUME NEW i \in 1 .. Len(rows), Joined(i, Len(rows) + 1) PROVE rows[i].address <= registers'.address
  <2>0. rows[i].address \in Nat
    BY <1>3, RowFields
  <2>1. rows[i].address <= registers.address
    BY <1>4, Zenon DEF LineTableInv, Ascending
  <2>2. Len(rows) \in i .. (Len(rows) + 1) - 1 /\ rows # <<>>
    BY <1>3
  <2>3. rows[Len(rows)].end_sequence = FALSE
    BY <1>4, <2>2, Zenon DEF Joined
  <2>4. InSequence
    BY <2>2, <2>3 DEF InSequence, Last
  <2> QED
    BY <1>3, <2>0, <2>1, <2>4 DEF Moves
<1>5. Ascending'
  BY <1>3, <1>4 DEF LineTableInv, Ascending, Joined
<1> QED
  BY <1>1, <1>2, <1>5 DEF LineTableInv

LEMMA KeepsOutputs ==
    ASSUME LineTableInv, NEW row, Outputs(row)
    PROVE  LineTableInv'
<1>0. PICK n \in Nat : n = Len(rows)
  BY DEF LineTableInv, RowsTyped
<1>1. /\ rows \in Seq(Row) /\ row \in Row /\ rows' = Append(rows, row)
      /\ registers.address \in Nat /\ registers'.address \in Nat /\ row.address \in Nat
      /\ row.end_sequence \in BOOLEAN
      /\ registers.address <= row.address
      /\ row.end_sequence = FALSE => registers'.address = row.address
  BY RowFields DEF LineTableInv, RowsTyped, Outputs
<1>2. /\ n \in Nat /\ Len(rows') = n + 1 /\ rows'[n + 1] = row
      /\ \A k \in 1 .. n : rows'[k] = rows[k] /\ rows[k].address \in Nat
      /\ rows' # <<>>
  BY <1>0, <1>1, RowFields
<1>3. RowsTyped'
  BY <1>1 DEF RowsTyped, Outputs
<1>4. ASSUME NEW i \in 1 .. n, NEW j \in 1 .. n + 1, Joined(i, j)'
      PROVE  Joined(i, j)
  BY <1>2, <1>4 DEF Joined
<1>5. ASSUME NEW i \in 1 .. n, Joined(i, n + 1)'
      PROVE  rows[i].address <= row.address
  <2>1. Joined(i, n + 1)
    BY <1>2, <1>4, <1>5
  <2>2. rows[i].address <= registers.address
    BY <1>0, <2>1 DEF LineTableInv, Ascending
  <2> QED
    BY <2>2, <1>1, <1>2
<1>6. ASSUME NEW i \in 1 .. n + 1, NEW j \in 1 .. n + 1, i <= j, Joined(i, j)'
      PROVE  rows'[i].address <= rows'[j].address
  <2>1. CASE j = n + 1 /\ i = n + 1
    BY <2>1, <1>1, <1>2
  <2>2. CASE j = n + 1 /\ i \in 1 .. n
    BY <2>2, <1>2, <1>5, <1>6
  <2>3. CASE j \in 1 .. n /\ i \in 1 .. n
    <3>1. Joined(i, j)
      BY <2>3, <1>2, <1>4, <1>6
    <3>2. rows[i].address <= rows[j].address
      BY <1>0, <2>3, <3>1, <1>6 DEF LineTableInv, Ascending
    <3> QED
      BY <2>3, <3>2, <1>2
  <2> QED
    BY <2>1, <2>2, <2>3, <1>2, <1>6
<1>7. ASSUME NEW i \in 1 .. n + 1, Joined(i, n + 2)'
      PROVE  rows'[i].address <= registers'.address
  <2>1. rows'[n + 1].end_sequence = FALSE
    BY <1>2, <1>7 DEF Joined
  <2>2. registers'.address = row.address
    BY <1>1, <1>2, <2>1
  <2>3. Joined(i, n + 1)'
    BY <1>2, <1>7 DEF Joined
  <2>4. CASE i = n + 1
    BY <1>1, <1>2, <2>2, <2>4
  <2>5. CASE i \in 1 .. n
    BY <1>2, <1>5, <2>2, <2>3, <2>5
  <2> QED
    BY <2>4, <2>5, <1>2
<1>8. Ascending'
  <2>1. (n + 1) + 1 = n + 2
    BY <1>2
  <2> QED
    BY <1>2, <1>6, <1>7, <2>1, Zenon DEF Ascending
<1>9. Bounded'
  <2>1. CASE n = 0
    <3>1. n + 1 \in 1 .. n + 1 /\ \A i \in 1 .. n + 1 : rows'[i].address <= rows'[n + 1].address
      BY <1>1, <1>2, <2>1
    <3> QED
      BY <3>1, <1>2 DEF Bounded
  <2>2. CASE n # 0
    <3>1. rows # <<>>
      BY <1>0, <2>2, <1>1
    <3>2. PICK m \in 1 .. n : \A i \in 1 .. n : rows[i].address <= rows[m].address
      BY <1>0, <3>1 DEF LineTableInv, Bounded
    <3>3. CASE rows[m].address >= row.address
      <4>1. m \in 1 .. n + 1 /\ \A i \in 1 .. n + 1 : rows'[i].address <= rows'[m].address
        <5>1. rows'[m] = rows[m] /\ rows[m].address \in Nat /\ m \in 1 .. n + 1
          BY <1>2
        <5>2. ASSUME NEW i \in 1 .. n + 1 PROVE rows'[i].address <= rows[m].address
          <6>1. CASE i = n + 1
            BY <6>1, <1>1, <1>2, <3>3, <5>1
          <6>2. CASE i \in 1 .. n
            BY <6>2, <1>2, <3>2
          <6> QED
            BY <6>1, <6>2
        <5> QED
          BY <5>1, <5>2
      <4> QED
        BY <4>1, <1>2 DEF Bounded
    <3>4. CASE rows[m].address < row.address
      <4>1. n + 1 \in 1 .. n + 1 /\ \A i \in 1 .. n + 1 : rows'[i].address <= rows'[n + 1].address
        BY <1>1, <1>2, <3>2, <3>4
      <4> QED
        BY <4>1, <1>2 DEF Bounded
    <3> QED
      BY <3>3, <3>4, <1>1, <1>2, <3>2
  <2> QED
    BY <2>1, <2>2
<1> QED
  BY <1>3, <1>8, <1>9 DEF LineTableInv

LEMMA LineTableInvHolds == LineTableSpec => []LineTableInv
<1>1. LineTableInit => LineTableInv
  BY EntryTyped DEF LineTableInit, LineTableInv, RowsTyped, Ascending, Bounded
<1>2. LineTableInv /\ [LineTableNext]_lineVars => LineTableInv'
  <2> SUFFICES ASSUME LineTableInv, [LineTableNext]_lineVars PROVE LineTableInv'
    OBVIOUS
  <2>1. ASSUME UNCHANGED <<rows, registers>> PROVE LineTableInv'
    BY <2>1 DEF LineTableInv, RowsTyped, Ascending, Bounded, Joined
  <2>2. ASSUME NEW h \in LineHeaders, parse_line_table(h) PROVE LineTableInv'
    BY <2>1, <2>2 DEF parse_line_table
  <2>3. CASE AtEnd
    BY <2>1, <2>3 DEF AtEnd
  <2>4. ASSUME NEW o \in LineOps, execute_instruction(o) PROVE LineTableInv'
    <3>1. RowsTyped
      BY DEF LineTableInv
    <3> QED
      BY <2>4, <3>1, InstructionEffect, KeepsMoves, KeepsOutputs, Zenon
  <2>5. CASE UNCHANGED lineVars
    BY <2>1, <2>5 DEF lineVars
  <2> QED
    BY <2>2, <2>3, <2>4, <2>5, Zenon DEF LineTableNext
<1> QED
  BY <1>1, <1>2, PTL DEF LineTableSpec

-----------------------------------------------------------------------------
(* The lookup by address. *)

\* The range that row i begins holds a.
Here(i, a) == rows[i].address <= a /\ rows[i + 1].address > a /\ rows[i].end_sequence = FALSE

LEMMA RowsAre ==
    ASSUME RowsTyped
    PROVE  /\ Len(rows) \in Nat
           /\ \A i \in 1 .. Len(rows) : rows[i].address \in Nat /\ rows[i].end_sequence \in BOOLEAN
BY RowFields DEF RowsTyped

LEMMA InSequenceOf ==
    ASSUME RowsTyped, NEW i \in 1 .. Len(rows), NEW k \in 1 .. Len(rows)
    PROVE  /\ i <= k => (i \in SequenceOf(k) <=> Joined(i, k))
           /\ k <= i => (i \in SequenceOf(k) <=> Joined(k, i))
<1>1. \A j \in 1 .. Len(rows) : ~rows[j].end_sequence <=> rows[j].end_sequence = FALSE
  BY RowsAre
<1>2. Len(rows) \in Nat
  BY RowsAre
<1>3. i \in SequenceOf(k) <=> \A j \in Min({i, k}) .. Max({i, k}) - 1 : ~rows[j].end_sequence
  BY Zenon DEF SequenceOf
<1>4. CASE i <= k
  <2>1. Min({i, k}) = i /\ Max({i, k}) = k
    BY <1>4, OfTwo
  <2>2. (\A j \in i .. k - 1 : ~rows[j].end_sequence) <=> Joined(i, k)
    BY <1>1, <1>2 DEF Joined
  <2>3. k <= i => k = i
    BY <1>4
  <2> QED
    BY <1>3, <2>1, <2>2, <2>3
<1>5. CASE ~(i <= k)
  <2>1. Min({i, k}) = k /\ Max({i, k}) = i
    BY <1>5, OfTwo
  <2>2. (\A j \in k .. i - 1 : ~rows[j].end_sequence) <=> Joined(k, i)
    BY <1>1, <1>2 DEF Joined
  <2> QED
    BY <1>3, <1>5, <2>1, <2>2
<1> QED
  BY <1>4, <1>5

\* The lookup returns the first range that holds the address.
LEMMA FirstFound ==
    ASSUME RowsTyped, NEW a, NEW r, r = get_entry_by_address(a)
    PROVE  \/ r = 0 /\ \A i \in 1 .. Len(rows) - 1 : ~Here(i, a)
           \/ /\ r \in 1 .. Len(rows) - 1 /\ Here(r, a)
              /\ \A i \in 1 .. Len(rows) - 1 : Here(i, a) => r <= i
<1> DEFINE found == {i \in 1 .. Len(rows) - 1 :
                       /\ rows[i].address <= a /\ rows[i + 1].address > a
                       /\ ~rows[i].end_sequence}
<1>1. r = IF found = {} THEN 0 ELSE Min(found)
  BY Zenon DEF get_entry_by_address
<1>2. Len(rows) \in Nat /\ \A j \in 1 .. Len(rows) : ~rows[j].end_sequence <=> rows[j].end_sequence = FALSE
  BY RowsAre
<1>3. \A i \in 1 .. Len(rows) - 1 : i \in found <=> Here(i, a)
  BY <1>2 DEF Here
<1>4. found \subseteq 1 .. Len(rows) - 1
  OBVIOUS
<1> HIDE DEF found
<1>5. CASE found = {}
  BY <1>1, <1>3, <1>5
<1>6. CASE found # {}
  <2>1. found \subseteq Nat
    BY <1>2, <1>4
  <2>2. r \in found /\ \A i \in found : r <= i
    BY <1>1, <1>6, <2>1, MinIsLeast
  <2> QED
    BY <1>3, <1>4, <2>2
<1> QED
  BY <1>5, <1>6

\* In a finished sequence that holds the address, some range does.
LEMMA CoveredFound ==
    ASSUME RowsTyped, NEW k \in 1 .. Len(rows), NEW a \in Int, Covers(k, a)
    PROVE  \E i \in 1 .. Len(rows) - 1, e \in 1 .. Len(rows) :
              i < e /\ Here(i, a) /\ rows[e].end_sequence = TRUE
<1> USE RowsAre
<1>1. PICK e \in SequenceOf(k) : rows[e].end_sequence /\ a < rows[e].address
  BY DEF Covers
<1>2. PICK s \in SequenceOf(k) : rows[s].address <= a
  BY DEF Covers
<1>3. e \in 1 .. Len(rows) /\ s \in 1 .. Len(rows)
  BY DEF SequenceOf
<1>4. rows[e].end_sequence = TRUE
  BY <1>1, <1>3
<1>5. k <= e
  <2> SUFFICES ASSUME ~(k <= e) PROVE FALSE
    OBVIOUS
  <2>1. Joined(e, k)
    BY <1>3, InSequenceOf
  <2>2. e \in e .. k - 1
    BY <1>3
  <2> QED
    BY <1>4, <2>1, <2>2 DEF Joined
<1>6. Joined(k, e)
  BY <1>3, <1>5, InSequenceOf
<1>7. s <= e
  <2> SUFFICES ASSUME ~(s <= e) PROVE FALSE
    OBVIOUS
  <2>1. k <= s /\ e \in k .. s - 1
    BY <1>3, <1>5
  <2>2. Joined(k, s)
    BY <1>3, <2>1, InSequenceOf
  <2> QED
    BY <1>4, <2>1, <2>2 DEF Joined
<1>8. Joined(s, e)
  <2>1. CASE k <= s
    BY <1>3, <1>6, <2>1 DEF Joined
  <2>2. CASE s <= k
    <3>1. Joined(s, k)
      BY <1>3, <2>2, InSequenceOf
    <3> QED
      BY <1>3, <1>6, <3>1 DEF Joined
  <2> QED
    BY <1>3, <2>1, <2>2
<1> DEFINE S == {j \in s .. e - 1 : rows[j].address <= a}
<1>9. rows[s].address \in Nat /\ rows[e].address \in Nat /\ Len(rows) \in Nat
  BY <1>3
<1>10. s \in S
  <2>1. s # e
    BY <1>1, <1>2, <1>9
  <2> QED
    BY <1>2, <1>3, <1>7, <2>1
<1>11. S \subseteq 0 .. Len(rows)
  BY <1>3, <1>9
<1>12. PICK i \in S : \A j \in S : i >= j
  BY <1>9, <1>10, <1>11, Largest
<1>13. i \in s .. e - 1 /\ rows[i].address <= a
  OBVIOUS
<1>14. i \in 1 .. Len(rows) - 1 /\ i < e
  BY <1>3, <1>9, <1>13
<1>15. rows[i].end_sequence = FALSE
  BY <1>8, <1>13 DEF Joined
<1>16. rows[i + 1].address > a
  <2>1. CASE i + 1 = e
    BY <1>1, <1>9, <2>1
  <2>2. CASE i + 1 # e
    <3>1. i + 1 \in s .. e - 1
      BY <1>3, <1>13, <2>2
    <3>2. i + 1 \notin S
      BY <1>12, <1>14
    <3>3. ~(rows[i + 1].address <= a)
      BY <3>1, <3>2
    <3>4. rows[i + 1].address \in Nat
      BY <1>3, <1>9, <3>1
    <3> QED
      BY <3>3, <3>4
  <2> QED
    BY <2>1, <2>2
<1> QED
  BY <1>3, <1>4, <1>13, <1>14, <1>15, <1>16 DEF Here

\* The rows behind the one found lie behind the address, and there is one.
LEMMA FoundIsLast ==
    ASSUME RowsTyped, Ascending, NEW a \in Int, NEW r \in 1 .. Len(rows) - 1, Here(r, a)
    PROVE  /\ \A i \in SequenceOf(r) : i > r => rows[i].address > a
           /\ r # Max(SequenceOf(r))
<1>1. /\ Len(rows) \in Nat /\ r \in 1 .. Len(rows) /\ r + 1 \in 1 .. Len(rows)
      /\ rows[r + 1].address \in Nat
  BY RowsAre
<1>2. rows[r + 1].address > a /\ rows[r].end_sequence = FALSE
  BY DEF Here
<1>3. ASSUME NEW i \in SequenceOf(r), i > r PROVE rows[i].address > a
  <2>1. i \in 1 .. Len(rows)
    BY DEF SequenceOf
  <2>2. Joined(r, i)
    BY <1>1, <1>3, <2>1, InSequenceOf
  <2>3. Joined(r + 1, i) /\ r + 1 <= i
    BY <1>1, <1>3, <2>1, <2>2 DEF Joined
  <2>4. rows[r + 1].address <= rows[i].address
    BY <1>1, <2>1, <2>3, Zenon DEF Ascending
  <2>5. rows[i].address \in Nat
    BY <2>1, RowsAre
  <2> QED
    BY <1>1, <1>2, <2>4, <2>5
<1>4. r + 1 \in SequenceOf(r)
  <2>1. Joined(r, r + 1)
    BY <1>1, <1>2 DEF Joined
  <2> QED
    BY <1>1, <2>1, InSequenceOf
<1>5. SequenceOf(r) \subseteq 0 .. Len(rows)
  BY <1>1 DEF SequenceOf
<1>6. Max(SequenceOf(r)) >= r + 1 /\ Max(SequenceOf(r)) \in 0 .. Len(rows)
  BY <1>1, <1>4, <1>5, MaxIsLargest
<1> QED
  BY <1>1, <1>3, <1>6

\* A range before the end of some sequence is covered by its own.
LEMMA FoundCovered ==
    ASSUME RowsTyped, Ascending, NEW a \in Int, NEW r \in 1 .. Len(rows) - 1, Here(r, a),
           NEW e \in 1 .. Len(rows), r <= e, rows[e].end_sequence = TRUE
    PROVE  Covers(r, a)
<1>1. Len(rows) \in Nat /\ r \in 1 .. Len(rows)
  BY RowsAre
<1> DEFINE S == {j \in r .. e : rows[j].end_sequence = TRUE}
<1>2. S \subseteq Nat /\ e \in S
  BY <1>1
<1>3. PICK f \in S : \A j \in S : f <= j
  BY <1>2, Least
<1>4. f \in r .. e /\ rows[f].end_sequence = TRUE /\ f \in 1 .. Len(rows)
  BY <1>1
<1>5. Joined(r, f)
  <2>1. ASSUME NEW j \in r .. f - 1 PROVE rows[j].end_sequence = FALSE
    <3>1. j \in r .. e /\ j \in 1 .. Len(rows) /\ j \notin S
      BY <1>1, <1>3, <1>4
    <3> QED
      BY <3>1, RowsAre
  <2> QED
    BY <2>1 DEF Joined
<1>6. f \in SequenceOf(r)
  BY <1>1, <1>4, <1>5, InSequenceOf
<1>7. r \in SequenceOf(r)
  <2>1. Joined(r, r) /\ r <= r
    BY <1>1 DEF Joined
  <2> QED
    BY <1>1, <2>1, InSequenceOf
<1>8. f > r
  <2>1. f # r
    BY <1>4 DEF Here
  <2> QED
    BY <1>1, <1>4, <2>1
<1>9. rows[f].address > a /\ rows[f].address \in Nat
  BY <1>4, <1>6, <1>8, FoundIsLast, RowsAre
<1>10. a < rows[f].address
  BY <1>9
<1> QED
  BY <1>4, <1>6, <1>7, <1>10 DEF Covers, Here

-----------------------------------------------------------------------------
\* get_entry_by_address finds a row for every address that a finished sequence
\* covers, and the row is the last of its sequence that does not lie behind the
\* address; a line breakpoint's row is found again at its address when
\* the sequences are disjoint.  Whether the last sequence is finished or not,
\* and however long the program is.
THEOREM LookupFinds == LineTableSpec => []LookupCorrect
<1>1. ASSUME LineTableInv PROVE LookupCorrect
  <2> DEFINE Addresses == {rows[i].address : i \in 1 .. Len(rows)}
  <2>0. RowsTyped /\ Ascending /\ Bounded
    BY <1>1 DEF LineTableInv
  <2>1. /\ Len(rows) \in Nat
        /\ \A i \in 1 .. Len(rows) : rows[i].address \in Nat /\ rows[i].end_sequence \in BOOLEAN
    BY <2>0, RowsAre
  <2>2. \E n \in Nat : {0} \cup Addresses \subseteq 0 .. n
    <3>1. CASE Len(rows) = 0
      <4>1. {0} \cup Addresses \subseteq 0 .. 0
        BY <3>1
      <4> QED
        BY <4>1
    <3>2. CASE Len(rows) # 0
      <4>1. rows # <<>>
        BY <3>2
      <4>2. PICK m \in 1 .. Len(rows) : \A i \in 1 .. Len(rows) : rows[i].address <= rows[m].address
        BY <2>0, <4>1 DEF Bounded
      <4>3. rows[m].address \in Nat /\ {0} \cup Addresses \subseteq 0 .. rows[m].address
        BY <2>1, <4>2
      <4> QED
        BY <4>3
    <3> QED
      BY <3>1, <3>2
  <2>3. Max({0} \cup Addresses) \in Nat /\ \A x \in Addresses : x <= Max({0} \cup Addresses) /\ x \in Nat
    <3> HIDE DEF Addresses
    <3>1. PICK n \in Nat : {0} \cup Addresses \subseteq 0 .. n
      BY <2>2
    <3>2. /\ Max({0} \cup Addresses) \in {0} \cup Addresses
          /\ \A y \in {0} \cup Addresses : Max({0} \cup Addresses) >= y
      BY <3>1, MaxIsLargest
    <3> QED
      BY <3>1, <3>2
  <2>4. ASSUME NEW a \in Int
        PROVE  LET r == get_entry_by_address(a)
               IN  IF r = 0 THEN \A k \in 1 .. Len(rows) : ~Covers(k, a)
                   ELSE /\ rows[r].address <= a
                        /\ \A i \in SequenceOf(r) : i > r => rows[i].address > a
                        /\ r # Max(SequenceOf(r))
    <3>1. PICK r : r = get_entry_by_address(a)
      OBVIOUS
    <3>2. \/ r = 0 /\ \A i \in 1 .. Len(rows) - 1 : ~Here(i, a)
          \/ r \in 1 .. Len(rows) - 1 /\ Here(r, a)
      BY <2>0, <3>1, FirstFound
    <3>3. CASE r = 0 /\ \A i \in 1 .. Len(rows) - 1 : ~Here(i, a)
      <4>1. \A k \in 1 .. Len(rows) : ~Covers(k, a)
        BY <2>0, <3>3, CoveredFound
      <4> QED
        BY <3>1, <3>3, <4>1
    <3>4. CASE r \in 1 .. Len(rows) - 1 /\ Here(r, a)
      <4>1. r # 0 /\ rows[r].address <= a
        BY <3>4 DEF Here
      <4>2. (\A i \in SequenceOf(r) : i > r => rows[i].address > a) /\ r # Max(SequenceOf(r))
        BY <2>0, <3>4, FoundIsLast
      <4> QED
        BY <3>1, <4>1, <4>2
    <3> QED
      BY <3>2, <3>3, <3>4
  <2>5. ASSUME \A j, k \in 1 .. Len(rows), a \in Addresses :
                   Covers(j, a) /\ Covers(k, a) => SequenceOf(j) = SequenceOf(k),
               NEW b \in 1 .. Len(rows), Covers(b, rows[b].address)
        PROVE  rows[get_entry_by_address(rows[b].address)].address = rows[b].address
    <3>1. PICK a \in Nat : a = rows[b].address
      BY <2>1
    <3>2. PICK r : r = get_entry_by_address(a)
      OBVIOUS
    <3>0. a \in Int /\ Covers(b, a)
      BY <2>5, <3>1
    <3>3. PICK i \in 1 .. Len(rows) - 1, e \in 1 .. Len(rows) :
            i < e /\ Here(i, a) /\ rows[e].end_sequence = TRUE
      BY <2>0, <3>0, CoveredFound, Zenon
    <3>4. r \in 1 .. Len(rows) - 1 /\ Here(r, a) /\ r <= i
      BY <2>0, <3>2, <3>3, FirstFound
    <3>5. r <= e /\ r \in 1 .. Len(rows) /\ a \in Int
      BY <2>1, <3>3, <3>4
    <3>6. Covers(r, a)
      BY <2>0, <3>3, <3>4, <3>5, FoundCovered
    <3>7. a \in Addresses
      BY <3>1
    <3>8. SequenceOf(r) = SequenceOf(b)
      BY <2>5, <3>1, <3>5, <3>6, <3>7
    <3>9. Joined(b, b) /\ b <= b
      BY <2>1 DEF Joined
    <3>10. b \in SequenceOf(r)
      BY <2>0, <3>8, <3>9, InSequenceOf
    <3>11. ~(b > r)
      <4>1. b > r => rows[b].address > a
        BY <2>0, <3>4, <3>5, <3>10, FoundIsLast
      <4> QED
        BY <2>1, <3>1, <4>1
    <3>12. b <= r
      BY <2>1, <3>5, <3>11
    <3>13. Joined(b, r)
      BY <2>0, <3>5, <3>10, <3>12, InSequenceOf
    <3>14. rows[b].address <= rows[r].address
      BY <2>0, <3>5, <3>12, <3>13, Zenon DEF Ascending
    <3>15. rows[r].address <= a /\ rows[r].address \in Nat
      BY <2>1, <3>4, <3>5 DEF Here
    <3> QED
      BY <3>1, <3>2, <3>14, <3>15
  <2>6. ASSUME NEW a \in 0 .. Max({0} \cup Addresses) PROVE a \in Int
    <3> HIDE DEF Addresses
    <3> QED
      BY <2>3
  <2>7. \A path, l : get_entries_by_line(path, l) \subseteq 1 .. Len(rows)
    BY Zenon DEF get_entries_by_line
  <2> QED
    BY <2>4, <2>5, <2>6, <2>7, Zenon DEF LookupCorrect
<1> QED
  BY <1>1, LineTableInvHolds, PTL
-----------------------------------------------------------------------------
(* Sums over finite sets of places. *)

Pick(s) == CHOOSE x \in s : TRUE

\* it[s] is the sum of g over s, for every part s of S, as MapThenSumSet computes it.
IsSum(it, g, S) ==
    it = [s \in SUBSET S |-> IF s = {} THEN 0 ELSE g[Pick(s)] + it[s \ {Pick(s)}]]

LEMMA Picked ==
    ASSUME NEW S, IsFiniteSet(S), NEW s \in SUBSET S, s # {}
    PROVE  /\ Pick(s) \in s /\ s \ {Pick(s)} \in SUBSET S
           /\ IsFiniteSet(s) /\ Cardinality(s) \in Nat /\ Cardinality(s) > 0
           /\ Cardinality(s \ {Pick(s)}) = Cardinality(s) - 1
<1>1. Pick(s) \in s
  BY DEF Pick
<1>2. IsFiniteSet(s)
  BY FS_Subset
<1>3. Cardinality(s) \in Nat /\ Cardinality(s) # 0
  BY <1>2, FS_CardinalityType, FS_EmptySet
<1>4. Cardinality(s \ {Pick(s)}) = Cardinality(s) - 1
  BY <1>1, <1>2, FS_RemoveElement
<1>5. s \ {Pick(s)} \in SUBSET S /\ Cardinality(s) > 0
  BY <1>3
<1> QED
  BY <1>1, <1>2, <1>3, <1>4, <1>5

\* There is such a function: for the parts of at most n elements, for every n.
LEMMA SumExists ==
    ASSUME NEW S, IsFiniteSet(S), NEW g
    PROVE  \E it : IsSum(it, g, S)
<1> DEFINE D(n) == {s \in SUBSET S : Cardinality(s) <= n}
           Good(it, n) == it = [s \in D(n) |-> IF s = {} THEN 0 ELSE g[Pick(s)] + it[s \ {Pick(s)}]]
           Bad == {n \in Nat : ~ \E it : Good(it, n)}
<1>1. \A s \in SUBSET S : Cardinality(s) \in Nat
  BY FS_Subset, FS_CardinalityType
<1>2. Bad = {}
  <2> SUFFICES ASSUME Bad # {} PROVE FALSE
    OBVIOUS
  <2>1. PICK n \in Bad : \A m \in Bad : n <= m
    BY Least
  <2>2. n # 0
    <3> SUFFICES ASSUME n = 0 PROVE FALSE
      OBVIOUS
    <3> DEFINE f == [s \in D(0) |-> 0]
    <3>1. \A s \in D(0) : s = {}
      <4> SUFFICES ASSUME NEW s \in D(0) PROVE s = {}
        OBVIOUS
      <4>1. IsFiniteSet(s) /\ Cardinality(s) \in Nat /\ Cardinality(s) <= 0
        BY <1>1, FS_Subset
      <4>2. Cardinality(s) = 0
        BY <4>1
      <4> QED
        BY <4>1, <4>2, FS_EmptySet
    <3>2. Good(f, 0)
      BY <3>1, Zenon
    <3> QED
      BY <3>2, <2>1
  <2>3. n - 1 \in Nat /\ n - 1 \notin Bad /\ n \in Nat
    <3>1. n \in Nat
      BY <2>1
    <3> HIDE DEF Bad
    <3> QED
      BY <2>1, <2>2, <3>1
  <2>4. PICK f : Good(f, n - 1)
    BY <2>3, Zenon
  <2> DEFINE h == [s \in D(n) |-> IF s = {} THEN 0 ELSE g[Pick(s)] + f[s \ {Pick(s)}]]
  <2>5. ASSUME NEW s \in D(n), s # {} PROVE h[s \ {Pick(s)}] = f[s \ {Pick(s)}]
    <3>0. s \in SUBSET S /\ Cardinality(s) <= n
      OBVIOUS
    <3>1. s \ {Pick(s)} \in SUBSET S /\ Cardinality(s \ {Pick(s)}) = Cardinality(s) - 1 /\ Cardinality(s) \in Nat
      BY <2>5, <3>0, Picked
    <3>2. Cardinality(s \ {Pick(s)}) <= n - 1 /\ Cardinality(s \ {Pick(s)}) <= n
      BY <2>3, <3>0, <3>1
    <3>3. PICK t : t = s \ {Pick(s)}
      OBVIOUS
    <3>4. t \in D(n - 1) /\ t \in D(n)
      BY <3>1, <3>2, <3>3
    <3>5. f[t] = IF t = {} THEN 0 ELSE g[Pick(t)] + f[t \ {Pick(t)}]
      BY <2>4, <3>4, Zenon
    <3>6. h[t] = IF t = {} THEN 0 ELSE g[Pick(t)] + f[t \ {Pick(t)}]
      BY <3>4, Zenon
    <3> QED
      BY <3>3, <3>5, <3>6, Zenon
  <2>6. Good(h, n)
    <3>1. \A s \in D(n) : (IF s = {} THEN 0 ELSE g[Pick(s)] + f[s \ {Pick(s)}])
                          = (IF s = {} THEN 0 ELSE g[Pick(s)] + h[s \ {Pick(s)}])
      BY <2>5, Zenon
    <3>2. h = [s \in D(n) |-> IF s = {} THEN 0 ELSE g[Pick(s)] + h[s \ {Pick(s)}]]
      BY <3>1, Zenon
    <3> QED
      BY <3>2, Zenon
  <2> QED
    BY <2>1, <2>6, Zenon
<1>3. PICK n : n = Cardinality(S)
  OBVIOUS
<1>4. n \in Nat
  BY <1>3, FS_CardinalityType
<1>5. D(n) = SUBSET S
  BY <1>3, FS_Subset
<1>6. PICK it : Good(it, n)
  BY <1>2, <1>4, Zenon
<1>7. it = [s \in SUBSET S |-> IF s = {} THEN 0 ELSE g[Pick(s)] + it[s \ {Pick(s)}]]
  BY <1>5, <1>6, Zenon
<1> QED
  BY <1>7, Zenon DEF IsSum

LEMMA SumEquation ==
    ASSUME NEW it, NEW g, NEW S, IsSum(it, g, S), NEW s \in SUBSET S
    PROVE  /\ it[{}] = 0
           /\ s # {} => it[s] = g[Pick(s)] + it[s \ {Pick(s)}]
<1>1. \A t \in SUBSET S : it[t] = IF t = {} THEN 0 ELSE g[Pick(t)] + it[t \ {Pick(t)}]
  BY Zenon DEF IsSum
<1>2. {} \in SUBSET S
  OBVIOUS
<1> QED
  BY <1>1, <1>2, Zenon

LEMMA SumType ==
    ASSUME NEW S, IsFiniteSet(S), NEW it, NEW g, IsSum(it, g, S), \A x \in S : g[x] \in Int,
           NEW T \in SUBSET S
    PROVE  it[T] \in Int
<1> DEFINE Bad == {n \in Nat : \E s \in SUBSET S : Cardinality(s) = n /\ it[s] \notin Int}
<1>1. Bad = {}
  <2> SUFFICES ASSUME Bad # {} PROVE FALSE
    OBVIOUS
  <2>1. PICK n \in Bad : \A m \in Bad : n <= m
    BY Least
  <2>2. PICK s \in SUBSET S : Cardinality(s) = n /\ it[s] \notin Int
    OBVIOUS
  <2>3. s # {}
    BY <2>2, SumEquation, 0 \in Int
  <2>4. it[s] = g[Pick(s)] + it[s \ {Pick(s)}]
    BY <2>3, SumEquation
  <2>5. /\ Pick(s) \in S /\ s \ {Pick(s)} \in SUBSET S
        /\ Cardinality(s \ {Pick(s)}) = n - 1 /\ n \in Nat /\ n > 0
    BY <2>2, <2>3, Picked
  <2>6. n - 1 \notin Bad /\ n - 1 \in Nat
    BY <2>1, <2>5
  <2>7. it[s \ {Pick(s)}] \in Int
    BY <2>5, <2>6, Zenon
  <2>8. g[Pick(s)] \in Int
    BY <2>5
  <2> QED
    BY <2>2, <2>4, <2>7, <2>8
<1>2. Cardinality(T) \in Nat
  BY FS_Subset, FS_CardinalityType
<1> QED
  BY <1>1, <1>2

\* Sums of functions that agree are the same.
LEMMA SumAgrees ==
    ASSUME NEW S, NEW R, IsFiniteSet(S), NEW it, NEW jt, NEW g, NEW h, IsSum(it, g, S), IsSum(jt, h, R),
           NEW T \in SUBSET S, T \in SUBSET R, \A x \in T : g[x] = h[x]
    PROVE  it[T] = jt[T]
<1> DEFINE Bad == {n \in Nat : \E s \in SUBSET T : Cardinality(s) = n /\ it[s] # jt[s]}
<1>1. Bad = {}
  <2> SUFFICES ASSUME Bad # {} PROVE FALSE
    OBVIOUS
  <2>1. PICK n \in Bad : \A m \in Bad : n <= m
    BY Least
  <2>2. PICK s \in SUBSET T : Cardinality(s) = n /\ it[s] # jt[s]
    OBVIOUS
  <2>3. s \in SUBSET S /\ s \in SUBSET R
    BY <2>2
  <2>4. s # {}
    BY <2>2, <2>3, SumEquation
  <2>5. it[s] = g[Pick(s)] + it[s \ {Pick(s)}] /\ jt[s] = h[Pick(s)] + jt[s \ {Pick(s)}]
    BY <2>3, <2>4, SumEquation
  <2>6. /\ Pick(s) \in s
        /\ Cardinality(s \ {Pick(s)}) = n - 1 /\ n \in Nat /\ n > 0
    BY <2>2, <2>3, <2>4, Picked
  <2>7. n - 1 \notin Bad /\ n - 1 \in Nat
    BY <2>1, <2>6
  <2>8. s \ {Pick(s)} \in SUBSET T /\ Pick(s) \in T
    BY <2>2, <2>6
  <2>9. it[s \ {Pick(s)}] = jt[s \ {Pick(s)}]
    BY <2>6, <2>7, <2>8, Zenon
  <2>10. g[Pick(s)] = h[Pick(s)]
    BY <2>8
  <2> QED
    BY <2>2, <2>5, <2>9, <2>10, Zenon
<1>2. Cardinality(T) \in Nat /\ T \in SUBSET T
  BY FS_Subset, FS_CardinalityType
<1> QED
  BY <1>1, <1>2

\* Any element may be taken out first.
LEMMA SumTakesOut ==
    ASSUME NEW S, IsFiniteSet(S), NEW it, NEW g, IsSum(it, g, S), \A x \in S : g[x] \in Int,
           NEW T \in SUBSET S, NEW z \in T
    PROVE  it[T] = g[z] + it[T \ {z}]
<1> DEFINE Bad == {n \in Nat : \E s \in SUBSET S : Cardinality(s) = n /\ \E x \in s : it[s] # g[x] + it[s \ {x}]}
<1>1. Bad = {}
  <2> SUFFICES ASSUME Bad # {} PROVE FALSE
    OBVIOUS
  <2>1. PICK n \in Bad : \A m \in Bad : n <= m
    BY Least
  <2>0. PICK s \in SUBSET S : Cardinality(s) = n /\ \E x \in s : it[s] # g[x] + it[s \ {x}]
    BY Zenon
  <2>2. PICK x \in s : Cardinality(s) = n /\ it[s] # g[x] + it[s \ {x}]
    BY <2>0, Zenon
  <2>3. PICK y : y = Pick(s)
    OBVIOUS
  <2>4. it[s] = g[y] + it[s \ {y}]
    BY <2>2, <2>3, SumEquation
  <2>5. /\ y \in s /\ s \ {y} \in SUBSET S /\ s \ {x} \in SUBSET S /\ (s \ {y}) \ {x} \in SUBSET S
        /\ Cardinality(s \ {y}) = n - 1 /\ n \in Nat /\ n > 0
    BY <2>2, <2>3, Picked
  <2>6. x # y
    BY <2>2, <2>4
  <2>7. Cardinality(s \ {x}) = n - 1
    BY <2>2, FS_RemoveElement, FS_Subset
  <2>8. n - 1 \notin Bad /\ n - 1 \in Nat
    BY <2>1, <2>5
  <2>9. x \in s \ {y} /\ y \in s \ {x}
    BY <2>2, <2>5, <2>6
  <2>10. it[s \ {y}] = g[x] + it[(s \ {y}) \ {x}]
    BY <2>5, <2>8, <2>9, Zenon
  <2>11. it[s \ {x}] = g[y] + it[(s \ {x}) \ {y}]
    BY <2>5, <2>7, <2>8, <2>9, Zenon
  <2>12. (s \ {x}) \ {y} = (s \ {y}) \ {x}
    OBVIOUS
  <2>13. g[x] \in Int /\ g[y] \in Int /\ it[(s \ {y}) \ {x}] \in Int
    BY <2>2, <2>5, SumType
  <2>14. PICK c : c = it[(s \ {y}) \ {x}]
    OBVIOUS
  <2>15. g[y] + (g[x] + c) = g[x] + (g[y] + c)
    BY <2>13, <2>14
  <2> QED
    BY <2>2, <2>4, <2>10, <2>11, <2>12, <2>14, <2>15, Zenon
<1>2. Cardinality(T) \in Nat
  BY FS_Subset, FS_CardinalityType
<1> QED
  BY <1>1, <1>2
-----------------------------------------------------------------------------
(* The sums of the reference definition. *)

AddressSum(p, S) == MapThenSumSet(LAMBDA j : AddressDelta(p[j]), S)
LineSum(p, S) == MapThenSumSet(LAMBDA j : LineDelta(p[j]), S)

LEMMA AddressSumIs ==
    ASSUME NEW p, NEW S, IsFiniteSet(S), NEW g, \A x \in S : g[x] = AddressDelta(p[x])
    PROVE  \E it : IsSum(it, g, S) /\ AddressSum(p, S) = it[S]
<1> DEFINE Def(it, s) == IF s = {} THEN 0
                         ELSE AddressDelta(p[CHOOSE x \in s : TRUE]) + it[s \ {CHOOSE x \in s : TRUE}]
           IsIt(it) == it = [s \in SUBSET S |-> Def(it, s)]
           Chosen == CHOOSE it : IsIt(it)
<1>1. ASSUME NEW it PROVE IsIt(it) <=> IsSum(it, g, S)
  <2>1. \A s \in SUBSET S : s # {} => Pick(s) \in S /\ Pick(s) = CHOOSE x \in s : TRUE
    BY DEF Pick
  <2>2. ASSUME NEW s \in SUBSET S PROVE Def(it, s) = IF s = {} THEN 0 ELSE g[Pick(s)] + it[s \ {Pick(s)}]
    <3>1. CASE s = {}
      BY <3>1, Zenon
    <3>2. CASE s # {}
      <4>1. g[Pick(s)] = AddressDelta(p[Pick(s)]) /\ Pick(s) = CHOOSE x \in s : TRUE
        BY <2>1, <3>2, Zenon
      <4>2. Def(it, s) = AddressDelta(p[Pick(s)]) + it[s \ {Pick(s)}]
        BY <3>2, <4>1, Zenon
      <4> QED
        BY <3>2, <4>1, <4>2, Zenon
    <3> QED
      BY <3>1, <3>2
  <2> HIDE DEF Def
  <2> QED
    BY <2>2, Zenon DEF IsSum
<1>2. \E it : IsIt(it)
  BY <1>1, SumExists, Zenon
<1>3. IsIt(Chosen)
  BY <1>2, Zenon
<1>4. AddressSum(p, S) = Chosen[S]
  BY Zenon DEF AddressSum, MapThenSumSet, MapThenFoldSet
<1> QED
  BY <1>1, <1>3, <1>4, Zenon

LEMMA LineSumIs ==
    ASSUME NEW p, NEW S, IsFiniteSet(S), NEW g, \A x \in S : g[x] = LineDelta(p[x])
    PROVE  \E it : IsSum(it, g, S) /\ LineSum(p, S) = it[S]
<1> DEFINE Def(it, s) == IF s = {} THEN 0
                         ELSE LineDelta(p[CHOOSE x \in s : TRUE]) + it[s \ {CHOOSE x \in s : TRUE}]
           IsIt(it) == it = [s \in SUBSET S |-> Def(it, s)]
           Chosen == CHOOSE it : IsIt(it)
<1>1. ASSUME NEW it PROVE IsIt(it) <=> IsSum(it, g, S)
  <2>1. \A s \in SUBSET S : s # {} => Pick(s) \in S /\ Pick(s) = CHOOSE x \in s : TRUE
    BY DEF Pick
  <2>2. ASSUME NEW s \in SUBSET S PROVE Def(it, s) = IF s = {} THEN 0 ELSE g[Pick(s)] + it[s \ {Pick(s)}]
    <3>1. CASE s = {}
      BY <3>1, Zenon
    <3>2. CASE s # {}
      <4>1. g[Pick(s)] = LineDelta(p[Pick(s)]) /\ Pick(s) = CHOOSE x \in s : TRUE
        BY <2>1, <3>2, Zenon
      <4>2. Def(it, s) = LineDelta(p[Pick(s)]) + it[s \ {Pick(s)}]
        BY <3>2, <4>1, Zenon
      <4> QED
        BY <3>2, <4>1, <4>2, Zenon
    <3> QED
      BY <3>1, <3>2
  <2> HIDE DEF Def
  <2> QED
    BY <2>2, Zenon DEF IsSum
<1>2. \E it : IsIt(it)
  BY <1>1, SumExists, Zenon
<1>3. IsIt(Chosen)
  BY <1>2, Zenon
<1>4. LineSum(p, S) = Chosen[S]
  BY Zenon DEF LineSum, MapThenSumSet, MapThenFoldSet
<1> QED
  BY <1>1, <1>3, <1>4, Zenon
LEMMA IntervalSum ==
    ASSUME NEW lo \in Int, NEW i \in Int, lo <= i + 1, NEW g, \A x \in lo .. i + 1 : g[x] \in Int,
           NEW it, IsSum(it, g, lo .. i + 1), NEW jt, IsSum(jt, g, lo .. i)
    PROVE  it[lo .. i + 1] = jt[lo .. i] + g[i + 1]
<1>1. /\ lo .. i \in SUBSET (lo .. i + 1) /\ lo .. i \in SUBSET (lo .. i) /\ lo .. i + 1 \in SUBSET (lo .. i + 1)
      /\ i + 1 \in lo .. i + 1 /\ (lo .. i + 1) \ {i + 1} = lo .. i
  OBVIOUS
<1>2. IsFiniteSet(lo .. i + 1)
  BY FS_Interval
<1>3. it[lo .. i + 1] = g[i + 1] + it[lo .. i]
  BY <1>1, <1>2, SumTakesOut
<1>4. it[lo .. i] = jt[lo .. i]
  BY <1>1, <1>2, SumAgrees
<1>5. it[lo .. i] \in Int /\ g[i + 1] \in Int
  BY <1>1, <1>2, SumType
<1> QED
  BY <1>3, <1>4, <1>5

LEMMA DeltaTypes ==
    ASSUME NEW o \in LineOps
    PROVE  AddressDelta(o) \in Int /\ LineDelta(o) \in Int
<1>1. o.n \in Int /\ OpcodeBase \in Int /\ LineBase \in Int /\ LineRange \in Nat \ {0}
  BY LineTableAssumption
<1>2. /\ (o.n - OpcodeBase) \div LineRange \in Int /\ (o.n - OpcodeBase) % LineRange \in Int
      /\ (255 - OpcodeBase) \div LineRange \in Int
  BY <1>1
<1>3. LineBase + ((o.n - OpcodeBase) % LineRange) \in Int
  BY <1>1, <1>2
<1> QED
  BY <1>1, <1>2, <1>3 DEF AddressDelta, LineDelta

\* Nothing to add up, and one opcode more.
LEMMA AddressSums ==
    ASSUME NEW p \in Seq(LineOps), NEW lo \in Nat \ {0}, NEW i \in 0 .. Len(p)
    PROVE  /\ AddressSum(p, lo .. i) \in Int
           /\ lo > i => AddressSum(p, lo .. i) = 0
           /\ i < Len(p) /\ lo <= i + 1 =>
                AddressSum(p, lo .. i + 1) = AddressSum(p, lo .. i) + AddressDelta(p[i + 1])
<1> DEFINE g == [j \in 1 .. Len(p) |-> AddressDelta(p[j])]
<1>0. Len(p) \in Nat
  OBVIOUS
<1>1. /\ \A j \in 1 .. Len(p) : g[j] = AddressDelta(p[j])
      /\ \A j \in 1 .. Len(p) : p[j] \in LineOps
  OBVIOUS
<1>2. \A j \in 1 .. Len(p) : g[j] \in Int
  BY <1>1, DeltaTypes
<1> HIDE DEF g
<1>3. IsFiniteSet(lo .. i) /\ IsFiniteSet(lo .. i + 1) /\ lo .. i \in SUBSET (1 .. Len(p))
  <2>1. i \in Int /\ i + 1 \in Int /\ lo \in Int
    OBVIOUS
  <2>2. lo .. i \in SUBSET (1 .. Len(p))
    BY <1>0
  <2> QED
    BY <2>1, <2>2, FS_Interval
<1>4. PICK jt : IsSum(jt, g, lo .. i) /\ AddressSum(p, lo .. i) = jt[lo .. i]
  BY <1>1, <1>3, AddressSumIs
<1>5. jt[lo .. i] \in Int
  BY <1>2, <1>3, <1>4, SumType
<1>6. ASSUME lo > i PROVE AddressSum(p, lo .. i) = 0
  <2>1. lo .. i = {}
    BY <1>6
  <2> QED
    BY <1>4, <2>1, SumEquation
<1>7. ASSUME i < Len(p), lo <= i + 1
      PROVE  AddressSum(p, lo .. i + 1) = AddressSum(p, lo .. i) + AddressDelta(p[i + 1])
  <2>1. lo .. i + 1 \subseteq 1 .. Len(p) /\ i + 1 \in 1 .. Len(p)
    BY <1>0, <1>7
  <2>2. PICK it : IsSum(it, g, lo .. i + 1) /\ AddressSum(p, lo .. i + 1) = it[lo .. i + 1]
    BY <1>1, <1>3, <2>1, AddressSumIs
  <2>3. it[lo .. i + 1] = jt[lo .. i] + g[i + 1]
    <3>1. i \in Int /\ lo \in Int /\ \A x \in lo .. i + 1 : g[x] \in Int
      BY <1>2, <2>1
    <3> QED
      BY <1>4, <1>7, <2>2, <3>1, IntervalSum
  <2> QED
    BY <1>1, <1>4, <2>1, <2>2, <2>3
<1> QED
  BY <1>4, <1>5, <1>6, <1>7

LEMMA LineSums ==
    ASSUME NEW p \in Seq(LineOps), NEW lo \in Nat \ {0}, NEW i \in 0 .. Len(p)
    PROVE  /\ LineSum(p, lo .. i) \in Int
           /\ lo > i => LineSum(p, lo .. i) = 0
           /\ i < Len(p) /\ lo <= i + 1 =>
                LineSum(p, lo .. i + 1) = LineSum(p, lo .. i) + LineDelta(p[i + 1])
<1> DEFINE g == [j \in 1 .. Len(p) |-> LineDelta(p[j])]
<1>0. Len(p) \in Nat
  OBVIOUS
<1>1. /\ \A j \in 1 .. Len(p) : g[j] = LineDelta(p[j])
      /\ \A j \in 1 .. Len(p) : p[j] \in LineOps
  OBVIOUS
<1>2. \A j \in 1 .. Len(p) : g[j] \in Int
  BY <1>1, DeltaTypes
<1> HIDE DEF g
<1>3. IsFiniteSet(lo .. i) /\ IsFiniteSet(lo .. i + 1) /\ lo .. i \in SUBSET (1 .. Len(p))
  <2>1. i \in Int /\ i + 1 \in Int /\ lo \in Int
    OBVIOUS
  <2>2. lo .. i \in SUBSET (1 .. Len(p))
    BY <1>0
  <2> QED
    BY <2>1, <2>2, FS_Interval
<1>4. PICK jt : IsSum(jt, g, lo .. i) /\ LineSum(p, lo .. i) = jt[lo .. i]
  BY <1>1, <1>3, LineSumIs
<1>5. jt[lo .. i] \in Int
  BY <1>2, <1>3, <1>4, SumType
<1>6. ASSUME lo > i PROVE LineSum(p, lo .. i) = 0
  <2>1. lo .. i = {}
    BY <1>6
  <2> QED
    BY <1>4, <2>1, SumEquation
<1>7. ASSUME i < Len(p), lo <= i + 1
      PROVE  LineSum(p, lo .. i + 1) = LineSum(p, lo .. i) + LineDelta(p[i + 1])
  <2>1. lo .. i + 1 \subseteq 1 .. Len(p) /\ i + 1 \in 1 .. Len(p)
    BY <1>0, <1>7
  <2>2. PICK it : IsSum(it, g, lo .. i + 1) /\ LineSum(p, lo .. i + 1) = it[lo .. i + 1]
    BY <1>1, <1>3, <2>1, LineSumIs
  <2>3. it[lo .. i + 1] = jt[lo .. i] + g[i + 1]
    <3>1. i \in Int /\ lo \in Int /\ \A x \in lo .. i + 1 : g[x] \in Int
      BY <1>2, <2>1
    <3> QED
      BY <1>4, <1>7, <2>2, <3>1, IntervalSum
  <2> QED
    BY <1>1, <1>4, <2>1, <2>2, <2>3
<1> QED
  BY <1>4, <1>5, <1>6, <1>7

\* The sums over what two programs have in common.
LEMMA SumsCommon ==
    ASSUME NEW p, NEW r, NEW lo \in Int, NEW i \in Int, \A j \in lo .. i : p[j] = r[j]
    PROVE  AddressSum(p, lo .. i) = AddressSum(r, lo .. i) /\ LineSum(p, lo .. i) = LineSum(r, lo .. i)
<1> DEFINE S == lo .. i
           g == [j \in S |-> AddressDelta(p[j])]
           h == [j \in S |-> LineDelta(p[j])]
<1>1. IsFiniteSet(S) /\ S \in SUBSET S
  BY FS_Interval
<1>2. \A j \in S : g[j] = AddressDelta(p[j]) /\ h[j] = LineDelta(p[j]) /\ p[j] = r[j]
  OBVIOUS
<1>3. \A j \in S : g[j] = AddressDelta(r[j]) /\ h[j] = LineDelta(r[j])
  BY <1>2
<1> HIDE DEF S, g, h
<1>4. PICK a : IsSum(a, g, S) /\ AddressSum(p, S) = a[S]
  BY <1>1, <1>2, AddressSumIs
<1>5. PICK b : IsSum(b, g, S) /\ AddressSum(r, S) = b[S]
  BY <1>1, <1>3, AddressSumIs
<1>6. PICK c : IsSum(c, h, S) /\ LineSum(p, S) = c[S]
  BY <1>1, <1>2, LineSumIs
<1>7. PICK d : IsSum(d, h, S) /\ LineSum(r, S) = d[S]
  BY <1>1, <1>3, LineSumIs
<1>8. a[S] = b[S]
  BY <1>1, <1>4, <1>5, SumAgrees
<1>9. c[S] = d[S]
  BY <1>1, <1>6, <1>7, SumAgrees
<1> QED
  BY <1>4, <1>5, <1>6, <1>7, <1>8, <1>9 DEF S
-----------------------------------------------------------------------------
(* What the opcodes of a program p up to place i make of a row, when the    *)
(* places they count from are the latest before q.                          *)

RowOps == {"copy", "special", "end_sequence"}
\* The latest place behind s and before q with an opcode of ops, or 0.
Latest(p, s, q, ops) == Max({0} \cup {j \in 1 .. q - 1 : j > s /\ p[j].op \in ops})
SeqPlace(p, q) == Latest(p, 0, q, {"end_sequence"})
BasePlace(p, q) == Latest(p, 0, q, {"end_sequence", "set_address"})
RowPlace(p, q) == Latest(p, 0, q, RowOps)
FilePlace(p, q) == Latest(p, SeqPlace(p, q), q, {"set_file"})

AddressAt(p, base, i) ==
    AddressSum(p, base + 1 .. i) + (IF base > 0 /\ p[base].op = "set_address" THEN p[base].n ELSE 0)
FileAt(p, file) == IF file = 0 THEN 1 ELSE p[file].n
LineAt(p, seq, i) == 1 + LineSum(p, seq + 1 .. i)
Negations(p, seq, i) == {j \in seq + 1 .. i : p[j].op = "negate_stmt"}
StmtAt(p, seq, i) == (Cardinality(Negations(p, seq, i)) % 2 = 0) = DefaultIsStmt
MarksAt(p, row, i) == {p[j].op : j \in row + 1 .. i} \cap Marks

Matches(r, p, q, i) ==
    /\ r.address = AddressAt(p, BasePlace(p, q), i)
    /\ r.file_index = FileAt(p, FilePlace(p, q))
    /\ r.line = LineAt(p, SeqPlace(p, q), i)
    /\ r.is_stmt = StmtAt(p, SeqPlace(p, q), i)
    /\ r.marks = MarksAt(p, RowPlace(p, q), i)

RowsUpTo(p, i) == {j \in 1 .. i : p[j].op \in RowOps}
\* Place i of the program emitted row k.
Emitted(p, i, k, row) ==
    /\ p[i].op \in RowOps /\ Cardinality(RowsUpTo(p, i)) = k
    /\ row.end_sequence = (p[i].op = "end_sequence")
    /\ Matches(row, p, i, i)

\* The registers are what the program so far makes of them, and so was every row.
ProgramInv ==
    /\ program \in Seq(LineOps)
    /\ Matches(registers, program, Len(program) + 1, Len(program))
    /\ Len(rows) = Cardinality(RowsUpTo(program, Len(program)))
    /\ \A k \in 1 .. Len(rows) : \E i \in 1 .. Len(program) : Emitted(program, i, k, rows[k])

LEMMA LatestIs ==
    ASSUME NEW p, NEW s \in Nat, NEW q \in Nat \ {0}, NEW ops
    PROVE  /\ Latest(p, s, q, ops) \in 0 .. q - 1
           /\ Latest(p, s, q, ops) # 0 => Latest(p, s, q, ops) > s /\ p[Latest(p, s, q, ops)].op \in ops
           /\ \A j \in 1 .. q - 1 : j > s /\ p[j].op \in ops => j <= Latest(p, s, q, ops)
<1> DEFINE S == {0} \cup {j \in 1 .. q - 1 : j > s /\ p[j].op \in ops}
<1>1. S \subseteq 0 .. q - 1 /\ S # {} /\ q - 1 \in Nat
  OBVIOUS
<1>2. Max(S) \in S /\ \A y \in S : Max(S) >= y
  <2> HIDE DEF S
  <2> QED
    BY <1>1, MaxIsLargest
<1>3. Latest(p, s, q, ops) = Max(S)
  BY Zenon DEF Latest
<1>4. PICK m : m = Max(S)
  OBVIOUS
<1> QED
  BY <1>2, <1>3, <1>4

LEMMA LatestCommon ==
    ASSUME NEW p, NEW r, NEW s, NEW q, \A j \in 1 .. q - 1 : p[j] = r[j], NEW ops
    PROVE  Latest(p, s, q, ops) = Latest(r, s, q, ops)
<1>1. {j \in 1 .. q - 1 : j > s /\ p[j].op \in ops} = {j \in 1 .. q - 1 : j > s /\ r[j].op \in ops}
  BY Zenon
<1> QED
  BY <1>1, Zenon DEF Latest

LEMMA LatestNext ==
    ASSUME NEW p, NEW s \in Nat, NEW q \in Nat \ {0}, NEW ops
    PROVE  Latest(p, s, q + 1, ops) = IF q > s /\ p[q].op \in ops THEN q ELSE Latest(p, s, q, ops)
<1>1. CASE q > s /\ p[q].op \in ops
  <2>1. q + 1 \in Nat \ {0} /\ q \in 1 .. (q + 1) - 1
    OBVIOUS
  <2>2. q <= Latest(p, s, q + 1, ops) /\ Latest(p, s, q + 1, ops) \in 0 .. (q + 1) - 1
    BY <1>1, <2>1, LatestIs
  <2> QED
    BY <1>1, <2>2
<1>2. CASE ~(q > s /\ p[q].op \in ops)
  <2>1. {j \in 1 .. (q + 1) - 1 : j > s /\ p[j].op \in ops} = {j \in 1 .. q - 1 : j > s /\ p[j].op \in ops}
    <3>1. \A j : j \in 1 .. (q + 1) - 1 <=> j \in 1 .. q - 1 \/ j = q
      OBVIOUS
    <3> QED
      BY <1>2, <3>1, Zenon
  <2>2. Latest(p, s, q + 1, ops) = Latest(p, s, q, ops)
    BY <2>1, Zenon DEF Latest
  <2> QED
    BY <1>2, <2>2, Zenon
<1> QED
  BY <1>1, <1>2, Zenon

\* Where a position starts anew, and where it stays.
LEMMA SinceHere ==
    ASSUME NEW p \in Seq(LineOps), NEW i \in 0 .. Len(p)
    PROVE  /\ AddressAt(p, i, i) = IF i > 0 /\ p[i].op = "set_address" THEN p[i].n ELSE 0
           /\ LineAt(p, i, i) = 1
           /\ StmtAt(p, i, i) = DefaultIsStmt
           /\ MarksAt(p, i, i) = {}
<1>0. i + 1 \in Nat \ {0} /\ i + 1 > i /\ i + 1 .. i = {} /\ i \in Nat
  OBVIOUS
<1>1. AddressSum(p, i + 1 .. i) = 0
  BY <1>0, AddressSums
<1>2. LineSum(p, i + 1 .. i) = 0
  BY <1>0, LineSums
<1>3. ASSUME i > 0 PROVE p[i].n \in Int
  BY <1>3, LineTableAssumption
<1>4. Cardinality(Negations(p, i, i)) = 0
  BY <1>0, FS_EmptySet DEF Negations
<1>5. (Cardinality(Negations(p, i, i)) % 2 = 0) = TRUE
  BY <1>4
<1>6. StmtAt(p, i, i) = DefaultIsStmt
  BY <1>5, LineTableAssumption, Zenon DEF StmtAt
<1> QED
  BY <1>0, <1>1, <1>2, <1>3, <1>6 DEF AddressAt, LineAt, MarksAt

\* One opcode more.
LEMMA OneMore ==
    ASSUME NEW p \in Seq(LineOps), NEW i \in Nat, i + 1 <= Len(p), NEW b \in 0 .. i
    PROVE  /\ AddressAt(p, b, i) \in Int /\ LineAt(p, b, i) \in Int /\ StmtAt(p, b, i) \in BOOLEAN
           /\ AddressAt(p, b, i + 1) = AddressAt(p, b, i) + AddressDelta(p[i + 1])
           /\ LineAt(p, b, i + 1) = LineAt(p, b, i) + LineDelta(p[i + 1])
           /\ StmtAt(p, b, i + 1) = IF p[i + 1].op = "negate_stmt" THEN ~StmtAt(p, b, i) ELSE StmtAt(p, b, i)
           /\ MarksAt(p, b, i + 1) = MarksAt(p, b, i) \cup ({p[i + 1].op} \cap Marks)
<1>0. /\ b + 1 \in Nat \ {0} /\ i \in 0 .. Len(p) /\ i < Len(p) /\ b + 1 <= i + 1 /\ Len(p) \in Nat
      /\ b \in Nat /\ i + 1 \in 1 .. Len(p)
  OBVIOUS
<1>1. /\ AddressSum(p, b + 1 .. i) \in Int
      /\ AddressSum(p, b + 1 .. i + 1) = AddressSum(p, b + 1 .. i) + AddressDelta(p[i + 1])
  BY <1>0, AddressSums
<1>2. /\ LineSum(p, b + 1 .. i) \in Int
      /\ LineSum(p, b + 1 .. i + 1) = LineSum(p, b + 1 .. i) + LineDelta(p[i + 1])
  BY <1>0, LineSums
<1>3. p[i + 1] \in LineOps /\ (b > 0 => p[b].n \in Int)
  BY <1>0, LineTableAssumption
<1>4. AddressDelta(p[i + 1]) \in Int /\ LineDelta(p[i + 1]) \in Int
  BY <1>3, DeltaTypes
<1>5. /\ AddressAt(p, b, i) \in Int /\ LineAt(p, b, i) \in Int
      /\ AddressAt(p, b, i + 1) = AddressAt(p, b, i) + AddressDelta(p[i + 1])
      /\ LineAt(p, b, i + 1) = LineAt(p, b, i) + LineDelta(p[i + 1])
  BY <1>0, <1>1, <1>2, <1>3, <1>4 DEF AddressAt, LineAt
<1>6. \A j : j \in b + 1 .. i + 1 <=> j \in b + 1 .. i \/ j = i + 1
  BY <1>0
<1>7. MarksAt(p, b, i + 1) = MarksAt(p, b, i) \cup ({p[i + 1].op} \cap Marks)
  BY <1>6, Zenon DEF MarksAt
<1>8. IsFiniteSet(Negations(p, b, i)) /\ i + 1 \notin Negations(p, b, i)
  <2>1. IsFiniteSet(b + 1 .. i)
    BY <1>0, FS_Interval
  <2>2. Negations(p, b, i) \in SUBSET (b + 1 .. i)
    BY DEF Negations
  <2> QED
    BY <1>0, <2>1, <2>2, FS_Subset
<1>9. Cardinality(Negations(p, b, i)) \in Nat
  BY <1>8, FS_CardinalityType
<1>10. StmtAt(p, b, i) \in BOOLEAN
  BY Zenon DEF StmtAt
<1>11. StmtAt(p, b, i + 1) = IF p[i + 1].op = "negate_stmt" THEN ~StmtAt(p, b, i) ELSE StmtAt(p, b, i)
  <2>1. CASE p[i + 1].op = "negate_stmt"
    <3>1. Negations(p, b, i + 1) = Negations(p, b, i) \cup {i + 1}
      BY <1>6, <2>1, Zenon DEF Negations
    <3>2. Cardinality(Negations(p, b, i + 1)) = Cardinality(Negations(p, b, i)) + 1
      BY <1>8, <3>1, FS_AddElement
    <3>3. (Cardinality(Negations(p, b, i + 1)) % 2 = 0) <=> ~(Cardinality(Negations(p, b, i)) % 2 = 0)
      BY <1>9, <3>2
    <3>4. StmtAt(p, b, i + 1) = ~StmtAt(p, b, i)
      BY <3>3, LineTableAssumption, Zenon DEF StmtAt
    <3> QED
      BY <2>1, <3>4, Zenon
  <2>2. CASE p[i + 1].op # "negate_stmt"
    <3>1. Negations(p, b, i + 1) = Negations(p, b, i)
      BY <1>6, <2>2, Zenon DEF Negations
    <3> QED
      BY <2>2, <3>1, Zenon DEF StmtAt
  <2> QED
    BY <2>1, <2>2, Zenon
<1> QED
  BY <1>5, <1>7, <1>10, <1>11, Zenon
LEMMA Places ==
    ASSUME NEW p, NEW q \in Nat \ {0}
    PROVE  /\ SeqPlace(p, q) \in 0 .. q - 1 /\ BasePlace(p, q) \in 0 .. q - 1
           /\ RowPlace(p, q) \in 0 .. q - 1 /\ FilePlace(p, q) \in 0 .. q - 1
<1>1. \A s \in Nat : \A ops : Latest(p, s, q, ops) \in 0 .. q - 1
  BY LatestIs
<1>2. 0 \in Nat
  OBVIOUS
<1>3. SeqPlace(p, q) \in 0 .. q - 1
  BY <1>1, <1>2, Zenon DEF SeqPlace
<1>4. SeqPlace(p, q) \in Nat
  BY <1>3
<1> QED
  BY <1>1, <1>2, <1>3, <1>4, Zenon DEF SeqPlace, BasePlace, RowPlace, FilePlace

\* What is behind place i of a program changes nothing up to there.
LEMMA MatchesCommon ==
    ASSUME NEW p, NEW r, NEW i \in Nat, NEW q \in Nat \ {0}, q <= i + 1,
           \A j \in 1 .. i : p[j] = r[j], NEW row, Matches(row, p, q, i)
    PROVE  Matches(row, r, q, i)
<1>1. \A j \in 1 .. q - 1 : p[j] = r[j]
  OBVIOUS
<1>2. ASSUME NEW s, NEW ops PROVE Latest(p, s, q, ops) = Latest(r, s, q, ops)
  BY <1>1, LatestCommon
<1>3. /\ SeqPlace(p, q) = SeqPlace(r, q) /\ BasePlace(p, q) = BasePlace(r, q)
      /\ RowPlace(p, q) = RowPlace(r, q) /\ FilePlace(p, q) = FilePlace(r, q)
  BY <1>2, Zenon DEF SeqPlace, BasePlace, RowPlace, FilePlace
<1>4. ASSUME NEW b \in 0 .. q - 1
      PROVE  /\ AddressAt(p, b, i) = AddressAt(r, b, i) /\ LineAt(p, b, i) = LineAt(r, b, i)
             /\ FileAt(p, b) = FileAt(r, b) /\ StmtAt(p, b, i) = StmtAt(r, b, i)
             /\ MarksAt(p, b, i) = MarksAt(r, b, i)
  <2>1. b + 1 \in Int /\ i \in Int /\ \A j \in b + 1 .. i : p[j] = r[j]
    OBVIOUS
  <2>2. AddressSum(p, b + 1 .. i) = AddressSum(r, b + 1 .. i) /\ LineSum(p, b + 1 .. i) = LineSum(r, b + 1 .. i)
    BY <2>1, SumsCommon
  <2>3. b # 0 => p[b] = r[b]
    OBVIOUS
  <2>4. b > 0 => p[b] = r[b]
    OBVIOUS
  <2>5. AddressAt(p, b, i) = AddressAt(r, b, i) /\ LineAt(p, b, i) = LineAt(r, b, i) /\ FileAt(p, b) = FileAt(r, b)
    BY <2>2, <2>3, <2>4, Zenon DEF AddressAt, LineAt, FileAt
  <2>6. Negations(p, b, i) = Negations(r, b, i) /\ MarksAt(p, b, i) = MarksAt(r, b, i)
    BY <2>1, Zenon DEF Negations, MarksAt
  <2> QED
    BY <2>5, <2>6, Zenon DEF StmtAt
<1> QED
  BY <1>3, <1>4, Places, Zenon DEF Matches

\* y is x with the opcode o worked in, and z is y with what o starts anew.
Worked(x, o, y) ==
    /\ y.address = x.address + AddressDelta(o)
    /\ y.file_index = x.file_index
    /\ y.line = x.line + LineDelta(o)
    /\ y.is_stmt = IF o.op = "negate_stmt" THEN ~x.is_stmt ELSE x.is_stmt
    /\ y.marks = x.marks \cup ({o.op} \cap Marks)

StartsAnew(y, o, z) ==
    /\ z.address = IF o.op = "end_sequence" THEN 0 ELSE IF o.op = "set_address" THEN o.n ELSE y.address
    /\ z.file_index = IF o.op = "end_sequence" THEN 1 ELSE IF o.op = "set_file" THEN o.n ELSE y.file_index
    /\ z.line = IF o.op = "end_sequence" THEN 1 ELSE y.line
    /\ z.is_stmt = IF o.op = "end_sequence" THEN DefaultIsStmt ELSE y.is_stmt
    /\ z.marks = IF o.op \in RowOps THEN {} ELSE y.marks

LEMMA MatchesWorked ==
    ASSUME NEW p \in Seq(LineOps), NEW i \in Nat, i + 1 <= Len(p), NEW x, NEW y,
           Matches(x, p, i + 1, i), Worked(x, p[i + 1], y)
    PROVE  Matches(y, p, i + 1, i + 1)
<1>1. i + 1 \in Nat \ {0} /\ (i + 1) - 1 = i
  OBVIOUS
<1>2. /\ SeqPlace(p, i + 1) \in 0 .. i /\ BasePlace(p, i + 1) \in 0 .. i /\ RowPlace(p, i + 1) \in 0 .. i
  BY <1>1, Places, Zenon
<1>3. y.address = AddressAt(p, BasePlace(p, i + 1), i + 1)
  BY <1>2, OneMore DEF Matches, Worked
<1>4. y.line = LineAt(p, SeqPlace(p, i + 1), i + 1)
  BY <1>2, OneMore DEF Matches, Worked
<1>5. y.is_stmt = StmtAt(p, SeqPlace(p, i + 1), i + 1)
  <2>1. PICK s \in 0 .. i : s = SeqPlace(p, i + 1)
    BY <1>2
  <2>2. StmtAt(p, s, i + 1) = IF p[i + 1].op = "negate_stmt" THEN ~StmtAt(p, s, i) ELSE StmtAt(p, s, i)
    BY OneMore, Zenon
  <2>3. y.is_stmt = IF p[i + 1].op = "negate_stmt" THEN ~x.is_stmt ELSE x.is_stmt
    BY Zenon DEF Worked
  <2>4. x.is_stmt = StmtAt(p, s, i)
    BY <2>1, Zenon DEF Matches
  <2> QED
    BY <2>1, <2>2, <2>3, <2>4, Zenon
<1>6. y.marks = MarksAt(p, RowPlace(p, i + 1), i + 1)
  BY <1>2, OneMore DEF Matches, Worked
<1> QED
  BY <1>3, <1>4, <1>5, <1>6, Zenon DEF Matches, Worked

LEMMA MatchesAnew ==
    ASSUME NEW p \in Seq(LineOps), NEW q \in Nat \ {0}, q <= Len(p), NEW y, NEW z,
           Matches(y, p, q, q), StartsAnew(y, p[q], z)
    PROVE  Matches(z, p, q + 1, q)
<1>1. q \in 0 .. Len(p) /\ q > 0 /\ 0 \in Nat /\ q # 0
  OBVIOUS
<1>2. /\ AddressAt(p, q, q) = IF p[q].op = "set_address" THEN p[q].n ELSE 0
      /\ LineAt(p, q, q) = 1
      /\ StmtAt(p, q, q) = DefaultIsStmt
      /\ MarksAt(p, q, q) = {}
  BY <1>1, SinceHere, Zenon
<1>3. SeqPlace(p, q + 1) = IF p[q].op = "end_sequence" THEN q ELSE SeqPlace(p, q)
  <2>1. p[q].op \in {"end_sequence"} <=> p[q].op = "end_sequence"
    OBVIOUS
  <2> QED
    BY <1>1, <2>1, LatestNext, Zenon DEF SeqPlace
<1>4. BasePlace(p, q + 1) = IF p[q].op \in {"end_sequence", "set_address"} THEN q ELSE BasePlace(p, q)
  BY <1>1, LatestNext, Zenon DEF BasePlace
<1>5. RowPlace(p, q + 1) = IF p[q].op \in RowOps THEN q ELSE RowPlace(p, q)
  BY <1>1, LatestNext, Zenon DEF RowPlace
<1>6. /\ p[q].op = "end_sequence" => FilePlace(p, q + 1) = 0
      /\ p[q].op = "set_file" => FilePlace(p, q + 1) = q
      /\ p[q].op # "end_sequence" /\ p[q].op # "set_file" => FilePlace(p, q + 1) = FilePlace(p, q)
  <2>1. SeqPlace(p, q) \in 0 .. q - 1
    BY Places
  <2>2. SeqPlace(p, q) \in Nat /\ q > SeqPlace(p, q)
    BY <2>1
  <2>3. CASE p[q].op = "end_sequence"
    <3>1. SeqPlace(p, q + 1) = q
      BY <1>3, <2>3, Zenon
    <3>2. FilePlace(p, q + 1) = Latest(p, q, q + 1, {"set_file"})
      BY <3>1, Zenon DEF FilePlace
    <3>3. q \in Nat /\ q + 1 \in Nat \ {0}
      OBVIOUS
    <3>4. /\ Latest(p, q, q + 1, {"set_file"}) \in 0 .. (q + 1) - 1
          /\ Latest(p, q, q + 1, {"set_file"}) # 0 => Latest(p, q, q + 1, {"set_file"}) > q
      BY <3>3, LatestIs
    <3>5. Latest(p, q, q + 1, {"set_file"}) = 0
      BY <3>3, <3>4
    <3> QED
      BY <2>3, <3>2, <3>5
  <2>4. CASE p[q].op # "end_sequence"
    <3>1. SeqPlace(p, q + 1) = SeqPlace(p, q)
      BY <1>3, <2>4, Zenon
    <3>2. FilePlace(p, q + 1) = IF q > SeqPlace(p, q) /\ p[q].op \in {"set_file"} THEN q ELSE FilePlace(p, q)
      <4>1. PICK s \in Nat : s = SeqPlace(p, q)
        BY <2>2
      <4>2. Latest(p, s, q + 1, {"set_file"}) = IF q > s /\ p[q].op \in {"set_file"} THEN q
                                               ELSE Latest(p, s, q, {"set_file"})
        BY LatestNext
      <4> QED
        BY <3>1, <4>1, <4>2, Zenon DEF FilePlace
    <3> QED
      BY <2>2, <2>4, <3>2
  <2> QED
    BY <2>3, <2>4
<1>7. z.address = AddressAt(p, BasePlace(p, q + 1), q)
  <2>1. CASE p[q].op = "end_sequence"
    BY <1>2, <1>4, <2>1 DEF StartsAnew
  <2>2. CASE p[q].op = "set_address"
    BY <1>2, <1>4, <2>2 DEF StartsAnew
  <2>3. CASE p[q].op # "end_sequence" /\ p[q].op # "set_address"
    <3>1. BasePlace(p, q + 1) = BasePlace(p, q)
      BY <1>4, <2>3
    <3> QED
      BY <2>3, <3>1, Zenon DEF StartsAnew, Matches
  <2> QED
    BY <2>1, <2>2, <2>3
<1>8. z.file_index = FileAt(p, FilePlace(p, q + 1))
  BY <1>1, <1>6, Zenon DEF StartsAnew, FileAt, Matches
<1>9. z.line = LineAt(p, SeqPlace(p, q + 1), q) /\ z.is_stmt = StmtAt(p, SeqPlace(p, q + 1), q)
  BY <1>2, <1>3, Zenon DEF StartsAnew, Matches
<1>10. z.marks = MarksAt(p, RowPlace(p, q + 1), q)
  BY <1>2, <1>5, Zenon DEF StartsAnew, Matches
<1> QED
  BY <1>7, <1>8, <1>9, <1>10, Zenon DEF Matches
-----------------------------------------------------------------------------
(* Every opcode works itself in and starts anew what it should. *)

LEMMA Deltas ==
    ASSUME NEW o \in LineOps
    PROVE  /\ o.op \in {"advance_pc", "fixed_advance_pc"} => AddressDelta(o) = o.n /\ LineDelta(o) = 0
           /\ o.op = "special" => /\ AddressDelta(o) = (o.n - OpcodeBase) \div LineRange
                                  /\ LineDelta(o) = LineBase + ((o.n - OpcodeBase) % LineRange)
           /\ o.op = "const_add_pc" => AddressDelta(o) = (255 - OpcodeBase) \div LineRange /\ LineDelta(o) = 0
           /\ o.op = "advance_line" => AddressDelta(o) = 0 /\ LineDelta(o) = o.n
           /\ o.op \notin {"advance_pc", "fixed_advance_pc", "special", "const_add_pc", "advance_line"}
                => AddressDelta(o) = 0 /\ LineDelta(o) = 0
BY DEF AddressDelta, LineDelta

\* The fields of a row with one of them changed.
SameBut(s, r, fields) ==
    /\ "address" \notin fields => s.address = r.address
    /\ "file_index" \notin fields => s.file_index = r.file_index
    /\ "line" \notin fields => s.line = r.line
    /\ "is_stmt" \notin fields => s.is_stmt = r.is_stmt
    /\ "end_sequence" \notin fields => s.end_sequence = r.end_sequence
    /\ "marks" \notin fields => s.marks = r.marks

LEMMA OneField ==
    ASSUME NEW r \in Row, NEW v
    PROVE  /\ SameBut([r EXCEPT !.address = v], r, {"address"}) /\ [r EXCEPT !.address = v].address = v
           /\ SameBut([r EXCEPT !.file_index = v], r, {"file_index"}) /\ [r EXCEPT !.file_index = v].file_index = v
           /\ SameBut([r EXCEPT !.line = v], r, {"line"}) /\ [r EXCEPT !.line = v].line = v
           /\ SameBut([r EXCEPT !.is_stmt = v], r, {"is_stmt"}) /\ [r EXCEPT !.is_stmt = v].is_stmt = v
           /\ SameBut([r EXCEPT !.end_sequence = v], r, {"end_sequence"}) /\ [r EXCEPT !.end_sequence = v].end_sequence = v
           /\ SameBut([r EXCEPT !.marks = v], r, {"marks"}) /\ [r EXCEPT !.marks = v].marks = v
<1>1. SameBut([r EXCEPT !.address = v], r, {"address"}) /\ [r EXCEPT !.address = v].address = v
  BY DEF Row, SameBut
<1>2. SameBut([r EXCEPT !.file_index = v], r, {"file_index"}) /\ [r EXCEPT !.file_index = v].file_index = v
  BY DEF Row, SameBut
<1>3. SameBut([r EXCEPT !.line = v], r, {"line"}) /\ [r EXCEPT !.line = v].line = v
  BY DEF Row, SameBut
<1>4. SameBut([r EXCEPT !.is_stmt = v], r, {"is_stmt"}) /\ [r EXCEPT !.is_stmt = v].is_stmt = v
  BY DEF Row, SameBut
<1>5. SameBut([r EXCEPT !.end_sequence = v], r, {"end_sequence"}) /\ [r EXCEPT !.end_sequence = v].end_sequence = v
  BY DEF Row, SameBut
<1>6. SameBut([r EXCEPT !.marks = v], r, {"marks"}) /\ [r EXCEPT !.marks = v].marks = v
  BY DEF Row, SameBut
<1> QED
  BY <1>1, <1>2, <1>3, <1>4, <1>5, <1>6, Zenon
Does(o, y) ==
    /\ Worked(registers, o, y) /\ StartsAnew(y, o, registers')
    /\ IF o.op \in RowOps THEN rows' = Append(rows, y) /\ y.end_sequence = (o.op = "end_sequence")
       ELSE rows' = rows

LEMMA InstructionDoes ==
    ASSUME NEW o \in LineOps, execute_instruction(o), RowsTyped
    PROVE  \E y : Does(o, y)
<1>0. /\ registers \in Row /\ registers.end_sequence = FALSE
      /\ registers.address \in Nat /\ registers.line \in Int
      /\ o.op \in Opcodes /\ o.n \in Int
  BY LineTableAssumption DEF RowsTyped, Row
<1>1. Perform(o.op, o.n)
  BY DEF execute_instruction
<1>2. ASSUME NEW z, Set(z) PROVE registers' = z /\ rows' = rows
  BY <1>2, Zenon DEF Set
<1>3. ASSUME NEW row, NEW z, Emit(row, z) PROVE registers' = z /\ rows' = Append(rows, row)
  BY <1>3, Zenon DEF Emit
<1>4. ASSUME NEW y, o.op # "negate_stmt",
             y.address = registers.address + AddressDelta(o), y.file_index = registers.file_index,
             y.line = registers.line + LineDelta(o), y.is_stmt = registers.is_stmt,
             y.marks = registers.marks \cup ({o.op} \cap Marks)
      PROVE  Worked(registers, o, y)
  BY <1>4, Zenon DEF Worked
<1>5. /\ o.op \notin Marks => registers.marks \cup ({o.op} \cap Marks) = registers.marks
      /\ AddressDelta(o) = 0 => registers.address + AddressDelta(o) = registers.address
      /\ LineDelta(o) = 0 => registers.line + LineDelta(o) = registers.line
  BY <1>0
<1>6. ASSUME o.op \notin RowOps, o.op # "set_address", o.op # "set_file", NEW z PROVE StartsAnew(z, o, z)
  BY <1>6, Zenon DEF StartsAnew, RowOps
\* A row is out: only the marks start anew, unless the sequence ends.
<1>7. ASSUME o.op \in RowOps, o.op # "end_sequence", NEW row \in Row PROVE StartsAnew(row, o, AfterRow(row))
  <2>1. SameBut(AfterRow(row), row, {"marks"}) /\ AfterRow(row).marks = {}
    BY OneField, Zenon DEF AfterRow
  <2>2. o.op # "set_address" /\ o.op # "set_file"
    BY <1>7 DEF RowOps
  <2>3. /\ AfterRow(row).address = row.address /\ AfterRow(row).file_index = row.file_index
        /\ AfterRow(row).line = row.line /\ AfterRow(row).is_stmt = row.is_stmt
    BY <2>1 DEF SameBut
  <2> QED
    BY <1>7, <2>1, <2>2, <2>3, Zenon DEF StartsAnew
\* The registers move on and nothing starts anew.
<1>8. ASSUME NEW z, Set(z), Worked(registers, o, z), o.op \notin RowOps, o.op # "set_address", o.op # "set_file"
      PROVE  Does(o, z)
  <2>1. registers' = z /\ rows' = rows
    BY <1>8, <1>2
  <2>2. StartsAnew(z, o, registers')
    BY <1>8, <1>6, <2>1, Zenon
  <2> QED
    BY <1>8, <2>1, <2>2, Zenon DEF Does
<1>9. CASE o.op = "copy"
  <2>1. Emit(registers, AfterRow(registers))
    BY <1>1, <1>9 DEF Perform, Marks, copy
  <2>2. o.op \in RowOps /\ o.op # "end_sequence" /\ o.op \notin Marks /\ AddressDelta(o) = 0 /\ LineDelta(o) = 0
    BY <1>9, Deltas DEF RowOps, Marks
  <2>3. Worked(registers, o, registers)
    BY <1>4, <1>5, <1>9, <2>2
  <2>4. StartsAnew(registers, o, AfterRow(registers))
    BY <1>0, <1>7, <2>2
  <2>5. registers' = AfterRow(registers) /\ rows' = Append(rows, registers)
    BY <1>3, <2>1
  <2>6. registers.end_sequence = (o.op = "end_sequence")
    BY <1>0, <2>2, Zenon
  <2> QED
    BY <2>2, <2>3, <2>4, <2>5, <2>6, Zenon DEF Does
<1>10. CASE o.op \in {"advance_pc", "fixed_advance_pc"}
  <2> DEFINE z == [registers EXCEPT !.address = @ + o.n]
  <2>1. Set(z)
    BY <1>1, <1>10 DEF Perform, Marks, advance_pc
  <2>2. o.op \notin RowOps \cup Marks \cup {"set_address", "set_file", "negate_stmt"} /\ AddressDelta(o) = o.n /\ LineDelta(o) = 0
    BY <1>10, Deltas DEF RowOps, Marks
  <2>3. SameBut(z, registers, {"address"}) /\ z.address = registers.address + o.n
    BY <1>0, OneField, Zenon
  <2> HIDE DEF z
  <2>4. Worked(registers, o, z)
    BY <1>4, <1>5, <2>2, <2>3 DEF SameBut
  <2> QED
    BY <1>8, <2>1, <2>2, <2>4
<1>11. CASE o.op = "advance_line"
  <2> DEFINE z == [registers EXCEPT !.line = @ + o.n]
  <2>1. Set(z)
    BY <1>1, <1>11 DEF Perform, Marks, advance_line
  <2>2. o.op \notin RowOps \cup Marks \cup {"set_address", "set_file", "negate_stmt"} /\ AddressDelta(o) = 0 /\ LineDelta(o) = o.n
    BY <1>11, Deltas DEF RowOps, Marks
  <2>3. SameBut(z, registers, {"line"}) /\ z.line = registers.line + o.n
    BY <1>0, OneField, Zenon
  <2> HIDE DEF z
  <2>4. Worked(registers, o, z)
    BY <1>4, <1>5, <2>2, <2>3 DEF SameBut
  <2> QED
    BY <1>8, <2>1, <2>2, <2>4
<1>12. CASE o.op = "const_add_pc"
  <2> DEFINE z == [registers EXCEPT !.address = @ + (255 - OpcodeBase) \div LineRange]
  <2>1. Set(z)
    BY <1>1, <1>12 DEF Perform, Marks, const_add_pc
  <2>2. /\ o.op \notin RowOps \cup Marks \cup {"set_address", "set_file", "negate_stmt"}
        /\ AddressDelta(o) = (255 - OpcodeBase) \div LineRange /\ LineDelta(o) = 0
    BY <1>12, Deltas DEF RowOps, Marks
  <2>3. SameBut(z, registers, {"address"}) /\ z.address = registers.address + (255 - OpcodeBase) \div LineRange
    BY <1>0, OneField, Zenon
  <2> HIDE DEF z
  <2>4. Worked(registers, o, z)
    BY <1>4, <1>5, <2>2, <2>3 DEF SameBut
  <2> QED
    BY <1>8, <2>1, <2>2, <2>4
<1>13. CASE o.op \in Marks
  <2> DEFINE z == [registers EXCEPT !.marks = @ \cup {o.op}]
  <2>1. Set(z)
    BY <1>1, <1>13 DEF Perform, Marks, mark
  <2>2. o.op \notin RowOps \cup {"set_address", "set_file", "negate_stmt"} /\ AddressDelta(o) = 0 /\ LineDelta(o) = 0
    BY <1>13, Deltas DEF RowOps, Marks
  <2>3. SameBut(z, registers, {"marks"}) /\ z.marks = registers.marks \cup {o.op}
    BY <1>0, OneField, Zenon
  <2>4. registers.marks \cup ({o.op} \cap Marks) = registers.marks \cup {o.op}
    BY <1>13
  <2> HIDE DEF z
  <2>5. Worked(registers, o, z)
    BY <1>4, <1>5, <2>2, <2>3, <2>4 DEF SameBut
  <2> QED
    BY <1>8, <2>1, <2>2, <2>5
<1>14. CASE o.op \in {"set_column", "set_isa", "define_file"}
  <2>1. Set(registers)
    BY <1>1, <1>14 DEF Perform, Marks, set_isa, define_file
  <2>2. o.op \notin RowOps \cup Marks \cup {"set_address", "set_file", "negate_stmt"} /\ AddressDelta(o) = 0 /\ LineDelta(o) = 0
    BY <1>14, Deltas DEF RowOps, Marks
  <2>3. Worked(registers, o, registers)
    BY <1>4, <1>5, <2>2
  <2> QED
    BY <1>8, <2>1, <2>2, <2>3
<1>15. CASE o.op = "negate_stmt"
  <2> DEFINE z == [registers EXCEPT !.is_stmt = ~@]
  <2>1. Set(z)
    BY <1>1, <1>15 DEF Perform, Marks, negate_stmt
  <2>2. o.op \notin RowOps \cup Marks \cup {"set_address", "set_file"} /\ AddressDelta(o) = 0 /\ LineDelta(o) = 0
    BY <1>15, Deltas DEF RowOps, Marks
  <2>3. SameBut(z, registers, {"is_stmt"}) /\ z.is_stmt = ~registers.is_stmt
    BY <1>0, OneField, Zenon
  <2> HIDE DEF z
  <2>4. /\ z.address = registers.address /\ z.file_index = registers.file_index
        /\ z.line = registers.line /\ z.marks = registers.marks
    BY <2>3 DEF SameBut
  <2>5. /\ z.address = registers.address + AddressDelta(o) /\ z.line = registers.line + LineDelta(o)
        /\ z.marks = registers.marks \cup ({o.op} \cap Marks)
    BY <1>5, <2>2, <2>4
  <2>6. Worked(registers, o, z)
    BY <1>15, <2>3, <2>4, <2>5, Zenon DEF Worked
  <2> QED
    BY <1>8, <2>1, <2>2, <2>6
<1>16. CASE o.op = "set_file"
  <2> DEFINE z == [registers EXCEPT !.file_index = o.n]
  <2>1. registers' = z /\ rows' = rows
    BY <1>1, <1>2, <1>16 DEF Perform, Marks, set_file
  <2>2. o.op \notin RowOps \cup Marks \cup {"negate_stmt"} /\ AddressDelta(o) = 0 /\ LineDelta(o) = 0
    BY <1>16, Deltas DEF RowOps, Marks
  <2>3. SameBut(z, registers, {"file_index"}) /\ z.file_index = o.n
    BY <1>0, OneField, Zenon
  <2> HIDE DEF z
  <2>4. Worked(registers, o, registers)
    BY <1>4, <1>5, <2>2
  <2>5. /\ z.address = registers.address /\ z.is_stmt = registers.is_stmt
        /\ z.line = registers.line /\ z.marks = registers.marks
    BY <2>3 DEF SameBut
  <2>6. StartsAnew(registers, o, z)
    <3>1. o.op # "end_sequence" /\ o.op # "set_address" /\ o.op \notin RowOps
      BY <1>16 DEF RowOps
    <3> QED
      BY <1>16, <2>3, <2>5, <3>1, Zenon DEF StartsAnew
  <2> QED
    BY <2>1, <2>2, <2>4, <2>6 DEF Does
<1>17. CASE o.op = "set_address"
  <2> DEFINE z == [registers EXCEPT !.address = o.n]
  <2>1. registers' = z /\ rows' = rows
    BY <1>1, <1>2, <1>17 DEF Perform, Marks, set_address
  <2>2. o.op \notin RowOps \cup Marks \cup {"negate_stmt"} /\ AddressDelta(o) = 0 /\ LineDelta(o) = 0
    BY <1>17, Deltas DEF RowOps, Marks
  <2>3. SameBut(z, registers, {"address"}) /\ z.address = o.n
    BY <1>0, OneField, Zenon
  <2> HIDE DEF z
  <2>4. Worked(registers, o, registers)
    BY <1>4, <1>5, <2>2
  <2>5. /\ z.file_index = registers.file_index /\ z.is_stmt = registers.is_stmt
        /\ z.line = registers.line /\ z.marks = registers.marks
    BY <2>3 DEF SameBut
  <2>6. StartsAnew(registers, o, z)
    <3>1. o.op # "end_sequence" /\ o.op # "set_file" /\ o.op \notin RowOps
      BY <1>17 DEF RowOps
    <3> QED
      BY <1>17, <2>3, <2>5, <3>1, Zenon DEF StartsAnew
  <2> QED
    BY <2>1, <2>2, <2>4, <2>6 DEF Does
<1>18. CASE o.op = "special"
  <2> DEFINE adjusted == o.n - OpcodeBase
             mid == [registers EXCEPT !.address = @ + adjusted \div LineRange]
             row == [registers EXCEPT !.address = @ + adjusted \div LineRange,
                                      !.line = @ + LineBase + (adjusted % LineRange)]
  <2>1. Emit(row, AfterRow(row))
    BY <1>1, <1>18 DEF Perform, Marks, special
  <2>2. /\ o.op \in RowOps /\ o.op # "end_sequence" /\ o.op # "negate_stmt" /\ o.op \notin Marks
        /\ AddressDelta(o) = adjusted \div LineRange /\ LineDelta(o) = LineBase + (adjusted % LineRange)
    BY <1>18, Deltas DEF RowOps, Marks
  <2>3. adjusted \div LineRange \in Nat /\ LineBase \in Int /\ adjusted % LineRange \in Int
    BY <1>0, <1>18, LineTableAssumption, Quotient
  <2>4. PICK a \in Nat : a = registers.address + adjusted \div LineRange
    BY <1>0, <2>3
  <2>5. PICK l \in Int : l = registers.line + LineBase + (adjusted % LineRange)
    BY <1>0, <2>3
  <2>6. row = [registers EXCEPT !.address = a, !.line = l]
    BY <2>4, <2>5, Zenon
  <2>7. l = registers.line + LineDelta(o)
    BY <1>0, <2>2, <2>3, <2>5
  <2> HIDE DEF row
  <2>8. row \in Row
    BY <1>0, <2>6 DEF Row
  <2>9. /\ row.address = a /\ row.line = l /\ row.file_index = registers.file_index
        /\ row.is_stmt = registers.is_stmt /\ row.marks = registers.marks
        /\ row.end_sequence = registers.end_sequence
    BY <1>0, <2>6 DEF Row
  <2>10. Worked(registers, o, row)
    BY <1>4, <1>5, <2>2, <2>4, <2>7, <2>9
  <2>11. StartsAnew(row, o, AfterRow(row))
    BY <1>7, <2>2, <2>8
  <2>12. registers' = AfterRow(row) /\ rows' = Append(rows, row)
    BY <1>3, <2>1
  <2>13. row.end_sequence = (o.op = "end_sequence")
    BY <1>0, <2>2, <2>9, Zenon
  <2> QED
    BY <2>2, <2>10, <2>11, <2>12, <2>13, Zenon DEF Does
<1>19. CASE o.op = "end_sequence"
  <2> DEFINE row == [registers EXCEPT !.end_sequence = TRUE]
  <2>1. registers' = entry /\ rows' = Append(rows, row)
    BY <1>1, <1>3, <1>19 DEF Perform, Marks, end_sequence
  <2>2. o.op \in RowOps /\ o.op # "negate_stmt" /\ o.op \notin Marks /\ AddressDelta(o) = 0 /\ LineDelta(o) = 0
    BY <1>19, Deltas DEF RowOps, Marks
  <2>3. SameBut(row, registers, {"end_sequence"}) /\ row.end_sequence = TRUE
    BY <1>0, OneField, Zenon
  <2> HIDE DEF row
  <2>4. Worked(registers, o, row)
    BY <1>4, <1>5, <2>2, <2>3 DEF SameBut
  <2>5. /\ entry.address = 0 /\ entry.file_index = 1 /\ entry.line = 1
        /\ entry.is_stmt = DefaultIsStmt /\ entry.marks = {}
    BY DEF entry
  <2>6. StartsAnew(row, o, entry)
    BY <1>19, <2>2, <2>5, Zenon DEF StartsAnew
  <2>7. row.end_sequence = (o.op = "end_sequence")
    BY <1>19, <2>3, Zenon
  <2> QED
    BY <2>1, <2>2, <2>4, <2>6, <2>7, Zenon DEF Does
<1> QED
  BY <1>0, <1>9, <1>10, <1>11, <1>12, <1>13, <1>14, <1>15, <1>16, <1>17, <1>18, <1>19, Zenon DEF Opcodes
LEMMA RowsCounted ==
    ASSUME NEW p, NEW i \in Nat
    PROVE  /\ IsFiniteSet(RowsUpTo(p, i)) /\ Cardinality(RowsUpTo(p, i)) \in Nat
           /\ Cardinality(RowsUpTo(p, i + 1)) =
                Cardinality(RowsUpTo(p, i)) + (IF p[i + 1].op \in RowOps THEN 1 ELSE 0)
<1>1. IsFiniteSet(1 .. i)
  BY FS_Interval
<1>2. RowsUpTo(p, i) \in SUBSET (1 .. i) /\ i + 1 \notin RowsUpTo(p, i)
  BY DEF RowsUpTo
<1>3. IsFiniteSet(RowsUpTo(p, i))
  BY <1>1, <1>2, FS_Subset
<1>4. Cardinality(RowsUpTo(p, i)) \in Nat
  BY <1>3, FS_CardinalityType
<1>5. \A j : j \in 1 .. i + 1 <=> j \in 1 .. i \/ j = i + 1
  OBVIOUS
<1>6. CASE p[i + 1].op \in RowOps
  <2>1. RowsUpTo(p, i + 1) = RowsUpTo(p, i) \cup {i + 1}
    BY <1>5, <1>6, Zenon DEF RowsUpTo
  <2>2. Cardinality(RowsUpTo(p, i + 1)) = Cardinality(RowsUpTo(p, i)) + 1
    BY <1>2, <1>3, <2>1, FS_AddElement
  <2> QED
    BY <1>3, <1>4, <1>6, <2>2
<1>7. CASE p[i + 1].op \notin RowOps
  <2>1. RowsUpTo(p, i + 1) = RowsUpTo(p, i)
    BY <1>5, <1>7, Zenon DEF RowsUpTo
  <2> QED
    BY <1>3, <1>4, <1>7, <2>1
<1> QED
  BY <1>6, <1>7

LEMMA EmittedCommon ==
    ASSUME NEW p, NEW r, NEW i \in Nat \ {0}, \A j \in 1 .. i : p[j] = r[j], NEW k, NEW row, Emitted(p, i, k, row)
    PROVE  Emitted(r, i, k, row)
<1>1. i \in Nat /\ i \in 1 .. i /\ i <= i + 1
  OBVIOUS
<1>2. RowsUpTo(p, i) = RowsUpTo(r, i)
  BY Zenon DEF RowsUpTo
<1>3. p[i] = r[i]
  BY <1>1
<1>4. Matches(row, p, i, i)
  BY Zenon DEF Emitted
<1>5. Matches(row, r, i, i)
  BY <1>1, <1>4, MatchesCommon
<1> QED
  BY <1>2, <1>3, <1>5, Zenon DEF Emitted

LEMMA ProgramInvKept ==
    ASSUME RowsTyped, ProgramInv, NEW o \in LineOps, execute_instruction(o)
    PROVE  ProgramInv'
<1>1. PICK n \in Nat : n = Len(program)
  BY DEF ProgramInv
<1>2. PICK p : p = program'
  OBVIOUS
<1>3. /\ program \in Seq(LineOps) /\ p = Append(program, o)
  <2>1. o = LineOp(o.op, o.n)
    BY LineTableAssumption DEF LineOp
  <2>2. program' = Append(program, LineOp(o.op, o.n))
    BY Zenon DEF execute_instruction, Executed
  <2> QED
    BY <1>2, <2>1, <2>2 DEF ProgramInv
<1>4. p \in Seq(LineOps) /\ Len(p) = n + 1 /\ p[n + 1] = o /\ \A j \in 1 .. n : program[j] = p[j]
  BY <1>1, <1>3
<1>5. PICK y : Does(o, y)
  BY InstructionDoes
<1>6. Matches(registers, p, n + 1, n)
  <2>1. Matches(registers, program, n + 1, n)
    BY <1>1 DEF ProgramInv
  <2>2. n + 1 \in Nat \ {0} /\ n + 1 <= n + 1
    OBVIOUS
  <2> QED
    BY <1>4, <2>1, <2>2, MatchesCommon
<1>7. Matches(y, p, n + 1, n + 1)
  <2>1. n + 1 <= Len(p) /\ Worked(registers, p[n + 1], y)
    BY <1>4, <1>5 DEF Does
  <2> QED
    BY <1>4, <1>6, <2>1, MatchesWorked
<1>8. PICK z : z = registers'
  OBVIOUS
<1>9. Matches(z, p, (n + 1) + 1, n + 1)
  <2>1. n + 1 \in Nat \ {0} /\ n + 1 <= Len(p)
    BY <1>4
  <2>2. StartsAnew(y, p[n + 1], z)
    BY <1>4, <1>5, <1>8, Zenon DEF Does
  <2> QED
    BY <1>4, <1>7, <2>1, <2>2, MatchesAnew
<1>10. PICK new : new = rows'
  OBVIOUS
<1>11. rows \in Seq(Row) /\ Len(rows) \in Nat
  BY DEF RowsTyped
<1>12. RowsUpTo(program, n) = RowsUpTo(p, n)
  BY <1>4, Zenon DEF RowsUpTo
<1>13. /\ Cardinality(RowsUpTo(p, n)) = Len(rows)
       /\ Cardinality(RowsUpTo(p, n + 1)) = Len(rows) + (IF o.op \in RowOps THEN 1 ELSE 0)
  <2>1. Len(rows) = Cardinality(RowsUpTo(program, n))
    BY <1>1, Zenon DEF ProgramInv
  <2>2. Cardinality(RowsUpTo(p, n + 1)) = Cardinality(RowsUpTo(p, n)) + (IF p[n + 1].op \in RowOps THEN 1 ELSE 0)
    BY RowsCounted
  <2> QED
    BY <1>4, <1>12, <2>1, <2>2
<1>14. ASSUME NEW k \in 1 .. Len(rows) PROVE \E i \in 1 .. n + 1 : Emitted(p, i, k, rows[k])
  <2>1. PICK i \in 1 .. n : Emitted(program, i, k, rows[k])
    BY <1>1 DEF ProgramInv
  <2>2. i \in Nat \ {0} /\ i \in 1 .. n + 1 /\ \A j \in 1 .. i : program[j] = p[j]
    BY <1>4
  <2>3. Emitted(p, i, k, rows[k])
    BY <2>1, <2>2, EmittedCommon
  <2> QED
    BY <2>2, <2>3
<1>15. /\ Len(new) = Cardinality(RowsUpTo(p, n + 1))
       /\ \A k \in 1 .. Len(new) : \E i \in 1 .. n + 1 : Emitted(p, i, k, new[k])
  <2>1. CASE o.op \in RowOps
    <3>1. new = Append(rows, y) /\ y.end_sequence = (o.op = "end_sequence")
      BY <1>5, <1>10, <2>1, Zenon DEF Does
    <3>2. /\ Len(new) = Len(rows) + 1 /\ new[Len(rows) + 1] = y
          /\ \A k \in 1 .. Len(rows) : new[k] = rows[k]
      BY <1>11, <3>1
    <3>3. Emitted(p, n + 1, Len(rows) + 1, y)
      <4>1. Cardinality(RowsUpTo(p, n + 1)) = Len(rows) + 1
        BY <1>13, <2>1
      <4> QED
        BY <1>4, <1>7, <2>1, <3>1, <4>1, Zenon DEF Emitted
    <3>4. ASSUME NEW k \in 1 .. Len(new) PROVE \E i \in 1 .. n + 1 : Emitted(p, i, k, new[k])
      <4>1. CASE k = Len(rows) + 1
        <5>1. n + 1 \in 1 .. n + 1
          OBVIOUS
        <5> QED
          BY <3>2, <3>3, <4>1, <5>1
      <4>2. CASE k # Len(rows) + 1
        <5>1. k \in 1 .. Len(rows)
          BY <1>11, <3>2, <4>2
        <5> QED
          BY <1>14, <3>2, <5>1
      <4> QED
        BY <4>1, <4>2
    <3> QED
      BY <1>13, <2>1, <3>2, <3>4
  <2>2. CASE o.op \notin RowOps
    <3>1. new = rows
      BY <1>5, <1>10, <2>2, Zenon DEF Does
    <3> QED
      BY <1>11, <1>13, <1>14, <2>2, <3>1
  <2> QED
    BY <2>1, <2>2
<1>16. n + 1 = Len(p)
  BY <1>4
<1> QED
  BY <1>2, <1>4, <1>8, <1>9, <1>10, <1>15, <1>16, Zenon DEF ProgramInv

LEMMA ProgramInvStarts ==
    ASSUME LineTableInit
    PROVE  ProgramInv
<1>1. program = <<>> /\ rows = <<>> /\ registers = entry
  BY DEF LineTableInit
<1>2. program \in Seq(LineOps) /\ Len(program) = 0 /\ Len(rows) = 0
  BY <1>1
<1>3. \A q : q = 1 => SeqPlace(program, q) = 0 /\ BasePlace(program, q) = 0
                      /\ RowPlace(program, q) = 0 /\ FilePlace(program, q) = 0
  BY Places
<1>4. 0 \in 0 .. Len(program) /\ 0 + 1 = 1 /\ ~(0 > 0)
  BY <1>2
<1>5. /\ AddressAt(program, 0, 0) = 0 /\ LineAt(program, 0, 0) = 1
      /\ StmtAt(program, 0, 0) = DefaultIsStmt /\ MarksAt(program, 0, 0) = {}
  BY <1>2, <1>4, SinceHere, Zenon
<1>6. /\ entry.address = 0 /\ entry.file_index = 1 /\ entry.line = 1
      /\ entry.is_stmt = DefaultIsStmt /\ entry.marks = {}
  BY DEF entry
<1>7. Matches(registers, program, Len(program) + 1, Len(program))
  BY <1>1, <1>2, <1>3, <1>4, <1>5, <1>6, Zenon DEF Matches, FileAt
<1>8. Cardinality(RowsUpTo(program, 0)) = 0
  <2>1. RowsUpTo(program, 0) = {}
    BY DEF RowsUpTo
  <2> QED
    BY <2>1, FS_EmptySet
<1>9. 1 .. 0 = {}
  OBVIOUS
<1> QED
  BY <1>2, <1>7, <1>8, <1>9, Zenon DEF ProgramInv

LEMMA ProgramInvHolds == LineTableSpec => []ProgramInv
<1>1. LineTableInit => ProgramInv
  BY ProgramInvStarts
<1>2. LineTableInv /\ ProgramInv /\ [LineTableNext]_lineVars => ProgramInv'
  <2> SUFFICES ASSUME LineTableInv, ProgramInv, [LineTableNext]_lineVars PROVE ProgramInv'
    OBVIOUS
  <2>1. ASSUME UNCHANGED <<rows, registers, program>> PROVE ProgramInv'
    BY <2>1, Zenon DEF ProgramInv
  <2>2. ASSUME NEW h \in LineHeaders, parse_line_table(h) PROVE ProgramInv'
    BY <2>1, <2>2, Zenon DEF parse_line_table
  <2>3. CASE AtEnd
    BY <2>1, <2>3, Zenon DEF AtEnd
  <2>4. ASSUME NEW o \in LineOps, execute_instruction(o) PROVE ProgramInv'
    BY <2>4, ProgramInvKept DEF LineTableInv
  <2>5. CASE UNCHANGED lineVars
    BY <2>1, <2>5, Zenon DEF lineVars
  <2> QED
    BY <2>2, <2>3, <2>4, <2>5, Zenon DEF LineTableNext
<1> QED
  BY <1>1, <1>2, LineTableInvHolds, PTL DEF LineTableSpec

\* Two places emit different rows.
LEMMA EmittedOnce ==
    ASSUME NEW p, NEW i \in Nat, NEW j \in Nat, i < j, p[j].op \in RowOps
    PROVE  Cardinality(RowsUpTo(p, i)) # Cardinality(RowsUpTo(p, j))
<1>1. IsFiniteSet(RowsUpTo(p, j))
  BY RowsCounted
<1>2. RowsUpTo(p, i) \in SUBSET RowsUpTo(p, j)
  BY DEF RowsUpTo
<1>3. j \in RowsUpTo(p, j) /\ j \notin RowsUpTo(p, i)
  BY DEF RowsUpTo
<1> QED
  BY <1>1, <1>2, <1>3, FS_Subset

LEMMA ReferenceIs ==
    ASSUME ProgramInv, NEW k, NEW i \in 1 .. Len(program), i = EmittedAt(k), NEW row \in Row,
           Matches(row, program, i, i), row.end_sequence = (program[i].op = "end_sequence")
    PROVE  row = ReferenceRow(k)
<1>0. \A j \in 1 .. i - 1 : j > 0
  BY DEF ProgramInv
<1> DEFINE e == EmittedAt(k)
           seq == Max({0} \cup {j \in 1 .. e - 1 : program[j].op = "end_sequence"})
           base == Max({0} \cup {j \in 1 .. e - 1 : program[j].op \in {"end_sequence", "set_address"}})
           last == Max({0} \cup {j \in 1 .. e - 1 : Emits(j)})
           file == Max({0} \cup {j \in 1 .. e - 1 : j > seq /\ program[j].op = "set_file"})
<1>1. seq = SeqPlace(program, i)
  <2>1. {j \in 1 .. i - 1 : program[j].op = "end_sequence"} = {j \in 1 .. i - 1 : j > 0 /\ program[j].op \in {"end_sequence"}}
    BY <1>0
  <2> QED
    BY <2>1, Zenon DEF SeqPlace, Latest
<1>2. base = BasePlace(program, i)
  <2>1. {j \in 1 .. i - 1 : program[j].op \in {"end_sequence", "set_address"}}
        = {j \in 1 .. i - 1 : j > 0 /\ program[j].op \in {"end_sequence", "set_address"}}
    BY <1>0
  <2> QED
    BY <2>1, Zenon DEF BasePlace, Latest
<1>3. last = RowPlace(program, i)
  <2>1. {j \in 1 .. i - 1 : Emits(j)} = {j \in 1 .. i - 1 : j > 0 /\ program[j].op \in RowOps}
    BY <1>0 DEF Emits, RowOps
  <2> QED
    BY <2>1, Zenon DEF RowPlace, Latest
<1>4. file = FilePlace(program, i)
  <2> HIDE DEF seq
  <2>1. {j \in 1 .. i - 1 : j > seq /\ program[j].op = "set_file"}
        = {j \in 1 .. i - 1 : j > seq /\ program[j].op \in {"set_file"}}
    OBVIOUS
  <2> QED
    BY <1>1, <2>1, Zenon DEF FilePlace, Latest
<1>5. ReferenceRow(k) =
        [address |-> AddressSum(program, base + 1 .. e)
                     + (IF base > 0 /\ program[base].op = "set_address" THEN program[base].n ELSE 0),
         file_index |-> IF file = 0 THEN 1 ELSE program[file].n,
         line |-> 1 + LineSum(program, seq + 1 .. e),
         is_stmt |-> (Cardinality({j \in seq + 1 .. e : program[j].op = "negate_stmt"}) % 2 = 0) = DefaultIsStmt,
         end_sequence |-> program[e].op = "end_sequence",
         marks |-> {program[j].op : j \in last + 1 .. e} \cap Marks]
  BY Zenon DEF ReferenceRow, LastBefore, AddressSum, LineSum
<1> HIDE DEF e, seq, base, last, file
<1>7. ReferenceRow(k) =
        [address |-> AddressAt(program, BasePlace(program, i), i),
         file_index |-> FileAt(program, FilePlace(program, i)),
         line |-> LineAt(program, SeqPlace(program, i), i),
         is_stmt |-> StmtAt(program, SeqPlace(program, i), i),
         end_sequence |-> program[i].op = "end_sequence",
         marks |-> MarksAt(program, RowPlace(program, i), i)]
  <2>1. e = i
    BY DEF e
  <2> QED
    BY <1>1, <1>2, <1>3, <1>4, <1>5, <2>1, Zenon DEF AddressAt, FileAt, LineAt, StmtAt, MarksAt, Negations
<1>6. row = [address |-> row.address, file_index |-> row.file_index, line |-> row.line, is_stmt |-> row.is_stmt,
             end_sequence |-> row.end_sequence, marks |-> row.marks]
  BY DEF Row
<1> QED
  BY <1>6, <1>7, Zenon DEF Matches

-----------------------------------------------------------------------------
\* Every row that execute_instruction emits is the one that the format defines for its
\* place in the program: the address, file, line, is_stmt and marks that the opcodes since the
\* sequence began, the address was set or the last row came out add up to.
THEOREM RowsAreCorrect == LineTableSpec => []RowsCorrect
<1>1. ASSUME LineTableInv, ProgramInv PROVE RowsCorrect
  <2> SUFFICES ASSUME NEW k \in 1 .. Len(rows) PROVE rows[k] = ReferenceRow(k)
    BY Zenon DEF RowsCorrect
  <2>1. rows \in Seq(Row) /\ program \in Seq(LineOps)
    BY <1>1 DEF LineTableInv, RowsTyped, ProgramInv
  <2>2. PICK i \in 1 .. Len(program) : Emitted(program, i, k, rows[k])
    BY <1>1 DEF ProgramInv
  <2>3. rows[k] \in Row /\ DOMAIN program = 1 .. Len(program)
    BY <2>1
  <2> DEFINE At(j) == Emits(j) /\ Cardinality({l \in 1 .. j : Emits(l)}) = k
  <2>4. ASSUME NEW j \in 1 .. Len(program)
        PROVE  At(j) <=> program[j].op \in RowOps /\ Cardinality(RowsUpTo(program, j)) = k
    BY Zenon DEF Emits, RowsUpTo, RowOps
  <2>5. EmittedAt(k) = CHOOSE j \in 1 .. Len(program) : At(j)
    BY <2>3, Zenon DEF EmittedAt
  <2>6. At(i)
    BY <2>2, <2>4, Zenon DEF Emitted
  <2> HIDE DEF At
  <2>7. EmittedAt(k) \in 1 .. Len(program) /\ At(EmittedAt(k))
    BY <2>5, <2>6
  <2>8. EmittedAt(k) = i
    <3>1. PICK e \in 1 .. Len(program) : e = EmittedAt(k) /\ program[e].op \in RowOps
                                         /\ Cardinality(RowsUpTo(program, e)) = k
      BY <2>4, <2>7
    <3>2. program[i].op \in RowOps /\ Cardinality(RowsUpTo(program, i)) = k
      BY <2>4, <2>6
    <3>3. ~(e < i) /\ ~(i < e) /\ e \in Nat /\ i \in Nat
      BY <2>1, <3>1, <3>2, EmittedOnce
    <3> QED
      BY <3>1, <3>3
  <2>9. Matches(rows[k], program, i, i) /\ rows[k].end_sequence = (program[i].op = "end_sequence")
    BY <2>2, Zenon DEF Emitted
  <2> QED
    BY <1>1, <2>3, <2>8, <2>9, ReferenceIs
<1> QED
  BY <1>1, LineTableInvHolds, ProgramInvHolds, PTL
=============================================================================
