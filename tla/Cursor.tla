-------------------------------- MODULE Cursor ------------------------------
(***************************************************************************)
(* The cursor over DWARF data: LEB128 numbers, skip_form, which finds the  *)
(* next attribute, and the readers of sdb::attr, which decode one.  A byte *)
(* carries GroupBits bits (seven) and its flag, a word CursorBits (64), so *)
(* that as there the last group is cut by the word.                        *)
(***************************************************************************)
EXTENDS Integers, Sequences, FiniteSets, SequencesExt, FiniteSetsExt

CONSTANTS
    CursorBytes,     \* the bytes that occur: [more, group]
    GroupBits, CursorBits,
    MaxBytes         \* bound on the data

Pow2(n) == LET power[i \in 0 .. n] == IF i = 0 THEN 1 ELSE 2 * power[i - 1] IN power[n]

ASSUME CursorAssumption ==
    /\ GroupBits \in Nat \ {0} /\ CursorBits \in Nat \ {0}
    /\ CursorBytes \subseteq [more : BOOLEAN, group : 0 .. Pow2(GroupBits) - 1]

VARIABLES data       \* the bytes from the cursor to the end of the unit

Read(value, next) == [status |-> "read", value |-> value, next |-> next]
Truncated == [status |-> "thrown", value |-> 0, next |-> 0]
Ok(r) == r.status = "read"

\* fixed_int: size bytes, if they are there.  A byte counts its flag too.
ByteValue(b) == b.group + (IF b.more THEN Pow2(GroupBits) ELSE 0)
fixed_int(pos, size) ==
    IF pos + size - 1 > Len(data) THEN Truncated
    ELSE Read(MapThenSumSet(LAMBDA i : ByteValue(data[pos + i]) * Pow2((GroupBits + 1) * i), 0 .. size - 1),
              pos + size)

\* One round of the loop of uleb128 and sleb128, and the loop.
LebRound(s, b) ==
    IF s.status # "more" THEN s
    ELSE IF s.shift >= CursorBits THEN [s EXCEPT !.status = "thrown"]
    ELSE [status |-> IF b.more THEN "more" ELSE "last",
          res |-> (s.res + b.group * Pow2(s.shift)) % Pow2(CursorBits), shift |-> s.shift + GroupBits, next |-> s.next + 1]
LebLoop(pos) ==
    LET run[k \in 0 .. Len(data) + 1 - pos] ==
            IF k = 0 THEN [status |-> "more", res |-> 0, shift |-> 0, next |-> pos]
            ELSE LebRound(run[k - 1], data[pos + k - 1])
    IN  run[Len(data) + 1 - pos]

uleb128(pos) == LET s == LebLoop(pos) IN IF s.status = "last" THEN Read(s.res, s.next) ELSE Truncated

Negative(b) == b.group >= Pow2(GroupBits - 1)

\* Mutant: the sign is extended past the word too.
sleb128_extends(pos) ==
    LET s == LebLoop(pos)
    IN  IF s.status # "last" THEN Truncated
        ELSE Read(s.res - (IF Negative(data[s.next - 1]) THEN Pow2(s.shift) ELSE 0), s.next)

\* A std::int64_t in the end.
sleb128(pos) ==
    LET s == LebLoop(pos)
        extended == IF s.shift < CursorBits /\ Negative(data[s.next - 1])
                      THEN s.res + Pow2(CursorBits) - Pow2(s.shift) ELSE s.res
    IN  IF s.status # "last" THEN Truncated
        ELSE Read(IF extended >= Pow2(CursorBits - 1) THEN extended - Pow2(CursorBits) ELSE extended, s.next)

\* string: up to a zero byte.
string(pos) ==
    LET zeros == {i \in pos .. Len(data) : ByteValue(data[i]) = 0}
    IN  IF zeros = {} THEN Truncated ELSE Read(Min(zeros) - pos, Min(zeros) + 1)

-----------------------------------------------------------------------------
(* Forms. *)

FixedSize == [flag_present |-> 0, data1 |-> 1, ref1 |-> 1, flag |-> 1, data2 |-> 2, ref2 |-> 2,
              data4 |-> 4, ref4 |-> 4, ref_addr |-> 4, sec_offset |-> 4, strp |-> 4, data8 |-> 8, addr |-> 8]
BlockLength(form, pos) ==
    CASE form = "block1" -> fixed_int(pos, 1)
      [] form = "block2" -> fixed_int(pos, 2)
      [] form = "block4" -> fixed_int(pos, 4)
      [] form \in {"block", "exprloc"} -> uleb128(pos)
Blocks == {"block1", "block2", "block4", "block", "exprloc"}

\* skip_form without indirection.  Only the numbers it reads are checked to be
\* there; a string runs to the end of the data and one byte on.
skip_direct(form, pos) ==
    CASE form \in DOMAIN FixedSize -> Read(0, pos + FixedSize[form])
      [] form = "sdata" -> sleb128(pos)
      [] form \in {"udata", "ref_udata"} -> uleb128(pos)
      [] form \in Blocks -> LET n == BlockLength(form, pos)
                            IN  IF Ok(n) THEN Read(0, n.next + n.value) ELSE Truncated
      [] form = "string" -> Read(0, IF Ok(string(pos)) THEN string(pos).next ELSE Len(data) + 2)
      [] OTHER -> Truncated         \* unrecognized: ref8 among them

\* indirect: the form is in the data.  Codes holds the ones used here.
Codes == <<"data1", "udata", "string">>
skip_form(form, pos) ==
    IF form # "indirect" THEN skip_direct(form, pos)
    ELSE LET code == uleb128(pos)
         IN  IF Ok(code) /\ code.value \in DOMAIN Codes THEN skip_direct(Codes[code.value], code.next) ELSE Truncated

\* The readers of attr: as_address, as_section_offset, as_int, as_block,
\* as_reference, as_string and as_expression accept these forms only.
read_form(form, pos) ==
    CASE form \in {"addr", "sec_offset", "data1", "data2", "data4", "data8", "ref1", "ref2", "ref4", "ref_addr", "strp"} ->
            fixed_int(pos, FixedSize[form])
      [] form = "ref8" -> fixed_int(pos, 8)
      [] form \in {"udata", "ref_udata"} -> uleb128(pos)
      [] form \in Blocks -> LET n == BlockLength(form, pos)
                            IN  IF Ok(n) THEN Read(n.value, n.next + n.value) ELSE Truncated
      [] form = "string" -> string(pos)
      [] OTHER -> Truncated
Forms == DOMAIN FixedSize \cup Blocks \cup {"sdata", "udata", "ref_udata", "string", "ref8", "indirect"}

-----------------------------------------------------------------------------
CursorInit == data = <<>>
CursorNext == Len(data) < MaxBytes /\ \E b \in CursorBytes : data' = Append(data, b)
CursorSpec == CursorInit /\ [][CursorNext]_data

-----------------------------------------------------------------------------
(* Properties. *)

\* The groups of the number at the start of the data, and their sum.
Number == {i \in DOMAIN data : \A j \in 1 .. i - 1 : data[j].more}
Groups == Cardinality(Number)
Ended == Groups # 0 /\ ~data[Groups].more
Fits == (Groups - 1) * GroupBits < CursorBits
GroupSum ==
    LET sum[i \in 0 .. Groups] == IF i = 0 THEN 0 ELSE sum[i - 1] + data[i].group * Pow2((i - 1) * GroupBits)
    IN  sum[Groups]

\* Every number that a word can take in is read, to its last byte, as what the
\* word holds of it, and with its sign; a longer one or one that does not end is
\* an error.
NumbersRead ==
    LET word == Pow2(CursorBits)
        half == Pow2(CursorBits - 1)
        sign == IF Ended /\ Negative(data[Groups]) THEN Pow2(Groups * GroupBits) ELSE 0
    IN  /\ Ok(uleb128(1)) <=> Ended /\ Fits
        /\ Ok(sleb128(1)) <=> Ended /\ Fits
        /\ Ended /\ Fits => /\ uleb128(1).next = Groups + 1 /\ sleb128(1).next = Groups + 1
                            /\ uleb128(1).value = GroupSum % word
                            /\ (sleb128(1).value - GroupSum + sign) % word = 0
                            /\ sleb128(1).value \in -half .. half - 1

\* What a reader takes from the data of a form is what skip_form passes over to
\* reach the next attribute, but for ref8, which is read and never skipped.
FormsAgree ==
    \A form \in Forms, pos \in 1 .. Len(data) :
        Ok(read_form(form, pos)) =>
            IF form = "ref8" THEN ~Ok(skip_form(form, pos))
            ELSE Ok(skip_form(form, pos)) /\ skip_form(form, pos).next = read_form(form, pos).next

\* Numbers and forms: what the bytes say is read, and an attribute is found where
\* the one before it ends.
CursorAgrees == NumbersRead /\ FormsAgree
=============================================================================
