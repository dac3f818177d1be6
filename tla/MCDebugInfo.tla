----------------------------- MODULE MCDebugInfo ----------------------------
(***************************************************************************)
(* The decoders of the debug information in one instance: each behaviour   *)
(* runs one of them, which is chosen at the start and does not change.     *)
(***************************************************************************)
EXTENDS LineTable, CallFrame, Expression, Cursor, DieTree

VARIABLE which

vars == <<which, lineVars, frameVars, expressionVars, data, dieVars>>

\* Line table: two files, a row per opcode or two, a second sequence.
MCLineBase == -5
MCLineOps ==
    {LineOp("special", 18), LineOp("special", 34), LineOp("copy", 0), LineOp("advance_pc", 1),
     LineOp("end_sequence", 0), LineOp("set_address", 1), LineOp("negate_stmt", 0),
     LineOp("prologue_end", 0), LineOp("set_isa", 0), LineOp("set_file", 2), LineOp("define_file", 0)}
MCHeaders ==
    LET ok == [version |-> 4, instruction |-> 1, operations |-> 1,
               lengths |-> <<0, 1, 1, 1, 1, 0, 0, 0, 1, 0, 0, 1>>, directories |-> <<<<"include">>>>,
               files |-> <<[path |-> <<"a.cpp">>, dir |-> 0], [path |-> <<"a.cpp">>, dir |-> 1]>>]
    IN  {ok, [ok EXCEPT !.version = 5], [ok EXCEPT !.lengths = <<0, 1, 1, 2>>]}
MCDefinedFile == [path |-> <<"b.cpp">>, dir |-> 1]
MCCompilationDir == <<"/", "src">>

\* Call frames: CIEs without and with a rule for the link register, and
\* sections that end, break or say nothing before the FDE.
MCCie ==
    [version |-> 1, augmentation |-> <<"z", "R">>, address_size |-> 8, segment_size |-> 0,
     code_alignment_factor |-> 1, data_alignment_factor |-> -1,
     instructions |-> <<Cfi("def_cfa", "sp", 0), Cfi("undefined", "x9", 0)>>]
MCLinkCie ==
    [MCCie EXCEPT !.version = 4, !.instructions = <<Cfi("def_cfa", "sp", 0), Cfi("same_value", "lr", 0)>>]
MCFde == [kind |-> "fde", cie |-> MCCie, encoding |-> "pcrel", value |-> 3, pos |-> 1, range |-> 20]
MCEarlier == [MCFde EXCEPT !.value = 0, !.range = 3]
MCOther(k) == [MCFde EXCEPT !.kind = k]
MCEhFrames ==
    {<<MCOther("cie"), MCEarlier, MCFde>>,
     <<[MCFde EXCEPT !.cie = MCLinkCie, !.encoding = "absptr", !.value = FuncStart]>>,
     <<MCEarlier>>, <<MCOther("zero"), MCFde>>, <<MCEarlier, MCOther("bad"), MCFde>>,
     <<[MCEarlier EXCEPT !.cie.version = 2], MCFde>>}
MCPages ==
    <<[first |-> 0, next |-> 3, entries |-> <<[start |-> 0, mode |-> "frame"]>>],
      [first |-> 3, next |-> 30, entries |-> <<[start |-> 3, mode |-> "frameless"], [start |-> 4, mode |-> "frame"],
                                              [start |-> 24, mode |-> "frame"]>>]>>
\* What the theorems about unwinding assume of the sections is so here.
ASSUME MCDebugInfoAssumption == Listed /\ FdesPlain
MCShapes == {s \in TypedShape : /\ s.compact \in {"frame", "frameless"} => s.compact = s.body
                                /\ s.compact = "bad" => s.eh = <<MCEarlier>>}

\* Expressions: words of four bits, where 13 is -3.
MCOp(op, n) == [op |-> op, n |-> n]
MCStackOps ==
    {MCOp(op, 0) : op \in Binary \cup {"abs", "neg", "not", "dup", "drop", "over", "swap", "rot", "call_frame_cfa"}}
    \cup {MCOp("lit", 2), MCOp("breg", "x0"), MCOp("fbreg", -1), MCOp("plus_uconst", 1), MCOp("pick", 2),
          MCOp("deref", 2), MCOp("deref_size", 1), MCOp("skip", 1), MCOp("skip", -1), MCOp("bra", 1), MCOp("bra", 49)}
MCRegisterValue == [x0 |-> 13, fp |-> 6]
MCRam == <<1, 2, 3, 0, 2, 1, 3, 3>>
MCFrameBase == Address(MCRegisterValue["fp"])
MCImplicit == {[bytes |-> <<0, 1>>, pushes |-> FALSE, word |-> 0], [bytes |-> <<3>>, pushes |-> TRUE, word |-> 1]}
MCPieceSizes == {[bits |-> 2, offset |-> 0], [bits |-> 4, offset |-> 0], [bits |-> 1, offset |-> 1]}
MCEntry(selects, first, second) == [selects |-> selects, first |-> first, second |-> second]
MCForms ==
    LET list == <<MCEntry(FALSE, 0, 2), MCEntry(TRUE, 0, 4), MCEntry(FALSE, 0, 2), MCEntry(FALSE, 0, 3)>>
    IN  {[form |-> f, list |-> <<>>, pc |-> 0, base |-> 0] : f \in {"exprloc", "string"}}
        \cup {[form |-> "sec_offset", list |-> list, pc |-> pc, base |-> 1] : pc \in {0, 1, 3, 6, 7}}

MCCursorBytes == {[more |-> m, group |-> g] : m \in BOOLEAN, g \in {0, 1, 5, 7}}

\* Entries: functions, a declaration, an inlined call, blocks, variables and labels.
MCKind(tag, haskids, n, location) == [tag |-> tag, children |-> haskids, name |-> n, location |-> location]
MCDieKinds ==
    {MCKind("compile_unit", TRUE, "u", FALSE), MCKind("subprogram", TRUE, "f", FALSE),
     MCKind("subprogram", TRUE, "", FALSE), MCKind("subprogram", FALSE, "f", FALSE),
     MCKind("inlined_subroutine", TRUE, "", FALSE), MCKind("lexical_block", TRUE, "", FALSE),
     MCKind("variable", FALSE, "x", TRUE), MCKind("label", FALSE, "l", FALSE)}
MCRange(selects, low, high) == [selects |-> selects, low |-> low, high |-> high]
MCRangeForms ==
    {[form |-> "none"], [form |-> "low", low |-> 3], [form |-> "data", low |-> 2, high |-> 4], [form |-> "addr", low |-> 3, high |-> 5],
     [form |-> "ranges", list |-> <<MCRange(FALSE, 1, 2), MCRange(TRUE, 0, 4), MCRange(FALSE, 0, 1)>>]}

Init ==
    /\ which \in {"lines", "frames", "expressions", "cursor", "entries"}
    /\ LineTableInit /\ CallFrameInit /\ ExpressionInit /\ CursorInit /\ DieTreeInit
    /\ which # "frames" => shape = (CHOOSE s \in FrameShapes : TRUE)
    /\ which # "expressions" => attribute = (CHOOSE a \in LocationForms : TRUE) /\ in_frame_info /\ stack = <<>>

Next ==
    /\ UNCHANGED which
    /\ \/ which = "lines" /\ LineTableNext /\ UNCHANGED <<frameVars, expressionVars, data, dieVars>>
       \/ which = "frames" /\ CallFrameNext /\ UNCHANGED <<lineVars, expressionVars, data, dieVars>>
       \/ which = "expressions" /\ ExpressionNext /\ UNCHANGED <<lineVars, frameVars, data, dieVars>>
       \/ which = "cursor" /\ CursorNext /\ UNCHANGED <<lineVars, frameVars, expressionVars, dieVars>>
       \/ which = "entries" /\ DieTreeNext /\ UNCHANGED <<lineVars, frameVars, expressionVars, data>>

Spec == Init /\ [][Next]_vars
=============================================================================
