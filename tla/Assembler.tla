------------------------------ MODULE Assembler ------------------------------
(* The code half of the compiler's assembler, assemble() in sc6.c: the lines   *)
(* that the code generator wrote become the cells of the code section.  A      *)
(* first pass adds up the sizes of the instructions to find the address of     *)
(* every label, a second pass writes the cells.  A line is a label, an         *)
(* instruction with numbers for operands, an instruction whose operand is a    *)
(* label, or a record of a case table.                                         *)
EXTENDS Integers, SequencesExt

CONSTANT Cell          \* sizeof(cell)

Label(l)     == [kind |-> "label", label |-> l]
Ins(op, as)  == [kind |-> "ins", op |-> op, params |-> as]
Jump(op, l)  == [kind |-> "jump", op |-> op, label |-> l]
Case(v, l)   == [kind |-> "case", value |-> v, label |-> l]

\* The opcodes by the function opcodelist names for them; an instruction whose
\* operand is a label (do_jump, do_call) is a Jump line.
Parm2 == {135} \cup 138..141 \cup 154..157
Parm3 == 142..145
Parm4 == 146..149
Parm5 == 150..153
Parm1 == (1..8) \cup (10..22) \cup {24, 26} \cup (28..32) \cup (38..41) \cup
         {44, 45, 52} \cup (68..71) \cup {87, 88, 91, 92, 105, 106, 109, 110,
         114, 115} \cup (117..121) \cup {123, 133}
Parm0 == {9, 23, 25, 27} \cup (33..37) \cup {42, 43, 46, 47, 48, 50} \cup
         (65..67) \cup (72..86) \cup {89, 90} \cup (93..104) \cup {107, 108} \cup
         (111..113) \cup {116, 122, 128} \cup (130..132) \cup {134, 137}

Params(op) == CASE op \in Parm0 -> 0
                [] op \in Parm1 -> 1
                [] op \in Parm2 -> 2
                [] op \in Parm3 -> 3
                [] op \in Parm4 -> 4
                [] op \in Parm5 -> 5

\* A parameter that is missing reads as zero.
getparam(as, k) == IF k <= Len(as) THEN as[k] ELSE 0

Size(line) == CASE line.kind = "label" -> 0
                [] line.kind = "ins"   -> 1 + Params(line.op)
                [] OTHER               -> 2

\* The first pass: the address at which each line starts.
codeindex(p) ==
  LET at[i \in 1..Len(p) + 1] == IF i = 1 THEN 0 ELSE at[i - 1] + Size(p[i - 1])
  IN  at

lbltab(p) ==
  LET at == codeindex(p)
  IN  [l \in {p[i].label : i \in {j \in DOMAIN p : p[j].kind = "label"}} |->
         LET here == {i \in DOMAIN p : p[i] = Label(l)}
             last == CHOOSE i \in here : \A j \in here : j <= i
         IN  Cell * at[last]]

\* The second pass.
Written(lbl, line) ==
  CASE line.kind = "label" -> << >>
    [] line.kind = "ins"   ->
         <<line.op>> \o [k \in 1..Params(line.op) |-> getparam(line.params, k)]
    [] line.kind = "jump"  -> <<line.op, lbl[line.label]>>
    [] line.kind = "case"  -> <<line.value, lbl[line.label]>>

Code(p)   == LET lbl == lbltab(p) IN FlattenSeq([i \in DOMAIN p |-> Written(lbl, p[i])])
Layout(p) == LET at == codeindex(p)
             IN  {at[i] : i \in {j \in DOMAIN p : p[j].kind \in {"ins", "jump"}}}
=============================================================================
