------------------------------ MODULE Peephole ------------------------------
(***************************************************************************)
(* The staging buffer of the compiler (sc7.c): the table of instruction    *)
(* sequences that the peephole optimiser replaces, the optimiser, and the  *)
(* reordering of function arguments.                                       *)
(*                                                                         *)
(* A line of the buffer is a tuple: an opcode (or a comment that marks the *)
(* end of an expression) and its operands, all of them numbers.  The three *)
(* marks that stgmark puts into the buffer are lines too.  Text, white     *)
(* space and the growth of the buffer are left out.                        *)
(***************************************************************************)
EXTENDS Integers, Sequences, SequencesExt, FiniteSets

\* The "%1" to "%5" of a pattern, and the two forms a replacement computes
\* with them: "-%1" and "%1+%2".
HOLE == 1000
NEGATED == 2000
SUMMED == 3000
P(k) == HOLE + k
IsHole(x) == x \in HOLE + 1 .. HOLE + 5

\* Levels of pc_optimize.
sOPTIMIZE_NONE == 0
sOPTIMIZE_NOMACRO == 1
sOPTIMIZE_DEFAULT == 2

pri(op) == op \o ".pri"
alt(op) == op \o ".alt"
pushpri == <<"push.pri">>
popalt == <<"pop.alt">>
movealt == <<"move.alt">>
exp == <<";$exp">>
par == <<";$par">>

\* One row: what to find, what replaces it, and seqsize(o, p) - seqsize(q, r).
Row(find, replace, o, p, q, r) ==
    [find |-> find, replace |-> replace, savesize |-> o + p - q - r]
\* The rows R gives for each member of a list.
Rows(list, R(_)) == [i \in DOMAIN list |-> R(list[i])]

\* load, push, load, pop: the pushed value goes to ALT directly.
LoadLoad ==
    LET Later(t) == Row(<< <<pri(t[1]), P(1)>>, pushpri, <<pri(t[2]), P(2)>>, popalt >>,
                        << <<pri(t[2]), P(2)>>, <<alt(t[1]), P(1)>> >>, 4, 2, 2, 2)
        First(t) == Row(<< <<"addr.pri", P(1)>>, pushpri, <<pri(t), P(2)>>, popalt >>,
                        << <<"addr.alt", P(1)>>, <<pri(t), P(2)>> >>, 4, 2, 2, 2)
    IN  Rows(<< <<"load.s", "load.s">>, <<"load", "load.s">>, <<"load.s", "load">>,
                <<"load", "load">> >>, Later)
        \o Rows(<< "load.s", "load" >>, First)
        \o Rows(<< <<"const", "load.s">>, <<"const", "load">>, <<"load.s", "const">>,
                   <<"load", "const">> >>, Later)
        \o Rows(<< "const" >>, First)
        \o << Row(<< <<"addr.pri", P(1)>>, pushpri, <<"zero.pri">>, popalt >>,
                  << <<"addr.alt", P(1)>>, <<"zero.pri">> >>, 4, 1, 2, 1) >>

\* Chained relational operators: the second half of a link, ...
ChainedLoad ==
    Rows(<< "load.s.pri", "load.pri", "const.pri" >>,
         LAMBDA l : Row(<< <<"move.pri">>, pushpri, <<l, P(1)>>, popalt >>,
                        << <<l, P(1)>> >>, 4, 1, 1, 1))
\* ... and its end: exchanging the operands turns the relation round.
\* <<relation, turned round, the jump on "false" of the turned relation>>
Turned == << <<"sgrtr", "sless", "jsgeq">>, <<"sless", "sgrtr", "jsleq">>,
             <<"sgeq", "sleq", "jsgrtr">>, <<"sleq", "sgeq", "jsless">> >>
ChainedEnd ==
    Rows(Turned, LAMBDA t : Row(<< <<"xchg">>, <<t[1]>>, <<"swap.alt">>, <<"and">>, popalt, exp >>,
                                << <<t[2]>>, popalt, <<"and">>, exp >>, 5, 0, 3, 0))
    \o Rows(Turned, LAMBDA t :
            Row(<< <<"xchg">>, <<t[1]>>, <<"swap.alt">>, <<"and">>, popalt, <<"jzer", P(1)>> >>,
                << <<t[2]>>, popalt, <<"and">>, <<"jzer", P(1)>> >>, 5, 0, 3, 0))
    \o Rows(Turned, LAMBDA t : Row(<< <<"xchg">>, <<t[1]>>, <<"jzer", P(1)>>, exp >>,
                                   << <<t[3], P(1)>>, exp >>, 3, 1, 1, 1))
    \o Rows(Turned, LAMBDA t : Row(<< <<"xchg">>, <<t[1]>>, exp >>,
                                   << <<t[2]>>, exp >>, 2, 0, 1, 0))

\* An exchange after two loads swaps the loads.
ChainedEntry ==
    Rows(<< <<"load.s", "load.s">>, <<"load.s", "load">>, <<"load.s", "const">>,
            <<"load", "load.s">>, <<"load", "load">>, <<"load", "const">>,
            <<"const", "load.s">>, <<"const", "load">> >>,
         LAMBDA t : Row(<< <<pri(t[1]), P(1)>>, <<alt(t[2]), P(2)>>, <<"xchg">> >>,
                        << <<pri(t[2]), P(2)>>, <<alt(t[1]), P(1)>> >>, 3, 2, 2, 2))

\* PRI moved to ALT, followed by another load.
MovedToAlt ==
    Rows(<< "const", "load", "load.s" >>,
         LAMBDA l : Row(<< movealt, <<pri(l), P(1)>>, <<"xchg">> >>,
                        << <<alt(l), P(1)>> >>, 3, 1, 1, 1))
    \o Rows(<< <<"lref", "load.pri">>, <<"lref", "load.s.pri">>, <<"lref", "const.pri">>,
               <<"lref.s", "load.pri">>, <<"lref.s", "load.s.pri">>, <<"lref.s", "const.pri">> >>,
            LAMBDA t : Row(<< <<pri(t[1]), P(1)>>, movealt, <<t[2], P(2)>> >>,
                           << <<alt(t[1]), P(1)>>, <<t[2], P(2)>> >>, 3, 2, 2, 2))

\* Array indexing, for a base in "addr" or "const", with and without a bounds
\* check.  tail is what follows the addition ("load.i" or nothing), op the
\* instruction it becomes.
Indexed(shift, tail, op, operands) ==
    LET Checked(b) == Row(<< <<pri(b), P(1)>>, pushpri, <<"load.s.pri", P(2)>>, <<"bounds", P(3)>>,
                             <<"shl.c.pri", IF shift = 2 THEN 2 ELSE P(4)>>, popalt, <<"add">> >> \o tail,
                          << <<alt(b), P(1)>>, <<"load.s.pri", P(2)>>, <<"bounds", P(3)>>,
                             IF operands = 0 THEN <<op>> ELSE <<op, P(4)>> >>,
                          7 + Len(tail), 4, 4, 3 + operands)
        Plain(b) == Row(<< <<pri(b), P(1)>>, pushpri, <<"load.s.pri", P(2)>>,
                           <<"shl.c.pri", IF shift = 2 THEN 2 ELSE P(3)>>, popalt, <<"add">> >> \o tail,
                        << <<alt(b), P(1)>>, <<"load.s.pri", P(2)>>,
                           IF operands = 0 THEN <<op>> ELSE <<op, P(3)>> >>,
                        6 + Len(tail), 3, 3, 2 + operands)
    IN  << Checked("addr"), Checked("const"), Plain("addr"), Plain("const") >>
\* The rows that end in "loadi" match nothing: the instruction is "load.i".
ShortIndexed ==
    << Row(<< <<"shl.c.pri", 2>>, popalt, <<"add">>, <<"loadi">> >>,
           << popalt, <<"lidx">> >>, 4, 1, 2, 0),
       Row(<< <<"shl.c.pri", 2>>, popalt, <<"add">> >>, << popalt, <<"idxaddr">> >>, 3, 1, 2, 0),
       Row(<< <<"shl.c.pri", P(1)>>, popalt, <<"add">>, <<"loadi">> >>,
           << popalt, <<"lidx.b", P(1)>> >>, 4, 1, 2, 1),
       Row(<< <<"shl.c.pri", P(1)>>, popalt, <<"add">> >>,
           << popalt, <<"idxaddr.b", P(1)>> >>, 3, 1, 2, 1) >>
PackedIndexed ==
    Rows(<< "addr", "const" >>,
         LAMBDA b : Row(<< <<pri(b), P(1)>>, pushpri, <<"load.s.pri", P(2)>>, <<"bounds", P(3)>>, popalt >>,
                        << <<alt(b), P(1)>>, <<"load.s.pri", P(2)>>, <<"bounds", P(3)>> >>, 5, 3, 3, 3))

\* A local variable that is declared with an initial value.
Declared ==
    << Row(<< <<";$lcl", P(1), P(2)>>, <<"stack", -4>>, <<"const.pri", P(3)>>,
              <<"stor.s.pri", P(2)>>, exp >>,
           << <<";$lcl", P(1), P(2)>>, <<"push.c", P(3)>>, exp >>, 3, 3, 1, 1),
       Row(<< <<";$lcl", P(1), P(2)>>, <<"stack", -4>>, <<"zero.pri">>,
              <<"stor.s.pri", P(2)>>, exp >>,
           << <<";$lcl", P(1), P(2)>>, <<"push.c", 0>>, exp >>, 3, 2, 1, 1) >>

\* PRI saved on the stack and restored into ALT.
PushPop ==
    Rows(<< "load.s.pri", "load.pri", "const.pri" >>,
         LAMBDA l : Row(<< pushpri, <<l, P(1)>>, popalt >>, << movealt, <<l, P(1)>> >>, 3, 1, 2, 1))
    \o Rows(<< "zero.pri", "load.i" >>,
            LAMBDA l : Row(<< pushpri, <<l>>, popalt >>, << movealt, <<l>> >>, 3, 0, 2, 0))
    \o << Row(<< pushpri, popalt >>, << movealt >>, 2, 0, 1, 0) >>

Arithmetic ==
    LET R(from, to) == Rows(<< "load.s", "load", "const" >>,
            LAMBDA l : Row(<< movealt, <<pri(l), P(1)>>, <<from>> >>,
                           << <<alt(l), P(1)>>, <<to>> >>, 3, 1, 2, 1))
    IN  R("add", "add") \o R("sub.alt", "sub")

\* Both operands of a user operator are loaded and then pushed.
LoadPush ==
    LET Push(l) == IF l = "const" THEN "push.c" ELSE "push"
        R(t) == << Row(<< <<pri(t[1]), P(1)>>, <<alt(t[2]), P(2)>>, pushpri, <<"push.alt">> >>,
                       << <<Push(t[1]), P(1)>>, <<Push(t[2]), P(2)>> >>, 4, 2, 2, 2),
                   Row(<< <<pri(t[1]), P(1)>>, <<alt(t[2]), P(2)>>, <<"push.alt">>, pushpri >>,
                       << <<Push(t[2]), P(2)>>, <<Push(t[1]), P(1)>> >>, 4, 2, 2, 2) >>
    IN  R(<<"const", "const">>) \o R(<<"const", "load">>)
        \o R(<<"load", "const">>) \o R(<<"load", "load">>)

\* An argument of a call; PRI is not used after ";$par".
PushArgument ==
    LET R(l, p) == Row(<< <<l, P(1)>>, pushpri, par >>, << <<p, P(1)>>, par >>, 2, 1, 1, 1)
    IN  << R("load.s.pri", "push.s"), R("load.pri", "push"), R("const.pri", "push.c"),
           Row(<< <<"zero.pri">>, pushpri, par >>, << <<"push.c", 0>>, par >>, 2, 0, 1, 1),
           R("addr.pri", "push.adr"),
           Row(<< <<"move.pri">>, pushpri >>, << <<"push.alt">> >>, 2, 0, 1, 0) >>

WithConstant ==
    Rows(<< <<"add", "add.c">>, <<"smul", "smul.c">>, <<"eq", "eq.c.pri">> >>,
         LAMBDA t : Row(<< <<"const.alt", P(1)>>, <<t[1]>> >>, << <<t[2], P(1)>> >>, 2, 1, 1, 1))
    \o << Row(<< <<"const.pri", P(1)>>, <<"load.s.alt", P(2)>>, <<"sub">> >>,
              << <<"load.s.pri", P(2)>>, <<"add.c", NEGATED>> >>, 3, 2, 2, 2),
          Row(<< <<"const.pri", P(1)>>, <<"load.alt", P(2)>>, <<"sub.alt">> >>,
              << <<"load.pri", P(2)>>, <<"add.c", NEGATED>> >>, 3, 2, 2, 2),
          Row(<< <<"add.c", P(1)>>, <<"add.c", P(2)>> >>, << <<"add.c", SUMMED>> >>, 2, 2, 1, 1) >>

CompareJump ==
    LET R(t) == << Row(<< <<t[1]>>, <<"jzer", P(1)>> >>, << <<t[2], P(1)>> >>, 2, 1, 1, 1),
                   Row(<< <<t[1]>>, <<"jnz", P(1)>> >>, << <<t[3], P(1)>> >>, 2, 1, 1, 1) >>
        Zero(j, k) == Row(<< <<"zero.alt">>, <<j, P(1)>> >>, << <<k, P(1)>> >>, 2, 1, 1, 1)
    IN  R(<<"eq", "jneq", "jeq">>) \o R(<<"neq", "jeq", "jneq">>)
        \o R(<<"sless", "jsgeq", "jsless">>) \o R(<<"sleq", "jsgrtr", "jsleq">>)
        \o R(<<"sgrtr", "jsleq", "jsgrtr">>) \o R(<<"sgeq", "jsless", "jsgeq">>)
        \o << Zero("jeq", "jzer"), Zero("jneq", "jnz") >>

\* A value that nothing uses: before ";$exp" the value of PRI is dropped.
UnusedIncrement ==
    LET R(op, ld) == << Row(<< <<op, P(1)>>, <<ld, P(1)>>, exp >>, << <<op, P(1)>>, exp >>, 2, 2, 1, 1),
                        Row(<< <<ld, P(1)>>, <<op, P(1)>>, exp >>, << <<op, P(1)>>, exp >>, 2, 2, 1, 1) >>
    IN  R("inc", "load.pri") \o R("inc.s", "load.s.pri")
        \o R("dec", "load.pri") \o R("dec.s", "load.s.pri")
StoreZero ==
    << Row(<< <<"const.pri", 0>>, <<"stor.pri", P(1)>>, exp >>, << <<"zero", P(1)>>, exp >>, 2, 2, 1, 1),
       Row(<< <<"const.pri", 0>>, <<"stor.s.pri", P(1)>>, exp >>, << <<"zero.s", P(1)>>, exp >>, 2, 2, 1, 1),
       Row(<< <<"zero.pri">>, <<"stor.pri", P(1)>>, exp >>, << <<"zero", P(1)>>, exp >>, 2, 1, 1, 1),
       Row(<< <<"zero.pri">>, <<"stor.s.pri", P(1)>>, exp >>, << <<"zero.s", P(1)>>, exp >>, 2, 1, 1, 1),
       Row(<< <<"const.pri", 0>> >>, << <<"zero.pri">> >>, 1, 1, 1, 0),
       Row(<< <<"const.alt", 0>> >>, << <<"zero.alt">> >>, 1, 1, 1, 0) >>

\* Macro instructions: several pushes in one, ...
Holes(n) == [k \in 1 .. n |-> P(k)]
Macro == << "", "", "2", "3", "4", "5" >>
PushMany(suffix) ==
    LET Many(n) == Row(FlattenSeq([k \in 1 .. n |-> << <<"push" \o suffix, P(k)>>, par >>]),
                       << <<"push" \o Macro[n + 1] \o suffix>> \o Holes(n) >>, n, n, 1, n)
    IN  << Many(5), Many(4), Many(3), Many(2) >>
\* ... both registers loaded at once, and a constant stored.
LoadBoth ==
    LET R(l) == << Row(<< <<pri(l), P(1)>>, <<alt(l), P(2)>> >>,
                       << <<l \o ".both", P(1), P(2)>> >>, 2, 2, 1, 2),
                   Row(<< <<alt(l), P(2)>>, <<pri(l), P(1)>> >>,
                       << <<l \o ".both", P(1), P(2)>> >>, 2, 2, 1, 2) >>
        Push(l, p) == Row(<< <<l, P(1), P(2)>>, pushpri, <<"push.alt">> >>,
                          << <<p, P(1), P(2)>> >>, 3, 2, 1, 2)
    IN  R("load") \o R("load.s")
        \o << Push("load.both", "push2"), Push("load.s.both", "push2.s") >>
StoreConst ==
    << Row(<< <<"const.pri", P(1)>>, <<"stor.pri", P(2)>> >>,
           << <<"const", P(2), P(1)>> >>, 2, 2, 1, 2),
       Row(<< <<"const.pri", P(1)>>, <<"stor.s.pri", P(2)>> >>,
           << <<"const.s", P(2), P(1)>> >>, 2, 2, 1, 2) >>
NativeCall ==
    << Row(<< <<"push.c", P(1)>>, <<"sysreq.c", P(2)>>, <<"stack", P(3)>> >>,
           << <<"sysreq.n", P(2), P(1)>> >>, 3, 3, 1, 2) >>

\* The table, in its order: up to the separator, and after it.
Simple ==
    LoadLoad \o ChainedLoad \o ChainedEnd \o ChainedEntry \o MovedToAlt
    \o Indexed(2, << <<"load.i">> >>, "lidx", 0)
    \o Indexed(0, << <<"load.i">> >>, "lidx.b", 1)
    \o Indexed(2, << >>, "idxaddr", 0) \o Indexed(0, << >>, "idxaddr.b", 1)
    \o ShortIndexed \o PackedIndexed \o Declared \o PushPop \o Arithmetic \o LoadPush
    \o PushArgument \o WithConstant \o CompareJump \o UnusedIncrement \o StoreZero
Macros ==
    NativeCall \o PushMany(".c") \o PushMany("") \o PushMany(".s") \o PushMany(".adr")
    \o LoadBoth \o StoreConst
sequences(level) ==
    IF level = sOPTIMIZE_NONE THEN << >>
    ELSE Simple \o (IF level = sOPTIMIZE_NOMACRO THEN << >> ELSE Macros)

-----------------------------------------------------------------------------
\* Matching, replacing and optimising.

\* The rows that may match at a line, by the opcode of that line.
ByOpening(rows) ==
    [ op \in { row.find[1][1] : row \in ToSet(rows) } |->
        SelectSeq(rows, LAMBDA row : row.find[1][1] = op) ]
Tables == [ level \in {sOPTIMIZE_NONE, sOPTIMIZE_NOMACRO, sOPTIMIZE_DEFAULT} |-> ByOpening(sequences(level)) ]

\* The operands that the holes of a row stand for, where it is tried.
Bound(row, code, at) ==
    UNION { { <<row.find[k][j], code[at + k - 1][j]>> : j \in 2 .. Len(row.find[k]) } :
            k \in DOMAIN row.find }
matchsequence(row, code, at) ==
    /\ at + Len(row.find) - 1 <= Len(code)
    /\ \A k \in DOMAIN row.find :
          LET f == row.find[k]  l == code[at + k - 1] IN
          /\ f[1] = l[1] /\ Len(f) = Len(l)
          /\ \A j \in 2 .. Len(f) : IsHole(f[j]) \/ f[j] = l[j]
    /\ \A b, c \in Bound(row, code, at) : b[1] = c[1] => b[2] = c[2]

replacesequence(row, code, at) ==
    LET bound == Bound(row, code, at)
        Value(h) == (CHOOSE b \in bound : b[1] = h)[2]
        Operand(x) == CASE IsHole(x) -> Value(x)
                        [] x = NEGATED -> -Value(P(1))
                        [] x = SUMMED -> Value(P(1)) + Value(P(2))
                        [] OTHER -> x
    IN  [k \in DOMAIN row.replace |->
            [j \in DOMAIN row.replace[k] |->
                IF j = 1 THEN row.replace[k][1] ELSE Operand(row.replace[k][j])]]
strreplace(row, code, at) ==
    SubSeq(code, 1, at - 1) \o replacesequence(row, code, at)
    \o SubSeq(code, at + Len(row.find), Len(code))

\* Replacing at one line, from the top of the table after each replacement;
\* then over the lines of the buffer, and over the buffer until nothing
\* matches.  "saved" is what the replacements take off code_idx.
RECURSIVE AtLine(_, _, _, _)
AtLine(code, at, saved, table) ==
    LET rows == IF code[at][1] \in DOMAIN table THEN table[code[at][1]] ELSE << >>
        seq == SelectInSeq(rows, LAMBDA row : matchsequence(row, code, at))
    IN  IF seq = 0 THEN [code |-> code, saved |-> saved]
        ELSE AtLine(strreplace(rows[seq], code, at), at, saved + rows[seq].savesize, table)
RECURSIVE OverBuffer(_, _, _)
OverBuffer(result, at, table) ==
    IF at > Len(result.code) THEN result
    ELSE OverBuffer(AtLine(result.code, at, result.saved, table), at + 1, table)
RECURSIVE UntilStable(_, _, _)
UntilStable(before, result, table) ==
    IF result.code = before THEN result
    ELSE UntilStable(result.code, OverBuffer(result, 1, table), table)
stgopt(code, table) == UntilStable(code, OverBuffer([code |-> code, saved |-> 0], 1, table), table)

-----------------------------------------------------------------------------
\* Reordering.  The marks of the buffer: the arguments of a call stand
\* between START and END, each after the mark of its position.
sSTARTREORDER == <<"[">>
sENDREORDER == <<"]">>
sEXPRSTART(k) == <<"|", k>>

Join(a, b) == [code |-> a.code \o b.code, saved |-> a.saved + b.saved]
Nothing == [code |-> << >>, saved |-> 0]
Nesting(lines, i) == Cardinality({j \in 1 .. i : lines[j] = sSTARTREORDER})
                     - Cardinality({j \in 1 .. i : lines[j] = sENDREORDER})
\* The line that closes the call the buffer starts with, the marks of its
\* arguments, and the code of one argument: the last that claims its position.
Closing(lines) == CHOOSE i \in DOMAIN lines :
    Nesting(lines, i) = 0 /\ \A j \in 1 .. i - 1 : Nesting(lines, j) > 0
Marks(lines) == {i \in 1 .. Closing(lines) : lines[i][1] = "|" /\ Nesting(lines, i) = 1}
Argument(lines, k) ==
    LET After(from, marks) == Min({j \in marks : j > from})
        Piece(from) == SubSeq(lines, from + 1, After(from, Marks(lines) \cup {Closing(lines)}) - 1)
    IN  Piece(Max({i \in Marks(lines) : lines[i][2] = k}))

\* The arguments of a call are written from the last to the first, and what
\* stands between two calls is optimised on its own.
RECURSIVE stgstring(_, _)
stgstring(lines, table) ==
    IF lines = << >> THEN Nothing
    ELSE IF lines[1] = sSTARTREORDER
    THEN LET positions == {lines[i][2] : i \in Marks(lines)}
             Written[argc \in Nat] ==
                 IF argc = 0 THEN Nothing
                 ELSE Join(stgstring(Argument(lines, argc - 1), table), Written[argc - 1])
         IN  Join(Written[Cardinality(positions)],
                  stgstring(SubSeq(lines, Closing(lines) + 1, Len(lines)), table))
    ELSE LET call == SelectInSeq(lines, LAMBDA l : l = sSTARTREORDER)
             until == IF call = 0 THEN Len(lines) ELSE call - 1
         IN  Join(stgopt(SubSeq(lines, 1, until), table),
                  stgstring(SubSeq(lines, until + 1, Len(lines)), table))
\* The buffer is written out: a second optimisation only if a call was there.
stgout(lines, table) ==
    LET Again(first) == Join([Nothing EXCEPT !.saved = first.saved], stgopt(first.code, table))
    IN  IF sSTARTREORDER \in ToSet(lines) THEN Again(stgstring(lines, table)) ELSE stgstring(lines, table)
=============================================================================
