------------------------------ MODULE MCAmxCode ------------------------------
(* Programs for AmxCode, put together by the assembler: a start, two of the    *)
(* bodies below, and an end.  The same files with one cell damaged are loaded  *)
(* as well.                                                                    *)
EXTENDS AmxCode

Start0 == <<Ins(120, <<0>>), Ins(46, <<>>)>>          \* halt 0; proc
End    == <<Label("end"), Ins(48, <<>>)>>             \* retn

Bodies == {
  <<Ins(39, <<4>>), Ins(123, <<0>>), Ins(44, <<8>>)>>,         \* call a native
  <<Ins(135, <<1, 4>>), Ins(137, <<>>)>>,                      \* the macro form
  <<Jump(53, "end"), Label("l"), Ins(107, <<>>)>>,             \* jzer end
  <<Label("m"), Ins(137, <<>>), Jump(51, "m")>>,               \* endless loop
  <<Jump(129, "t"), Label("a"), Jump(51, "end"), Label("t"),
    Ins(130, <<>>), Case(1, "end"), Case(7, "a")>>,            \* switch, one case
  <<Jump(51, "end"), Label("f"), Ins(46, <<>>), Ins(122, <<>>), Ins(47, <<>>)>>,
  <<Ins(143, <<0, 4, 8>>), Ins(156, <<4, 500>>), Ins(128, <<>>)>>,
  <<Ins(52, <<-8>>), Ins(31, <<9>>), Ins(10, <<2>>)>> }        \* jrel to itself

CallF == <<Jump(49, "end")>>
Pairs == {Start0 \o q[1] \o q[2] \o End : q \in {q \in Bodies \X Bodies : q[1] # q[2]}}
         \cup {Start0 \o CallF \o b \o End : b \in Bodies}

\* Every opcode the assembler knows, between a jump over it and the end.
Others == {Start0 \o <<Jump(51, "end"), Ins(op, [k \in 1..Params(op) |-> 1])>> \o End :
             op \in (Parm0 \cup Parm1 \cup Parm2 \cup Parm3 \cup Parm4 \cup Parm5)
                    \ {52, 130}}

Program(p) == [code |-> Code(p), ordered |-> TRUE, named |-> TRUE, datasize |-> 12,
            stacksize |-> 64, natives |-> 2, publics |-> {8}, pubvars |-> {0},
            main |-> 8, layout |-> Layout(p)]
Damaged(g, i, v) == [g EXCEPT !.code[i] = v, !.layout = {}]

Broken == {[Program(Start0 \o End) EXCEPT !.ordered = FALSE],
           [Program(Start0 \o End) EXCEPT !.named = FALSE],
           [Program(Start0 \o End) EXCEPT !.publics = {16}],
           [Program(Start0 \o End) EXCEPT !.pubvars = {12}]}

Least == Program(Start0 \o End)
Whole == {Program(p) : p \in Pairs \cup Others}
CodeFiles == Whole \cup Broken \cup
         UNION {{Damaged(g, i, v) : i \in DOMAIN g.code, v \in {-1, 1, 2, 8, 51, 123, 127, 130, 144}} :
                g \in {Program(p) : p \in Pairs}}
=============================================================================
