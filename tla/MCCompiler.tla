----------------------------- MODULE MCCompiler -----------------------------
(***************************************************************************)
(* Programs for Compiler.  All of them share the globals and the functions *)
(* below; what differs is the body of main, which holds one of the         *)
(* statements of a family.                                                 *)
(***************************************************************************)
EXTENDS Compiler

(***************************************************************************)
(* The properties.                                                         *)
(***************************************************************************)
Meant == INSTANCE Semantics WITH Fuel <- 8

\* What a run shows: the globals are the first cells of the data, after the
\* selector of an automaton if there is one.
selector == Cardinality({i \in DOMAIN program.funcs : program.funcs[i].label = 1})
Shared == Len(Meant!Globals(program).store)
Observed == [status |-> machine.status, calls |-> machine.calls,
             value |-> IF machine.status = "return" THEN machine.pri ELSE 0,
             globals |-> [i \in 1 .. Shared |-> machine.mem[(selector + i - 1) * CELLSIZE]]]
Promised == INSTANCE Reference WITH
    Fuel <- 8, outcome <- IF phase = "done" THEN Observed
                          ELSE [status |-> "", calls |-> << >>, value |-> 0, globals |-> << >>]

\* At every level of optimisation the instructions that the staging buffer
\* and the peephole optimiser leave do what the program means: compile and
\* run is a run of the reference.
Implements == Promised!Spec

\* A program that returns gives back all of the stack and of the heap, and
\* the frame of its caller: whatever way a block, a loop or a function with
\* temporaries is left (Release, delwhile, doreturn, modheap after a call).
Restored == phase = "done" /\ machine.status = "return" =>
                machine.stk = stp /\ machine.hea = hea /\ machine.frm = 0

(***************************************************************************)
(* The programs.                                                           *)
(***************************************************************************)

N(n) == <<"num", n>>
V(name) == <<"var", name>>
At1(base, e) == <<"[]", V(base), e>>
Char(base, e) == <<"{}", V(base), e>>
Call(f, es) == <<"call", f, [k \in DOMAIN es |-> <<k - 1, es[k]>>]>>
Op(op, a, b) == <<"bin", op, a, b>>
Set(a, b) == <<"=", "none", a, b>>
Do(e) == <<"expr", <<e>>>>
Block(stmts) == <<"block", stmts>>
Return(e) == <<"return", <<e>>>>

Arg(ident) == [ident |-> ident, default |-> "none", value |-> 0, const |-> FALSE, addr |-> 0,
               arraysize |-> 0, size |-> 0, dims |-> <<0>>]
Defaulted(arg, v) == [arg EXCEPT !.default = "value", !.value = v]
\* The array {6, 2} that is in the data segment of every program.
DefaultArray == [Arg("iREFARRAY") EXCEPT !.default = "value", !.addr = 8, !.arraysize = 3, !.size = 2]
SizeOfArg(k) == [Arg("iVARIABLE") EXCEPT !.default = "sizeof", !.value = k]
Fn(id, native, args, ret) == [id |-> id, native |-> native, args |-> args, ret |-> ret, entry |-> FALSE]

\* a, g and the arrays; the functions: two natives, one that counts in a, one
\* that changes what it is given, two with arrays, one that returns one.
globals == << <<"a", << >>, <<5>> >>, <<"g", << >>, <<2>> >>, <<"d", <<2>>, <<6, 2>> >>,
              <<"t", <<3>>, <<1, 0, 4>> >>, <<"s", <<1>>, <<16909060>> >> >>
func == [ f \in 1 .. 8 |->
    CASE f = 1 -> Fn(1, TRUE, <<Arg("iVARIABLE")>>, 0)
      [] f = 2 -> Fn(2, TRUE, <<Arg("iVARIABLE"), Defaulted(Arg("iVARIABLE"), 7)>>, 0)
      [] f = 3 -> Fn(3, FALSE, <<Arg("iVARIABLE"), Defaulted(Arg("iVARIABLE"), 4)>>, 0)
      [] f = 4 -> Fn(4, FALSE, <<Arg("iREFERENCE")>>, 0)
      [] f = 5 -> Fn(5, FALSE, <<DefaultArray, SizeOfArg(0)>>, 0)
      [] f = 6 -> Fn(6, FALSE, << >>, 2)
      [] f = 7 -> Fn(7, FALSE, <<Arg("iVARIABLE"), Arg("iVARARGS")>>, 2)
      [] f = 8 -> Fn(8, FALSE, <<Arg("iVARIABLE")>>, 0) ]
Def(id, params, body) ==
    [id |-> id, states |-> {}, label |-> 0, public |-> id = 8, params |-> params, body |-> body]
library ==
    << Def(3, <<"x", "y">>, Block(<< Do(<<"=", "ob_add", V("a"), N(1)>>),
                                     Return(Op("ob_sub", V("x"), V("y"))) >>)),
       Def(4, <<"r">>, Block(<< Do(<<"post", "inc", V("r")>>), Return(Op("os_mult", V("r"), N(2))) >>)),
       Def(5, <<"v", "n">>, Block(<< Do(Set(At1("v", N(0)), Op("ob_add", V("n"), At1("v", N(1))))),
                                     Return(At1("v", N(0))) >>)),
       Def(6, << >>, Block(<< <<"new", "w", <<2>>, <<8, 9>>>>, Do(<<"pre", "inc", V("a")>>),
                              Return(V("w")) >>)),
       Def(7, <<"x">>, Block(<< <<"new", "w", <<2>>, << >>>>, Do(Set(At1("w", N(1)), V("x"))),
                                Return(V("w")) >>)) >>
Prog(body) ==
    [globals |-> globals, data |-> <<5, 2, 6, 2>>, func |-> func, main |-> 8, params |-> <<3>>,
     funcs |-> Append(library, Def(8, <<"p">>, body))]
Main(stmts) ==
    Prog(Block(<< <<"new", "x", << >>, <<N(2)>>>>, <<"new", "b", <<2>>, <<4, 6>>>> >> \o stmts))

\* Expressions, and where they stand.
Leaves == {N(3), V("a"), V("x"), At1("b", V("x")), Call(1, <<V("x")>>)}
Places == {V("a"), V("x"), At1("t", V("x")), Char("s", N(2))}
Binary == {"ob_add", "ob_sub", "os_div", "ob_and", "ob_eq"}
Constants(e) == e[1] = "bin" /\ e[3][1] = "num" /\ e[4][1] = "num"
Operations ==
    {e \in {Op(op, a, b) : op \in Binary, a \in Leaves, b \in Leaves} : ~Constants(e)}
    \cup {<<"rel", <<op>>, <<a, b>>>> : op \in {"os_lt", "os_ge"}, a \in Leaves, b \in Leaves}
    \cup {<<"un", op, a>> : op \in {"-", "!", "~"}, a \in Leaves}
    \cup {<<kind, op, a>> : kind \in {"pre", "post"}, op \in {"inc", "dec"}, a \in Places}
Effects ==
    {<<"=", op, a, b>> : op \in {"none", "ob_sub"}, a \in Places, b \in Leaves \ {N(3)}}
    \cup {Call(3, <<a, b>>) : a \in Leaves, b \in Leaves} \cup {Call(3, <<a>>) : a \in Leaves}
    \cup {Call(4, <<a>>) : a \in Places \ {Char("s", N(2))}}
    \cup {Call(5, <<V("t")>>), Call(5, <<V("b")>>), Call(5, << >>)}
    \cup {<<"[]", Call(6, << >>), N(1)>>, <<"[]", Call(7, <<V("a"), V("x"), N(2)>>), N(1)>>}
Logic ==
    {<<op, <<a, b>>>> : op \in {"&&", "||"}, a \in Leaves, b \in Leaves}
    \cup {<<"?:", a, b, c>> : a \in {N(0), V("x"), V("p")}, b \in Leaves, c \in Leaves}
Inner == {Op("ob_sub", V("a"), V("x")), Op("os_mult", N(3), At1("b", N(1))), <<"post", "inc", V("a")>>,
          <<"=", "none", V("a"), V("p")>>, <<"=", "ob_add", At1("t", N(0)), V("x")>>, Call(2, <<V("a")>>),
          Call(3, <<Call(4, <<V("x")>>), V("x")>>), Call(5, <<V("t")>>), <<"[]", Call(6, << >>), V("x")>>,
          <<"&&", <<V("x"), Call(1, <<N(0)>>), V("a")>>>>, <<"rel", <<"os_lt", "os_le">>, <<N(0), V("x"), V("a")>>>>,
          <<"?:", V("x"), Call(1, <<N(1)>>), V("a")>>, <<"[]", <<"?:", V("x"), V("t"), V("b")>>, N(1)>>,
          <<"[]", <<"?:", V("p"), Call(6, << >>), V("b")>>, N(0)>>, <<",", <<Call(1, <<N(2)>>), V("x")>>>> }
Nested ==
    {Op("ob_sub", e, f) : e \in Inner, f \in Inner}
    \cup {<<"=", "none", At1("b", Op("ob_and", e, N(1))), e>> : e \in Inner}
Returned(e) == Main(<<Return(e)>>)
Stored(e) == Main(<< <<"new", "y", << >>, <<e>>>>, Do(Set(V("x"), V("y"))), Return(Op("ob_add", V("y"), V("x"))) >>)
Tested(e) == Main(<< <<"else", <<e>>, Do(Set(V("x"), N(1))), Do(Call(1, <<V("x")>>))>>, Return(V("x")) >>)

\* Statements: S may be in a loop over i, T after one.
Inside == Block(<< <<"new", "y", << >>, <<V("x")>>>>, Do(<<"=", "ob_add", V("a"), V("y")>>) >>)
Leave(s) == Block(<< <<"new", "y", <<2>>, <<1, 0>>>>, <<"if", <<Op("ob_eq", V("i"), N(1))>>, s>>,
                     Do(<<"pre", "inc", V("a")>>) >>)
Conditions == {V("x"), <<"un", "!", V("a")>>, <<"rel", <<"os_lt">>, <<V("x"), V("p")>>>>, N(0), N(1),
               Op("ob_eq", V("a"), N(5)), Set(V("x"), Call(1, <<N(1)>>)), <<"post", "dec", V("x")>>,
               <<"||", <<V("x"), V("a")>>>>}
Bodies == {Do(<<"post", "inc", V("a")>>), Inside, Do(Call(1, <<V("a")>>)), Return(V("a")), <<"exit", << >>>>}
InLoop == {<<"break">>, <<"continue">>, Return(V("i")), <<"goto", "out">>, Do(Call(1, <<V("i")>>)),
           Block(<< <<"new", "z", << >>, << >>>>, <<"continue">> >>)}
UpTo(n) == <<"rel", <<"os_lt">>, <<V("i"), N(n)>>>>
NewI == <<"new", "i", << >>, <<N(0)>>>>
Inc == <<"post", "inc", V("i")>>
Sentences ==
    {<< <<"if", <<c>>, s>> >> : c \in Conditions, s \in Bodies}
    \cup {<< <<"else", <<c>>, s, t>> >> : c \in Conditions, s \in Bodies, t \in {Return(V("a")), Inside}}
    \cup {<< <<"for", <<NewI>>, <<UpTo(3)>>, <<Inc>>, Leave(s)>>, <<"label", "out">>, Do(Call(1, <<V("a")>>)) >> : s \in InLoop}
    \cup {<< NewI, <<"while", <<V("x"), UpTo(3)>>, Block(<< Do(Inc), Leave(s) >>)>>, <<"label", "out">> >> : s \in InLoop}
    \cup {<< NewI, <<"do", Block(<< Do(Inc), Leave(s) >>), <<UpTo(3)>>>>, <<"label", "out">> >> : s \in InLoop}
    \cup {<< NewI, <<"for", << >>, << >>, <<Inc>>, <<"if", <<Op("ob_eq", V("i"), N(2))>>, s>>>>, <<"label", "out">> >> :
             s \in {<<"break">>, Return(V("i")), <<"goto", "out">>}}
    \cup {<< <<"switch", <<e>>, << <<{2}, s>>, <<{4, 5, 3}, Inside>> >>, t>> >> :
             e \in {V("x"), V("p"), V("a"), Call(1, <<N(3)>>)}, s \in Bodies,
             t \in {<< >>, <<Do(<<"post", "dec", V("a")>>)>>}}
    \cup {<< <<"assert", <<c>>>> >> : c \in Conditions \ {N(0), N(1)}}
    \cup {<< <<"label", "back">>, Block(<< <<"new", "y", << >>, << >>>>, Do(<<"pre", "inc", V("a")>>),
             <<"if", <<<<"post", "dec", V("x")>>>>, <<"goto", "back">>>> >>) >>}
    \cup {<< <<"static", "q", <<3>>, <<7, 8>>>>, <<"new", "c", <<2>>, << >>>>, <<"new", "e", <<2>>, <<3, 3>>>>,
             Do(Set(V("c"), V("e"))), Do(Call(1, <<At1("q", V("x"))>>)),
             Do(Call(1, <<Op("ob_add", At1("c", N(0)), At1("e", N(1)))>>)) >>,
          << <<"new", "k", <<2, 2>>, <<1, 2, 3, 4>>>>, Do(<<"=", "ob_add", <<"[]", At1("k", N(1)), V("g")>>, N(1)>>),
             Do(Call(1, <<<<"[]", At1("k", V("g")), N(0)>>>>)) >>,
          << <<"new", "k", <<2, 2>>, <<1, 2, 3, 4>>>>, Do(Set(<<"[]", At1("k", N(1)), Op("ob_sub", V("g"), N(1))>>, N(9))),
             Do(Call(1, <<<<"[]", At1("k", N(1)), N(1)>>>>)), Do(Call(1, <<<<"[]", At1("k", N(0)), N(1)>>>>)) >>}

\* Functions with states: the selector is the first cell of the data, state 1
\* has a version of f and of entry, state 2 another f, the rest a third one.
\* main goes from one state to the other and calls f in between.
StateFunc == << Fn(1, TRUE, <<Arg("iVARIABLE")>>, 0), Fn(2, FALSE, <<Arg("iVARIABLE")>>, 0),
                [Fn(3, FALSE, << >>, 0) EXCEPT !.entry = TRUE], Fn(4, FALSE, <<Arg("iVARIABLE")>>, 0) >>
Def2(states, label, stmts) == [Def(2, <<"x">>, Block(stmts)) EXCEPT !.states = states, !.label = label]
F == Call(2, <<V("x")>>)
Go(c, v, entry) == <<"state", c, v, 0, entry>>
StateProg(other, stmts) ==
    [globals |-> << <<"a", << >>, <<5>>>> >>, data |-> <<5>>, func |-> StateFunc, main |-> 4, params |-> <<3>>,
     funcs |-> << Def2({1}, 1, <<Return(Op("ob_add", V("x"), N(1)))>>),
                  Def2({2, 3}, 2, <<Do(Call(1, <<V("x")>>)), Go(<< >>, 1, 4)>>) >>
               \o (IF other THEN <<Def2({}, 3, <<Go(<<V("x")>>, 2, 0), Return(V("x"))>>)>> ELSE << >>)
               \o << [Def(3, << >>, Do(Call(1, <<V("a")>>))) EXCEPT !.states = {1}, !.label = 4, !.public = TRUE],
                     [Def(4, <<"x">>, Block(stmts)) EXCEPT !.public = TRUE] >>]
Switches == {Go(c, v, IF v = 1 THEN 4 ELSE 0) : c \in {<< >>, <<V("a")>>, <<N(0)>>}, v \in 1 .. 3}
States == {StateProg(other, <<s, Do(<<"=", "ob_add", V("a"), F>>), t, Return(Op("ob_sub", F, V("a")))>>) :
              other \in BOOLEAN, s \in Switches, t \in Switches}

Basic == {Returned(e) : e \in Operations \cup Effects \cup Logic}
Deep == {Returned(e) : e \in Nested}
Uses == UNION {{Stored(e), Tested(e)} : e \in Inner \cup Effects}
Stmts == {Main(s \o <<Return(V("a"))>>) : s \in Sentences}
Every == Basic \cup Deep \cup Uses \cup Stmts \cup States
=============================================================================
