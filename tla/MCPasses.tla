------------------------------ MODULE MCPasses ------------------------------
(***************************************************************************)
(* The passes of the compiler over small programs: every order of a few    *)
(* declarations with bodies of at most two uses.  And the lists of states  *)
(* in such a pass: variables, or up to four implementations of a function, *)
(* in two automata, the anonymous one and m, with states of the same       *)
(* names.  A behaviour is about one of the two.                            *)
(***************************************************************************)
EXTENDS Passes
CONSTANT StatePrograms
VARIABLES source, pass, at, automata, states, lists, globals, impls, glb, table, errors,
          part     \* what the behaviour is about
S == INSTANCE States WITH program <- source, vars <- globals, Programs <- StatePrograms

stateVars == <<source, pass, at, automata, states, lists, globals, impls, glb, table, errors>>
MCInit ==
    /\ \/ part = "passes" /\ program \in Programs /\ source = << >> /\ S!FirstPass
       \/ part = "states" /\ program = << >> /\ S!StatesInit
    /\ FirstPass
MCNext ==
    \/ part = "passes" /\ Next /\ UNCHANGED <<stateVars, part>>
    \/ part = "states" /\ S!StatesNext /\ UNCHANGED <<vars, part>>
MCSpec == MCInit /\ [][MCNext]_<<vars, stateVars, part>>
OverlaySafe == S!OverlaySafe
Dispatched == S!Dispatched
AlwaysDispatched == S!AlwaysDispatched

MCOrder == <<"+", "f", "g", "h", "main", "n", "o", "v", "w">>
Use(name) == [name |-> name, call |-> name \notin {"v", "w"}, oper |-> FALSE, when |-> ""]
Bodies(names) == {<< >>} \cup {<<Use(a)>> : a \in names} \cup {<<Use(a), Use(b)>> : a, b \in names}
Decl(kind, name, public, stock, tag, body) ==
    [decl |-> kind, name |-> name, public |-> public, stock |-> stock, tag |-> tag, body |-> body]
Function(name, public, body) == Decl("function", name, public, FALSE, 0, body)
Orders(rows) == UNION {SetToSeqs(row) : row \in rows}
Forward(name, public) == Decl("forward", name, public, FALSE, 0, << >>)
Native(name) == Decl("native", name, FALSE, FALSE, 0, << >>)
Variable(name, public, stock) == Decl("variable", name, public, stock, 0, << >>)
Tagged(name, body) == Decl("function", name, FALSE, FALSE, 1, body)
Applied(name) == [name |-> name, call |-> TRUE, oper |-> TRUE, when |-> ""]
\* Functions that call each other or not, one of them public or not.
Callers == Orders({{Function("main", FALSE, a), Function("f", FALSE, b), Function("g", p, c)} :
                      a \in Bodies({"f"}), b \in Bodies({"f", "g"}), c \in Bodies({"g", "f"}), p \in BOOLEAN})
\* Natives, used by functions that are used or not.
Natives2 == Orders({{Native("n"), Native("o"), Function("main", FALSE, a), Function("f", FALSE, b)} :
                      a \in Bodies({"n", "o", "f"}), b \in Bodies({"n", "o"})})
\* Variables, public or not, and public functions.
Variables == Orders({{Variable("v", p, t), Variable("w", q, FALSE), Function("f", TRUE, a), Function("g", r, b)} :
                      a \in Bodies({"v", "w"}), b \in Bodies({"v", "w"}), p, q, r, t \in BOOLEAN})
\* A function with a tag, an operator on it, a forward declaration.
Operators == Orders({{Tagged("+", b), Tagged("f", a), Function("main", FALSE, <<Applied("f"), Use("h")>>), Function("h", FALSE, b)} :
                      a \in {<< >>, <<Applied("f")>>}, b \in {<< >>, <<Use("f")>>}})
Forwards == Orders({{Forward("f", p), Function("f", p, b), Function("main", FALSE, a), x} :
                      a \in Bodies({"f", "h"}), b \in Bodies({"h"}), p \in BOOLEAN,
                      x \in {Forward("h", FALSE), Function("h", FALSE, << >>), Function("h", TRUE, <<Use("f")>>)}})
Publics == Orders({{Function(name, TRUE, << >>) : name \in {"f", "g", "h", "main"}}})
\* A use under #if defined of a name, which is known in both passes or in neither.
Position(p, name) == CHOOSE i \in DOMAIN p : p[i].name = name
First(p) == Position(p, "h") < Position(p, "main")
Conditional == {p \in Orders({{Function("main", FALSE, <<[Use("g") EXCEPT !.when = name]>>), Function("g", FALSE, << >>),
                               Function("h", TRUE, << >>)} : name \in {"h", "n"}}) : First(p)}
\* One function, without calls.
Smallest == {<<Function("main", FALSE, << >>)>>}
MCPrograms == Conditional \cup Callers \cup Natives2 \cup Variables \cup Operators \cup Forwards \cup Publics

Name(automaton, state) == [automaton |-> automaton, state |-> state]
MCLists == {<<Name("", "a")>>, <<Name("", "b")>>, <<Name("", "b"), Name("", "a")>>,
            <<Name("", "a"), Name("", "a")>>, <<Name("m", "b")>>, <<Name("m", "a"), Name("", "c")>>}
Global(names, size, used) == [kind |-> "var", names |-> names, size |-> size, used |-> used]
Globals == {Global(l, n, TRUE) : l \in MCLists \cup {<<>>}, n \in {1, 2}} \cup {Global(<<>>, 1, FALSE)}
Behind(first) == {<<first>> \o g : g \in [1 .. 3 -> {Global(l, 1, TRUE) : l \in MCLists}]}
Implementations == [kind : {"func"}, names : MCLists \cup {<<Name("", "")>>, <<Name("", "c"), Name("m", "a")>>}]
\* One or two implementations.
FewImplementations == [1 .. 1 -> Implementations] \cup [1 .. 2 -> Implementations]
MCStatePrograms == [1 .. 3 -> Globals] \cup UNION {Behind(Global(l, 2, TRUE)) : l \in MCLists}
                   \cup UNION {[1 .. n -> Implementations] : n \in 1 .. 4}
=============================================================================
