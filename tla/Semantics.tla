------------------------------ MODULE Semantics ------------------------------
(***************************************************************************)
(* What a program means, independently of how it is compiled: the trees of *)
(* Expressions and Statements evaluated over a store of cells, where a     *)
(* variable is a location, an array is a row of locations (the rows of an  *)
(* array of arrays follow each other), and nothing is on a stack or on a   *)
(* heap.  The Pawn rules: operands are evaluated from left to right, the   *)
(* arguments of a call from the last to the first, a chain of relations is *)
(* the conjunction of its links and evaluates every operand once.          *)
(* A state: store, env (names of the function), glob, calls (the calls of  *)
(* natives), halt ("" or why it stopped), ctl (what a statement left for   *)
(* those around it) and value (what the function returns).                 *)
(***************************************************************************)
EXTENDS Integers, Sequences, SequencesExt, TLC

CONSTANT Fuel                   \* how often a loop may go round

Sem == INSTANCE Machine WITH Cells <- {}, FUEL <- 0
Alloc(s, values) == [s EXCEPT !.store = @ \o values]
Top(s) == Len(s.store) + 1
Zeroes(n) == [k \in 1 .. n |-> 0]
Size(dims) == FoldLeft(LAMBDA n, d : n * d, 1, dims)
Bind(s, name, loc, dims) == [s EXCEPT !.env = (name :> [loc |-> loc, dims |-> dims]) @@ @]
Lookup(s, name) == IF name \in DOMAIN s.env THEN s.env[name] ELSE s.glob[name]
Halted(s) == s.halt # ""
Halt(s, why) == IF Halted(s) THEN s ELSE [s EXCEPT !.halt = why]
Val(s, v) == [s |-> s, v |-> v, dims |-> << >>]
Put(s, loc, v) == [s EXCEPT !.store[loc] = v]
B(p) == IF p THEN 1 ELSE 0

Compute(op, a, b) ==
    CASE op = "ob_add" -> a + b [] op = "ob_sub" -> a - b [] op = "os_mult" -> a * b
      [] op = "os_div" -> IF b = 0 THEN 0 ELSE Sem!FloorDiv(a, b)
      [] op = "os_mod" -> IF b = 0 THEN 0 ELSE Sem!FloorMod(a, b)
      [] op = "ob_sal" -> a * 2 ^ b [] op = "os_sar" -> a \div 2 ^ b
      [] op = "ou_sar" -> Sem!Unsigned(a) \div 2 ^ b
      [] op = "ob_and" -> Sem!BitAnd(a, b) [] op = "ob_xor" -> Sem!BitXor(a, b)
      [] op = "ob_or" -> Sem!BitOr(a, b)
      [] op = "ob_eq" -> B(a = b) [] op = "ob_ne" -> B(a # b)
      [] op = "os_le" -> B(a <= b) [] op = "os_ge" -> B(a >= b)
      [] op = "os_lt" -> B(a < b) [] op = "os_gt" -> B(a > b)
Divides(op) == op \in {"os_div", "os_mod"}

\* The bytes of a cell, the first in the highest.
GetChar(v, i) == (v \div 256 ^ (3 - i)) % 256
SetChar(v, i, c) == v + ((c % 256) - GetChar(v, i)) * 256 ^ (3 - i)

RECURSIVE Eval(_, _, _), Place(_, _, _), Exec(_, _, _), Invoke(_, _, _, _)

\* Where a cell or a character is: its location, and which character (4: the
\* whole cell).  P is the program.
Place(P, s, e) ==
    IF e[1] = "var" THEN [s |-> s, loc |-> Lookup(s, e[2]).loc, char |-> 4]
    ELSE LET base == Eval(P, s, e[2])
             index == Eval(P, base.s, e[3])
             width == IF e[1] = "{}" THEN 4 ELSE 1
             inside == index.v >= 0 /\ index.v < base.dims[1] * width
             out == IF inside THEN index.s ELSE Halt(index.s, "AMX_ERR_BOUNDS")
         IN  IF Halted(out) THEN [s |-> out, loc |-> 1, char |-> 4]
             ELSE [s |-> out, loc |-> base.v + index.v \div width,
                   char |-> IF width = 4 THEN index.v % 4 ELSE 4]
Get(p) == LET v == p.s.store[p.loc] IN IF p.char = 4 THEN v ELSE GetChar(v, p.char)
Set(p, s, v) == Put(s, p.loc, IF p.char = 4 THEN v ELSE SetChar(s.store[p.loc], p.char, v))

\* Arguments, the last first; then the call.
Param(P, f, i) == LET args == P.func[f].args IN IF i < Len(args) THEN args[i + 1] ELSE Last(args)
Passes(P, acc, f, i, e) ==
    IF e[1] = "var" /\ Lookup(acc.s, e[2]).dims = << >> /\ Param(P, f, i).ident = "iREFERENCE"
    THEN [s |-> acc.s, given |-> (i :> [loc |-> Lookup(acc.s, e[2]).loc, dims |-> << >>]) @@ acc.given]
    ELSE IF e[1] \in {"[]", "{}"} /\ Param(P, f, i).ident = "iREFERENCE"
    THEN LET p == Place(P, acc.s, e)
         IN  [s |-> p.s, given |-> (i :> [loc |-> p.loc, dims |-> << >>]) @@ acc.given]
    ELSE LET r == Eval(P, acc.s, e)
         IN  IF r.dims # << >>
             THEN [s |-> r.s, given |-> (i :> [loc |-> r.v, dims |-> r.dims]) @@ acc.given]
             ELSE [s |-> Alloc(r.s, <<r.v>>), given |-> (i :> [loc |-> Top(r.s), dims |-> << >>]) @@ acc.given]
Default(P, acc, f, i) ==
    LET arg == Param(P, f, i) IN
    IF arg.ident = "iREFARRAY"
    THEN [s |-> Alloc(acc.s, SubSeq(P.data, arg.addr \div 4 + 1, arg.addr \div 4 + arg.size)
                             \o Zeroes(arg.arraysize - arg.size)),
          given |-> (i :> [loc |-> Top(acc.s), dims |-> <<arg.arraysize>>]) @@ acc.given]
    ELSE [s |-> Alloc(acc.s, <<arg.value>>), given |-> (i :> [loc |-> Top(acc.s), dims |-> << >>]) @@ acc.given]
Arguments(P, s, f, actual) ==
    LET present == {a \in ToSet(actual) : a[2] # <<"_">>}
        named == {a[1] : a \in present}
        total == Len(P.func[f].args)
        positions == {i \in 0 .. total - 1 : Param(P, f, i).ident # "iVARARGS"} \cup named
        At(acc, i) ==
            IF Halted(acc.s) THEN acc
            ELSE IF i \in named THEN Passes(P, acc, f, i, (CHOOSE a \in present : a[1] = i)[2])
            ELSE IF Param(P, f, i).default = "sizeof" THEN acc ELSE Default(P, acc, f, i)
        all == FoldLeft(At, [s |-> s, given |-> << >>], SetToSortSeq(positions, LAMBDA i, j : i > j))
        SizeOf(acc, i) ==
            LET of == acc.given[Param(P, f, i).value].dims
                n == IF of = << >> THEN 1 ELSE of[1]
            IN  [s |-> Alloc(acc.s, <<n>>), given |-> (i :> [loc |-> Top(acc.s), dims |-> << >>]) @@ acc.given]
        missing == {i \in positions : i \notin DOMAIN all.given}
    IN  IF Halted(all.s) THEN all ELSE FoldLeft(SizeOf, all, SetToSeq(missing))
Count(given) == Cardinality(DOMAIN given)
CallNative(s, f, given) ==
    LET args == [k \in 1 .. Count(given) |-> s.store[given[k - 1].loc]]
        v == Len(s.calls) * 3 + f + (IF args = << >> THEN 0 ELSE args[1])
    IN  Val([s EXCEPT !.calls = Append(@, <<f, args>>)], v)
\* The version of a function for the state its automaton is in.
Version(P, s, f) ==
    LET all == {i \in DOMAIN P.funcs : P.funcs[i].id = f}
        mine == {i \in all : s.state \in P.funcs[i].states}
    IN  IF mine # {} THEN CHOOSE i \in mine : TRUE
        ELSE IF \E i \in all : P.funcs[i].states = {} THEN CHOOSE i \in all : P.funcs[i].states = {} ELSE 0
Invoke(P, s, f, given) ==
    LET version == Version(P, s, f)
        def == P.funcs[version]
        ret == P.func[f].ret
        entered == [s EXCEPT !.env = [n \in {def.params[i] : i \in DOMAIN def.params} |->
                        given[(CHOOSE i \in DOMAIN def.params : def.params[i] = n) - 1]],
                    !.ctl = << >>, !.value = 0, !.dims = << >>]
        ran == Exec(P, entered, def.body)
        back == [ran EXCEPT !.env = s.env, !.ctl = s.ctl, !.value = s.value, !.dims = s.dims]
    IN  IF Halted(s) THEN Val(s, 0)
        ELSE IF version = 0 THEN Val(Halt(s, "halt"), 0)
        ELSE IF Halted(ran) THEN Val(ran, 0)
        ELSE IF ret = 0 THEN Val(back, ran.value)
        ELSE [s |-> Alloc(back, [k \in 1 .. ret |-> ran.store[ran.value + k - 1]]),
              v |-> Top(back), dims |-> <<ret>>]

\* The value of an expression; an array is where it starts.
Chain(P, s, ops, es) ==
    LET Link(acc, i) == IF Halted(acc.s) THEN acc
            ELSE LET r == Eval(P, acc.s, es[i + 1])
                 IN  [s |-> r.s, last |-> r.v, all |-> acc.all * Compute(ops[i], acc.last, r.v)]
        left == Eval(P, s, es[1])
        all == FoldLeft(Link, [s |-> left.s, last |-> left.v, all |-> 1], [i \in DOMAIN ops |-> i])
    IN  Val(all.s, all.all)
\* Until an operand settles the result.
Terms(P, s, es, stop) ==
    LET Term(acc, e) == IF acc.v = stop \/ Halted(acc.s) THEN acc
            ELSE LET r == Eval(P, acc.s, e) IN Val(r.s, B(r.v # 0))
    IN  FoldLeft(Term, Val(s, 1 - stop), es)
Copy(s, from, to, n) == [s EXCEPT !.store = [k \in DOMAIN @ |->
    IF k >= to /\ k < to + n THEN @[from + (k - to)] ELSE @[k]]]
Assign(P, s, op, a, b) ==
    LET isarray == IF a[1] = "var" THEN Lookup(s, a[2]).dims # << >> ELSE FALSE
        p == Place(P, s, a)
        was == Get(p)
        r == Eval(P, p.s, b)
        v == IF op = "none" THEN r.v ELSE Compute(op, was, r.v)
        failed == op # "none" /\ Divides(op) /\ r.v = 0
        to == Lookup(s, a[2])
    IN  IF Halted(p.s) THEN Val(p.s, 0)
        ELSE IF Halted(r.s) THEN Val(r.s, 0)
        ELSE IF isarray THEN Val(Copy(r.s, r.v, to.loc, Size(to.dims)), 0)
        ELSE IF failed THEN Val(Halt(r.s, "AMX_ERR_DIVIDE"), 0)
        ELSE Val(Set(p, r.s, v), v)
Change(P, s, e, by, old) ==
    LET p == Place(P, s, e)
    IN  IF Halted(p.s) THEN Val(p.s, 0)
        ELSE LET s2 == Set(p, p.s, Get(p) + by) IN Val(s2, IF old THEN Get(p) ELSE Get([p EXCEPT !.s = s2]))
By(op) == IF op = "inc" THEN 1 ELSE -1
Eval(P, s, e) ==
    IF Halted(s) THEN Val(s, 0) ELSE
    CASE e[1] = "num" -> Val(s, e[2])
      [] e[1] = "var" -> LET x == Lookup(s, e[2]) IN
            IF x.dims = << >> THEN Val(s, s.store[x.loc]) ELSE [s |-> s, v |-> x.loc, dims |-> x.dims]
      [] e[1] \in {"[]", "{}"} ->
            LET base == Eval(P, s, e[2])  p == Place(P, s, e)  i == Eval(P, base.s, e[3])
            IN  IF Halted(p.s) THEN Val(p.s, 0)
                ELSE IF Len(base.dims) > 1
                THEN [s |-> p.s, v |-> base.v + i.v * Size(Tail(base.dims)), dims |-> Tail(base.dims)]
                ELSE Val(p.s, Get(p))
      [] e[1] = "call" ->
            LET given == Arguments(P, s, e[2], e[3]) IN
            IF Halted(given.s) THEN Val(given.s, 0)
            ELSE IF P.func[e[2]].native THEN CallNative(given.s, e[2], given.given)
            ELSE Invoke(P, given.s, e[2], given.given)
      [] e[1] = "un" -> LET r == Eval(P, s, e[3]) IN
            Val(r.s, CASE e[2] = "~" -> -1 - r.v [] e[2] = "!" -> B(r.v = 0) [] e[2] = "-" -> -r.v)
      [] e[1] = "pre" -> Change(P, s, e[3], By(e[2]), FALSE)
      [] e[1] = "post" -> Change(P, s, e[3], By(e[2]), TRUE)
      [] e[1] = "bin" ->
            LET a == Eval(P, s, e[3])  b == Eval(P, a.s, e[4])
            IN  IF Halted(b.s) THEN Val(b.s, 0)
                ELSE IF Divides(e[2]) /\ b.v = 0 THEN Val(Halt(b.s, "AMX_ERR_DIVIDE"), 0)
                ELSE Val(b.s, Compute(e[2], a.v, b.v))
      [] e[1] = "rel" -> Chain(P, s, e[2], e[3])
      [] e[1] = "&&" -> Terms(P, s, e[2], 0)
      [] e[1] = "||" -> Terms(P, s, e[2], 1)
      [] e[1] = "?:" -> LET c == Eval(P, s, e[2]) IN Eval(P, c.s, IF c.v # 0 THEN e[3] ELSE e[4])
      [] e[1] = "," -> FoldLeft(LAMBDA r, x : Eval(P, r.s, x), Val(s, 0), e[2])
      [] e[1] = "=" -> Assign(P, s, e[2], e[3], e[4])

-----------------------------------------------------------------------------
\* Statements.
List(P, s, es) == FoldLeft(LAMBDA r, e : Eval(P, r.s, e), Val(s, 0), es)
Goes(s) == s.ctl = << >> /\ ~Halted(s)
Scoped(s, before) == [s EXCEPT !.env = before.env]
Declare(P, s, name, dims, init) ==
    IF dims = << >>
    THEN LET r == IF init = << >> THEN Val(s, 0) ELSE Eval(P, s, init[1])
         IN  Bind(Alloc(r.s, <<r.v>>), name, Top(r.s), << >>)
    ELSE Bind(Alloc(s, init \o Zeroes(Size(dims) - Len(init))), name, Top(s), dims)
\* A list of statements; a goto goes on at its label, if it is here.
RECURSIVE Sequence(_, _, _, _, _), Loop(_, _, _, _, _, _)
Sequence(P, s, stmts, i, fuel) ==
    LET here == {k \in DOMAIN stmts : stmts[k][1] = "label" /\ s.ctl = <<"goto", stmts[k][2]>>}
    IN  IF fuel = 0 THEN Halt(s, "fuel")
        ELSE IF here # {} /\ ~Halted(s)
        THEN Sequence(P, [s EXCEPT !.ctl = << >>], stmts, (CHOOSE k \in here : TRUE) + 1, fuel - 1)
        ELSE IF i > Len(stmts) \/ ~Goes(s) THEN s
        ELSE Sequence(P, Exec(P, s, stmts[i]), stmts, i + 1, fuel)
\* A loop: is the condition tested before, and what follows the body.
Loop(P, s, es, body, es3, fuel) ==
    LET c == IF es = << >> THEN Val(s, 1) ELSE List(P, s, es)
        ran == Exec(P, c.s, body)
        next == IF ran.ctl = <<"continue">> THEN [ran EXCEPT !.ctl = << >>] ELSE ran
    IN  IF fuel = 0 THEN Halt(s, "fuel")
        ELSE IF Halted(c.s) \/ c.v = 0 THEN c.s
        ELSE IF ~Goes(next) THEN (IF next.ctl = <<"break">> THEN [next EXCEPT !.ctl = << >>] ELSE next)
        ELSE Loop(P, List(P, next, es3).s, es, body, es3, fuel - 1)
Exec(P, s, t) ==
    IF ~Goes(s) THEN s ELSE
    CASE t[1] = "block" -> Scoped(Sequence(P, s, t[2], 1, Fuel), s)
      [] t[1] \in {"new", "static"} -> Declare(P, s, t[2], t[3], t[4])
      [] t[1] = "expr" -> List(P, s, t[2]).s
      [] t[1] = "if" -> LET c == List(P, s, t[2]) IN IF c.v # 0 THEN Exec(P, c.s, t[3]) ELSE c.s
      [] t[1] = "else" -> LET c == List(P, s, t[2]) IN Exec(P, c.s, IF c.v # 0 THEN t[3] ELSE t[4])
      [] t[1] = "while" -> Loop(P, s, t[2], t[3], << >>, Fuel)
      [] t[1] = "do" ->
            LET once == Exec(P, s, t[2])
                next == IF once.ctl = <<"continue">> THEN [once EXCEPT !.ctl = << >>] ELSE once
            IN  IF next.ctl = <<"break">> THEN [next EXCEPT !.ctl = << >>]
                ELSE IF ~Goes(next) THEN next ELSE Loop(P, next, t[3], t[2], << >>, Fuel)
      [] t[1] = "for" ->
            Scoped(Loop(P, IF t[2] = << >> THEN s ELSE Exec(P, s, t[2][1]), t[3], t[5], t[4], Fuel), s)
      [] t[1] = "switch" ->
            LET v == List(P, s, t[2])
                mine == {i \in DOMAIN t[3] : v.v \in t[3][i][1]}
            IN  IF mine # {} THEN Exec(P, v.s, t[3][CHOOSE i \in mine : TRUE][2])
                ELSE IF t[4] # << >> THEN Exec(P, v.s, t[4][1]) ELSE v.s
      [] t[1] = "return" ->
            LET r == List(P, s, t[2]) IN IF Halted(r.s) THEN r.s
                ELSE [r.s EXCEPT !.ctl = <<"return">>, !.value = r.v, !.dims = r.dims]
      [] t[1] \in {"break", "continue"} -> [s EXCEPT !.ctl = <<t[1]>>]
      [] t[1] = "goto" -> [s EXCEPT !.ctl = t]
      [] t[1] = "label" -> s
      [] t[1] = "exit" -> Halt(List(P, s, t[2]).s, "halt")
      [] t[1] = "assert" ->
            LET c == List(P, s, t[2]) IN IF c.v # 0 THEN c.s ELSE Halt(c.s, "halt")
      [] t[1] = "state" ->
            LET c == IF t[2] = << >> THEN Val(s, 1) ELSE List(P, s, t[2])
                to == [c.s EXCEPT !.state = t[3]]
            IN  IF Halted(c.s) \/ c.v = 0 THEN c.s
                ELSE IF t[5] = 0 THEN to ELSE Invoke(P, to, P.funcs[CHOOSE i \in DOMAIN P.funcs : P.funcs[i].label = t[5]].id, << >>).s

\* The program: its globals, then its main function with these parameters.
Initial(g) == IF g[2] = << >> THEN [k \in DOMAIN g[3] |-> <<"num", g[3][k]>>] ELSE g[3]
Globals(P) == FoldLeft(LAMBDA s, g : Declare(P, s, g[1], g[2], Initial(g)),
    [store |-> << >>, env |-> << >>, glob |-> << >>, calls |-> << >>, halt |-> "", ctl |-> << >>,
     value |-> 0, dims |-> << >>, state |-> 0], P.globals)
Meaning(P, params) ==
    LET start == [Globals(P) EXCEPT !.glob = Globals(P).env, !.env = << >>]
        given == [i \in 0 .. Len(params) - 1 |-> [loc |-> Top(start) + i, dims |-> << >>]]
    IN  Invoke(P, Alloc(start, params), P.main, given)
=============================================================================
