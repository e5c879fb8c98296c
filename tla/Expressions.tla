----------------------------- MODULE Expressions -----------------------------
(***************************************************************************)
(* The expression compiler (sc3.c).  The source is a tree: what the lexer  *)
(* and the precedence levels make of the text; each kind of node is        *)
(* compiled by the level that parses it:                                   *)
(*   <<"num", n>>              constant          <<"var", name>>  primary  *)
(*   <<"[]", base, e>>, <<"{}", base, e>>        hier1                     *)
(*   <<"call", f, args>>       callfunction; args are <<position, e>>      *)
(*   <<"un", op, e>>, <<"pre", op, e>>, <<"post", op, e>>  hier2           *)
(*   <<"bin", op, a, b>>       plnge             <<"rel", ops, es>>        *)
(*   <<"&&", es>>, <<"||", es>>  skim            <<"?:", c, a, b>>  hier13 *)
(*   <<"=", op, a, b>>         hier14            <<",", es>>  primary      *)
(* Programs are correct: error messages, tags and user operators are left  *)
(* out.  A result is the state of the compiler and a value: its ident, its *)
(* symbol, its constant and whether it is an lvalue.                       *)
(***************************************************************************)
EXTENDS CodeGen, TLC

\* Symbols, as findloc and findglb return them.
FindSymbol(st, name) ==
    LET locals == {i \in DOMAIN st.loc : st.loc[i].name = name}
    IN  IF locals # {} THEN st.loc[CHOOSE i \in locals : \A j \in locals : j <= i]
        ELSE st.glb[CHOOSE i \in DOMAIN st.glb : st.glb[i].name = name]
NoSymbol == [name |-> "", ident |-> "", local |-> FALSE, addr |-> 0, dims |-> << >>]
IsArray(sym) == sym.ident \in {"iARRAY", "iREFARRAY"}
level(sym) == Len(sym.dims) - 1
finddepend(sym) == [sym EXCEPT !.dims = Tail(@)]
\* With the vector of offsets that an array of arrays starts with.
array_totalsize(sym) ==
    LET Size[d \in 1 .. Len(sym.dims)] ==
            IF d = Len(sym.dims) THEN sym.dims[d] ELSE sym.dims[d] * (1 + Size[d + 1])
    IN  Size[1]

Value(ident, sym, constval, lvalue) ==
    [ident |-> ident, sym |-> sym, constval |-> constval, boolresult |-> FALSE, lvalue |-> lvalue]
Expression == Value("iEXPRESSION", NoSymbol, 0, FALSE)
Result(st, lval) == [st |-> st, lval |-> lval]
IsConst(r) == r.lval.ident = "iCONSTEXPR"
\* PRI holds the value: an lvalue is loaded, a constant is.
Loaded(r) == IF r.lval.lvalue THEN rvalue(r.st, r.lval) ELSE r.st
LoadedConst(r) ==
    IF r.lval.lvalue THEN rvalue(r.st, r.lval)
    ELSE IF IsConst(r) THEN ldconst(r.st, r.lval.constval, ".pri") ELSE r.st

\* Mutant: subtraction too.
commutativeSub(op) == op \in {"ob_add", "os_mult", "ob_eq", "ob_ne", "ob_and", "ob_xor", "ob_or", "ob_sub"}

commutative(op) == op \in {"ob_add", "os_mult", "ob_eq", "ob_ne", "ob_and", "ob_xor", "ob_or"}
flooreddiv(a, b) == IF b > 0 THEN a \div b ELSE (-a) \div (-b)
Truth(p) == IF p THEN 1 ELSE 0
\* Constants are computed here; the bitwise operators are left to the machine.
calc(left, op, right) ==
    CASE op = "ob_eq" -> Truth(left = right)
      [] op = "ob_ne" -> Truth(left # right)
      [] op = "ob_add" -> left + right
      [] op = "ob_sub" -> left - right
      [] op = "os_mult" -> left * right
      [] op = "ob_sal" -> left * 2 ^ right
      [] op = "os_sar" -> left \div 2 ^ right
      [] op = "os_div" -> flooreddiv(left, right)
      [] op = "os_mod" -> left - right * flooreddiv(left, right)
related(left, op, right) ==
    CASE op = "os_le" -> left <= right [] op = "os_ge" -> left >= right
      [] op = "os_lt" -> left < right [] op = "os_gt" -> left > right

RECURSIVE Hier(_, _)

\* A constant is not loaded yet: the operator may want it in ALT.
plnge1(st, e) ==
    LET Unloaded(r) == IF IsConst(r) THEN Result(stgdel(r.st, stgget(st)), r.lval) ELSE r
    IN  Unloaded(Hier(st, e))

\* The right operand and the operator, the left operand being in PRI unless
\* it is a constant.  The operands are lval1 and lval2 of the result.
Operands(const1, swapped, mark, lval1, r) ==
    IF const1 THEN ldconst(LoadedConst(r), lval1.constval, ".alt")
    ELSE IF swapped THEN ldconst(stgdel(r.st, mark), r.lval.constval, ".alt")
    ELSE popreg(LoadedConst(r), ".alt")
Operated(op, mark, lval1, r) ==
    LET const1 == lval1.ident = "iCONSTEXPR"
        const2 == IsConst(r)
        swapped == ~const1 /\ const2 /\ commutative(op)
    IN  IF op = "none" THEN [st |-> Operands(const1, swapped, mark, lval1, r), lval1 |-> lval1, lval2 |-> r.lval]
        ELSE IF const1 /\ const2
        THEN [st |-> stgdel(Operands(const1, swapped, mark, lval1, r), mark),
              lval1 |-> IF op \in DOMAIN Relations
                        THEN [lval1 EXCEPT !.constval = r.lval.constval,
                                           !.boolresult = @ /\ related(lval1.constval, op, r.lval.constval)]
                        ELSE [lval1 EXCEPT !.constval = calc(lval1.constval, op, r.lval.constval)],
              lval2 |-> r.lval]
        ELSE [st |-> oper(Operands(const1, swapped, mark, lval1, r), op),
              lval1 |-> [(IF swapped THEN r.lval ELSE lval1) EXCEPT !.ident = "iEXPRESSION"],
              lval2 |-> IF swapped THEN lval1 ELSE r.lval]
plnge2(st, op, lval1, e) ==
    Operated(op, stgget(st), lval1,
             plnge1(IF lval1.ident = "iCONSTEXPR" THEN st ELSE pushreg(st, ".pri"), e))

\* The result of an operator is not an lvalue.
Computed(both) == Result(both.st, [both.lval1 EXCEPT !.lvalue = FALSE])
plnge(st, op, a, b) ==
    LET Right(left) == plnge2(Loaded(left), op, left.lval, b) IN Computed(Right(plnge1(st, a)))

\* A chain of relations: each operand but the outer ones belongs to two.
plnge_rel(st, ops, es) ==
    LET Left(r) == [st |-> Loaded(r), lval1 |-> [r.lval EXCEPT !.boolresult = TRUE], lval2 |-> Expression]
        chained(acc, i) ==
            IF i = 1 THEN acc
            ELSE [acc EXCEPT !.st = relop_prefix(@), !.lval1 = [acc.lval2 EXCEPT !.boolresult = acc.lval1.boolresult]]
        ended(both, i) == IF i = 1 THEN both ELSE [both EXCEPT !.st = relop_suffix(@)]
        Link(acc, i) == ended(plnge2(acc.st, ops[i], acc.lval1, es[i + 1]), i)
        Settled(all) == [all EXCEPT !.lval1.constval = Truth(all.lval1.boolresult)]
    IN  Computed(Settled(FoldLeft(LAMBDA acc, i : Link(chained(acc, i), i),
                                  Left(plnge1(st, es[1])), [i \in DOMAIN ops |-> i])))

\* "||" and "&&": the first operand that settles the result jumps out.
dropout(r, jump, exit1) ==
    IF jump = "jnz" THEN jmp_ne0(LoadedConst(r), exit1) ELSE jmp_eq0(LoadedConst(r), exit1)
skim(st, jump, dropval, endval, es) ==
    LET Tested(acc, r) ==
            LET const == acc.allconst /\ IsConst(r)
                hits == acc.n > 0
                both == IF jump = "jnz" THEN acc.constval # 0 \/ r.lval.constval # 0
                        ELSE acc.constval # 0 /\ r.lval.constval # 0
                droplab == IF hits THEN acc.droplab ELSE r.st.labnum + 1
            IN  [st |-> dropout(IF hits THEN r ELSE [r EXCEPT !.st = getlabel(@)], jump, droplab),
                 allconst |-> const, n |-> acc.n + 1, droplab |-> droplab,
                 constval |-> IF ~const THEN acc.constval
                              ELSE IF hits THEN Truth(both) ELSE r.lval.constval]
        Term(acc, e) == Tested(acc, plnge1(acc.st, e))
        Dropped(s, droplab, endlab) ==
            setlabel(ldconst(setlabel(jumplabel(s, endlab), droplab), dropval, ".pri"), endlab)
        Ended(all) ==
            LET code == Dropped(getlabel(ldconst(all.st, endval, ".pri")), all.droplab, all.st.labnum + 1)
            IN  IF all.allconst
                THEN Result(stgdel(code, stgget(st)), Value("iCONSTEXPR", NoSymbol, all.constval, FALSE))
                ELSE Result(code, Expression)
    IN  Ended(FoldLeft(Term, [st |-> st, allconst |-> TRUE, n |-> 0, droplab |-> 0, constval |-> 0], es))

\* What an array that a call returns takes of the heap, in either branch of a
\* conditional: the first pass counts, the last makes both branches take as
\* much.  st.decl_heap is what the current expression has taken so far.
push_heaplist(st, first, second) == [st EXCEPT !.heaplist = Append(@, <<first, second>>)]
popfront_heaplist(st) == [st EXCEPT !.heaplist = Tail(@)]
allocated(st, cells) == [modheap(st, cells * CELLSIZE) EXCEPT !.decl_heap = @ + cells]
heaps(st) == IF st.heaplist = << >> THEN <<0, 0>> ELSE Head(st.heaplist)
popped(st) == IF st.status # "statFIRST" /\ st.heaplist # << >> THEN popfront_heaplist(st) ELSE st
hier13(st, c, a, b) ==
    LET Branch(s, cells, e) == plnge1(IF st.status = "statWRITE" THEN allocated(s, cells) ELSE s, e)
        Tested(r) == [st |-> LoadedConst([r EXCEPT !.st = getlabel(getlabel(@))]),
                      flab1 |-> r.st.labnum + 1, locheap |-> r.st.decl_heap]
        Yes(t) ==
            LET r == Branch(jmp_eq0(popped(t.st), t.flab1), heaps(t.st)[1], a)
            IN  [t EXCEPT !.st = LoadedConst(r)] @@ [lval |-> r.lval, cells |-> heaps(t.st)[2]]
        No(y) ==
            LET between == setlabel(jumplabel([y.st EXCEPT !.decl_heap = y.locheap], y.flab1 + 1), y.flab1)
            IN  [y EXCEPT !.st = setlabel(LoadedConst(Branch(between, y.cells, b)), y.flab1 + 1)]
                @@ [heap1 |-> y.st.decl_heap - y.locheap]
        Recorded(s, heap1, heap2) ==
            LET most == IF heap1 > heap2 THEN heap1 ELSE heap2
            IN  IF st.status = "statFIRST" THEN push_heaplist(s, most - heap1, most - heap2)
                ELSE [s EXCEPT !.unequal = @ \/ (st.status = "statWRITE" /\ heap1 # heap2)]
        Joined(n) ==
            Result(Recorded(n.st, n.heap1, n.st.decl_heap - n.locheap),
                   [n.lval EXCEPT !.ident = IF @ \in {"iARRAY", "iREFARRAY"} THEN "iREFARRAY" ELSE "iEXPRESSION",
                                  !.lvalue = FALSE])
    IN  Joined(No(Yes(Tested(plnge1(st, c)))))

hier14(st, e) ==
    LET Kept(r) == IF IsConst(r) THEN Result(ldconst(r.st, r.lval.constval, ".pri"), r.lval) ELSE r
    IN  Kept(plnge1(st, e))
\* Assignment, simple or with an operator, to a cell, a character or an array.
assign(st, op, a, b) ==
    LET indirect(lval) == lval.ident \in {"iARRAYCELL", "iARRAYCHAR", "iARRAY", "iREFARRAY"}
        Fetched(left) ==
            IF op = "none" THEN left.st
            ELSE rvalue(IF indirect(left.lval) THEN pushreg(left.st, ".pri") ELSE left.st, left.lval)
        cells(sym, value) == IF level(sym) > 0 THEN array_totalsize(sym) ELSE value.sym.dims[1]
        Stored(s, lval3, value) ==
            Result(IF IsArray(lval3) THEN memcopy(s, cells(lval3.sym, value) * CELLSIZE) ELSE store(s, lval3),
                   [lval3 EXCEPT !.ident = "iEXPRESSION", !.lvalue = FALSE])
        Both(left, both) ==
            Stored(IF indirect(left.lval) /\ op # "none" THEN popreg(both.st, ".alt") ELSE both.st,
                   left.lval, both.lval2)
        Right(left) ==
            IF op = "none" /\ ~indirect(left.lval)
            THEN Stored(Loaded(hier14(left.st, b)), left.lval, left.lval)
            ELSE Both(left, plnge2(Fetched(left), op, left.lval, b))
    IN  Right(plnge1(st, a))

unary(st, op, e) ==
    LET Applied(v) == CASE op = "~" -> invert(v) [] op = "!" -> lneg(v) [] op = "-" -> neg(v)
        Negated(c) == CASE op = "~" -> -1 - c [] op = "!" -> Truth(c = 0) [] op = "-" -> -c
        Unary(r) ==
            Result(Applied(Loaded(r)),
                   [r.lval EXCEPT !.ident = IF @ \in {"iVARIABLE", "iARRAYCELL"} THEN "iEXPRESSION" ELSE @,
                                  !.lvalue = FALSE, !.constval = Negated(@)])
    IN  Unary(Hier(st, e))
prefix(st, op, e) ==
    LET Stepped(r) == Result(rvalue(step(r.st, r.lval, op), r.lval), [r.lval EXCEPT !.lvalue = FALSE])
    IN  Stepped(Hier(st, e))
postfix(st, op, e) ==
    LET saveresult(lval) == lval.ident \in {"iARRAYCELL", "iARRAYCHAR"}
        Read(r) == IF saveresult(r.lval) THEN swap1(rvalue(pushreg(r.st, ".pri"), r.lval)) ELSE rvalue(r.st, r.lval)
        Restored(s, lval) == IF saveresult(lval) THEN popreg(s, ".pri") ELSE s
        Stepped(r) == Result(Restored(step(Read(r), r.lval, op), r.lval), [r.lval EXCEPT !.lvalue = FALSE])
    IN  Stepped(Hier(st, e))

\* An index: constant ones are added, others are checked against the length.
Indexing(b, mark, i, kind) ==
    LET limit == b.sym.dims[1] * (IF kind = "[]" THEN 1 ELSE CELLSIZE \div CHARBYTES)
        offset == i.lval.constval * (IF kind = "[]" THEN CELLSIZE ELSE 1)
        Fixed(s) == IF offset # 0 THEN oper(ldconst(s, offset, ".alt"), "ob_add") ELSE s
        Checked(s) == IF limit # 0 THEN ffbounds(s, limit - 1) ELSE s
        Scaled(s) == IF kind = "[]" THEN cell2addr(s) ELSE s
        added == IF IsConst(i) THEN Fixed(stgdel(i.st, mark))
                 ELSE oper(popreg(Scaled(Checked(Loaded(i))), ".alt"), "ob_add")
    IN  IF kind = "[]" THEN added ELSE charalign(added)
subscript(st, base, e, kind) ==
    LET Cell(at, sym, cell) ==
            IF level(sym) > 0
            THEN Result(oper(popreg(rvalue(pushreg(at, ".pri"), cell), ".alt"), "ob_add"),
                        Value("iREFARRAY", finddepend(sym), 0, FALSE))
            ELSE Result(at, [cell EXCEPT !.ident = IF kind = "[]" THEN "iARRAYCELL" ELSE "iARRAYCHAR"])
        Based(b) ==
            Cell(Indexing(b.lval, stgget(b.st), hier14(pushreg(b.st, ".pri"), e), kind),
                     b.lval.sym, Value("iARRAYCELL", b.lval.sym, 0, TRUE))
    IN  Based(Hier(st, base))

primary(st, name) ==
    LET Symbol(sym) ==
            IF IsArray(sym) THEN Result(address(st, sym, ".pri"), Value(sym.ident, sym, 0, FALSE))
            ELSE Result(st, Value(sym.ident, sym, 0, TRUE))
    IN  Symbol(FindSymbol(st, name))
constant(st, n) == Result(ldconst(st, n, ".pri"), Value("iCONSTEXPR", NoSymbol, n, FALSE))
\* All but the last are computed and forgotten.
comma(st, es) == FoldLeft(LAMBDA r, e : hier14(r.st, e), Result(st, Expression), es)

-----------------------------------------------------------------------------
\* Calls.  A function has an id, the idents of its arguments with their
\* default values, and the size of the array it returns, 0 if none.

\* A value passed by reference: where it is, or a copy of it on the heap.
OnHeap(st) == [st |-> setheap_pri(st), cells |-> 1]
InPlace(st) == [st |-> st, cells |-> 0]
passed(arg, r) ==
    LET lv == r.lval  named == lv.ident \in {"iVARIABLE", "iREFERENCE"} IN
    CASE arg.ident = "iVARIABLE" -> InPlace(Loaded(r))
      [] arg.ident = "iREFARRAY" -> InPlace(r.st)
      [] named -> IF lv.lvalue THEN InPlace(address(r.st, lv.sym, ".pri")) ELSE OnHeap(r.st)
      [] arg.ident = "iVARARGS" /\ lv.ident = "iARRAYCHAR" -> OnHeap(rvalue(r.st, lv))
      [] arg.ident = "iVARARGS" /\ lv.ident \in {"iCONSTEXPR", "iEXPRESSION"} -> OnHeap(r.st)
      [] OTHER -> InPlace(r.st)
pusharg(st) == markexpr(pushreg(st, ".pri"), "sPARM")

\* The default value of an array is copied to the heap if the function may
\* change it.
setdefarray(st, arg) ==
    IF arg.const THEN ldconst(st, arg.addr, ".pri")
    ELSE moveto1(memcopy(modheap(ldconst(st, arg.addr, ".pri"), arg.arraysize * CELLSIZE),
                         arg.size * CELLSIZE))
default(st, arg) ==
    CASE arg.ident = "iREFARRAY" ->
            [st |-> setdefarray(st, arg), cells |-> IF arg.const THEN 0 ELSE arg.arraysize]
      [] arg.ident = "iREFERENCE" -> [st |-> setheap(st, arg.value), cells |-> 1]
      [] OTHER -> [st |-> ldconst(st, arg.value, ".pri"), cells |-> 0]

\* Argument i of a function, which may have a variable number of them.
formal(func, i) == IF i < Len(func.args) THEN func.args[i + 1] ELSE func.args[Len(func.args)]
fixedargs(func) ==
    SetToSortSeq({i \in 0 .. Len(func.args) - 1 : func.args[i + 1].ident # "iVARARGS"}, <)
skipped(a) == a[2] = <<"_">>
\* What is known of the arguments so far: the cells they take of the heap,
\* their number, those that are pushed, and the sizes of the arrays.  First
\* those that are given, ...
givenargs(st, func, actual) ==
    LET Pushed(acc, pos, put, r) ==
            [st |-> pusharg(put.st), heap |-> acc.heap + put.cells, nargs |-> acc.nargs + 1,
             done |-> acc.done \cup {pos},
             sizes |-> acc.sizes @@ (pos :> IF IsArray(r.lval) /\ r.lval.sym # NoSymbol
                                            THEN r.lval.sym.dims[1] ELSE 0)]
        Valued(acc, pos, r) == Pushed(acc, pos, passed(formal(func, pos), r), r)
        Given(acc, a) ==
            IF skipped(a) THEN [acc EXCEPT !.st = stgmark(@, sEXPRSTART(a[1])), !.nargs = @ + 1]
            ELSE Valued(acc, a[1], hier14(stgmark(acc.st, sEXPRSTART(a[1])), a[2]))
    IN  FoldLeft(Given, [st |-> st, heap |-> 0, nargs |-> 0, done |-> {}, sizes |-> << >>], actual)
\* ... then those with a default value, and last the sizes of the others.
defaultargs(given, func, ignored) ==
    LET counted(i) == IF i \in ignored THEN 0 ELSE 1
        Pushed(acc, i, arg, put) ==
            [st |-> pusharg(put.st), heap |-> acc.heap + put.cells, nargs |-> acc.nargs + counted(i),
             done |-> acc.done \cup {i},
             sizes |-> acc.sizes @@ (i :> IF arg.ident = "iREFARRAY" THEN arg.arraysize ELSE 0)]
        Missing(acc, i) ==
            IF i \in acc.done \/ formal(func, i).default = "sizeof" THEN acc
            ELSE Pushed(acc, i, formal(func, i), default(stgmark(acc.st, sEXPRSTART(i)), formal(func, i)))
        sizeof(acc, other) == IF other \in DOMAIN acc.sizes /\ acc.sizes[other] # 0 THEN acc.sizes[other] ELSE 1
        SizeOfOther(acc, i) ==
            IF i \in acc.done THEN acc
            ELSE [acc EXCEPT !.st = pusharg(ldconst(stgmark(@, sEXPRSTART(i)),
                                                    sizeof(acc, formal(func, i).value), ".pri")),
                             !.done = @ \cup {i}, !.nargs = @ + counted(i)]
    IN  FoldLeft(SizeOfOther, FoldLeft(Missing, given, fixedargs(func)), fixedargs(func))
markusage(st, f) == IF st.status = "statSKIP" THEN st ELSE [st EXCEPT !.read = @ \cup {f}]
\* The array it returns is on the heap, its address a hidden argument; what
\* the arguments took of the heap is given back.
callfunction(st, f, actual) ==
    LET func == st.func[f]
        ignored == {a[1] : a \in {actual[i] : i \in {j \in DOMAIN actual : skipped(actual[j])}}}
        hidden == IF func.ret = 0 THEN st
                  ELSE [pushreg(modheap(st, func.ret * CELLSIZE), ".alt") EXCEPT !.decl_heap = @ + func.ret]
        Called(all) ==
            modheap(markusage(ffcall(pushval(stgmark(all.st, sENDREORDER), all.nargs * CELLSIZE), func, all.nargs), f),
                    -all.heap * CELLSIZE)
        Returned(s) == IF func.ret = 0 THEN s ELSE popreg(s, ".pri")
        Scrapped(s, locheap) == [modheap(s, (locheap - s.decl_heap) * CELLSIZE) EXCEPT !.decl_heap = locheap]
    IN  Result(Scrapped(Returned(Called(
                        defaultargs(givenargs(stgmark(hidden, sSTARTREORDER), func, actual), func, ignored))), hidden.decl_heap),
               IF func.ret = 0 THEN Expression
               ELSE Value("iREFARRAY", [NoSymbol EXCEPT !.ident = "iREFARRAY", !.dims = <<func.ret>>], 0, FALSE))

\* The level of each kind of node.
Hier(st, e) ==
    CASE e[1] = "num" -> constant(st, e[2])
      [] e[1] = "var" -> primary(st, e[2])
      [] e[1] \in {"[]", "{}"} -> subscript(st, e[2], e[3], e[1])
      [] e[1] = "call" -> callfunction(st, e[2], e[3])
      [] e[1] = "un" -> unary(st, e[2], e[3])
      [] e[1] = "pre" -> prefix(st, e[2], e[3])
      [] e[1] = "post" -> postfix(st, e[2], e[3])
      [] e[1] = "bin" -> plnge(st, e[2], e[3], e[4])
      [] e[1] = "rel" -> plnge_rel(st, e[2], e[3])
      [] e[1] = "&&" -> skim(st, "jzer", 0, 1, e[2])
      [] e[1] = "||" -> skim(st, "jnz", 1, 0, e[2])
      [] e[1] = "?:" -> hier13(st, e[2], e[3], e[4])
      [] e[1] = "," -> comma(st, e[2])
      [] e[1] = "=" -> assign(st, e[2], e[3], e[4])

\* Mutant: the array that a call returned stays on the heap.
expressionKeeps(st, e) ==
    LET Whole(r) == Result([Loaded(r) EXCEPT !.decl_heap = st.decl_heap], r.lval) IN Whole(hier14(st, e))

\* A whole expression: what it took of the heap is given back.
expression(st, e) ==
    LET Scrapped(s) == [modheap(s, (st.decl_heap - s.decl_heap) * CELLSIZE) EXCEPT !.decl_heap = st.decl_heap]
        Whole(r) == Result(Scrapped(Loaded(r)), r.lval)
    IN  Whole(hier14(st, e))
=============================================================================
