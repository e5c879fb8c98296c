----------------------------- MODULE Statements -----------------------------
(***************************************************************************)
(* Statements and functions (sc1.c).  A statement is a tree:               *)
(*   <<"new", name, dims, init>>, <<"static", name, dims, init>>           *)
(*       dims is << >> for a variable, init is << >> or <<e>>; for an array*)
(*       init is the sequence of its values                                *)
(*   <<"block", stmts>>, <<"expr", es>>, <<"if", es, s>>,                  *)
(*   <<"else", es, s, t>>, <<"while", es, s>>, <<"do", s, es>>,            *)
(*   <<"for", init, es, es3, s>>  init is << >> or <<s>>, es may be << >>  *)
(*   <<"switch", es, cases, default>>  a case is <<values, s>>, default is *)
(*       << >> or <<s>>                                                    *)
(*   <<"return", es>>, <<"break">>, <<"continue">>, <<"goto", l>>,         *)
(*   <<"label", l>>, <<"exit", es>>, <<"assert", es>>                      *)
(*   <<"state", es, value, selector, entry>>   entry is 0 or the version of the entry*)
(* where es is a sequence of expressions separated by commas.              *)
(* The state has besides what Expressions uses                             *)
(*    declared   the cells of the locals in scope                          *)
(*    lastst     the kind of the last statement                            *)
(*    lval       the value of the last expression                          *)
(*    wq         the loops around the statement                            *)
(*    lab        the labels of the function, by name                       *)
(*    data, litq the data segment so far, and the literals after it        *)
(*    curfunc    the function                                              *)
(***************************************************************************)
EXTENDS Expressions

xEXIT == 1
xASSERTION == 2
Release(st, cells) == modstk(st, cells * CELLSIZE)

\* Expressions, conditions and the variable of a "for" are compiled by the
\* statement that holds them; as pieces of it they have no line of their own:
\*   <<"doexpr", es, mark_endexpr>>, <<"test", label, es, inverted>>,
\*   <<"declloc", name, dims, init>>
RECURSIVE statement(_, _)
doexpr(st, es, mark_endexpr) == statement(st, <<"doexpr", es, mark_endexpr>>)
test(st, label, es, inverted) == statement(st, <<"test", label, es, inverted>>)

\* They are compiled in a staging buffer of their own unless there is one
\* already.
Staged(st, s) == stgset(stgflush(statement(stgset(st, TRUE), s)), FALSE)

\* An expression, or a list of them; st.lval is the value of the last.
Separated(st, n) == IF n = 1 THEN st ELSE markexpr(st, "sEXPR")
expressions(st, es, mark_endexpr) ==
    LET Ended(r) == [(IF mark_endexpr THEN markexpr(r.st, "sEXPR") ELSE r.st) EXCEPT !.lval = r.lval]
    IN  Ended(FoldLeft(LAMBDA r, n : expression(Separated(r.st, n), es[n]),
                       Result(st, Expression), [n \in DOMAIN es |-> n]))

\* A condition: a jump to the label if it is false, or true with "invert".
condition(st, label, es, inverted) ==
    LET const(r) == stgdel(r.st, r.mark)
        Tested(r) ==
            IF ~IsConst(r)
            THEN markexpr(IF inverted THEN jmp_ne0(r.st, label) ELSE jmp_eq0(r.st, label), "sEXPR")
            ELSE IF r.lval.constval # 0 THEN const(r) ELSE jumplabel(const(r), label)
    IN  Tested(FoldLeft(LAMBDA r, n : expression(Separated(r.st, n), es[n])
                                      @@ [mark |-> stgget(Separated(r.st, n))],
                        Result(st, Expression), [n \in DOMAIN es |-> n]))

-----------------------------------------------------------------------------
\* Declarations.  The values of an array, after its vector of offsets.
adjust_indirectiontables(dims) ==
    IF Len(dims) = 1 THEN << >>
    ELSE [d \in 1 .. dims[1] |-> (dims[1] + (dims[2] - 1) * (d - 1)) * CELLSIZE]
initials(dims, init) ==
    IF init = << >> THEN adjust_indirectiontables(dims)
    ELSE adjust_indirectiontables(dims) \o init
Zeros(n) == [k \in 1 .. n |-> 0]
\* Without the zeros at the end.
Trimmed(values) ==
    LET used == {k \in DOMAIN values : values[k] # 0}
    IN  IF used = {} THEN << >> ELSE SubSeq(values, 1, CHOOSE k \in used : \A j \in used : j <= k)
addvariable(st, name, ident, local, addr, dims) ==
    [st EXCEPT !.loc = Append(@, [name |-> name, ident |-> ident, local |-> local,
                                  addr |-> addr, dims |-> dims])]
InitArray(st, sym, values, size) ==
    LET lits == Trimmed(values)
        n == Len(lits)
        cleared == IF n < size THEN fillarray(st, sym, size * CELLSIZE, 0) ELSE st
        same == \A k \in 1 .. n : lits[k] = lits[1]
    IN  IF n = 0 THEN cleared
        ELSE IF same THEN fillarray(cleared, sym, n * CELLSIZE, lits[1])
        ELSE [copyarray(ldconst(cleared, (Len(st.litq) + Len(st.data)) * CELLSIZE, ".pri"),
                        sym, n * CELLSIZE) EXCEPT !.litq = @ \o lits]
declloc(st, name, dims, init, fstatic) ==
    LET ident == IF dims = << >> THEN "iVARIABLE" ELSE "iARRAY"
        size == IF dims = << >> THEN 1 ELSE array_totalsize([NoSymbol EXCEPT !.dims = dims])
        values == IF dims = << >> THEN [k \in DOMAIN init |-> init[k][2]] ELSE initials(dims, init)
        addr == -(st.declared + size) * CELLSIZE
        located == [addvariable(st, name, ident, TRUE, addr, dims) EXCEPT !.declared = @ + size]
        Reserved(s) == modstk(marklocal(s, name, addr), -size * CELLSIZE)
        Valued(s) == IF init = << >> THEN ldconst(s, 0, ".pri") ELSE doexpr(s, init, FALSE)
        Stored(s) == markexpr(store(s, Value("iVARIABLE", FindSymbol(s, name), 0, TRUE)), "sEXPR")
    IN  IF fstatic
        THEN [addvariable(st, name, ident, FALSE, (Len(st.litq) + Len(st.data)) * CELLSIZE, dims)
                 EXCEPT !.litq = @ \o (values \o Zeros(size - Len(values)))]
        ELSE IF dims = << >> THEN stgset(stgflush(Stored(Valued(Reserved(stgset(located, TRUE))))), FALSE)
        ELSE InitArray(Reserved(located), FindSymbol(located, name), values, size)

-----------------------------------------------------------------------------
\* The loops: what "break" and "continue" leave on the stack, and where they
\* go.
addwhile(st) ==
    [getlabel(getlabel(st)) EXCEPT !.wq = Append(@, [brk |-> st.declared, cont |-> st.declared,
                                                     loop |-> st.labnum + 1, exit |-> st.labnum + 2])]
delwhile(st) == [st EXCEPT !.wq = Front(@)]
readwhile(st) == Last(st.wq)
dobreak(st) ==
    jumplabel(Release(st, st.declared - readwhile(st).brk), readwhile(st).exit)
docont(st) ==
    jumplabel(Release(st, st.declared - readwhile(st).cont), readwhile(st).loop)

\* Labels are made when they are first named; at its label the stack is set
\* to what the locals in scope take.
fetchlab(st, name) ==
    IF name \in DOMAIN st.lab THEN st
    ELSE [getlabel(st) EXCEPT !.lab = @ @@ (name :> st.labnum + 1)]
dogoto(st, name) == LET At(s) == jumplabel(s, s.lab[name]) IN At(fetchlab(st, name))
dolabel(st, name) ==
    LET At(s) == setstk(setlabel(s, s.lab[name]), -s.declared * CELLSIZE) IN At(fetchlab(st, name))

\* An array is copied to where the caller's hidden argument says.
isvariadic(func) == \E i \in DOMAIN func.args : func.args[i].ident = "iVARARGS"
doreturn(st, es) ==
    LET func == st.func[st.curfunc]
        hidden(addr) == [NoSymbol EXCEPT !.ident = "iREFARRAY", !.addr = addr]
        Address(s) ==
            IF isvariadic(func)
            THEN popreg(swap1(dereference(oper(addconst(getfrm(address(pushreg(s, ".pri"),
                     hidden(2 * CELLSIZE), ".alt")), 3 * CELLSIZE), "ob_add"))), ".alt")
            ELSE address(s, hidden((Len(func.args) + 3) * CELLSIZE), ".alt")
        Copied(s) == IF IsArray(s.lval) THEN memcopy(Address(s), func.ret * CELLSIZE) ELSE s
        value == IF es = << >> THEN ldconst(st, 0, ".pri") ELSE Copied(doexpr(st, es, FALSE))
    IN  ffret(Release(value, st.declared), ~func.entry)
doexit(st, es) ==
    ffabort(ldconst(IF es = << >> THEN ldconst(st, 0, ".pri") ELSE doexpr(st, es, FALSE), 0, ".alt"), xEXIT)
doassert(st, es) ==
    LET label == st.labnum + 1
    IN  setlabel(ffabort(test(getlabel(st), label, es, TRUE), xASSERTION), label)
\* The condition may be missing; the entry function of the state is called
\* without arguments.
dostate(st, es, value, selector, entry) ==
    LET label == st.labnum + 1
        tested == IF es = << >> THEN st ELSE test(getlabel(st), label, es, FALSE)
        Entered(s) ==
            IF entry = 0 \/ st.status # "statWRITE" THEN s ELSE ffcallentry(s, st.statelab[entry])
        entered == Entered(storereg(ldconst(tested, value, ".pri"), selector))
    IN  IF es = << >> THEN entered ELSE setlabel(entered, label)

-----------------------------------------------------------------------------
Ends(st, lastst) == [st EXCEPT !.lastst = lastst]
NoReturn(lastst) == lastst \in {"tRETURN", "tGOTO"}

\* The locals of a block go with it, unless its end cannot be reached.
compound(st, stmts) ==
    LET Ended(body) == IF NoReturn(body.lastst) THEN body ELSE Release(body, body.declared - st.declared)
    IN  [Ended(FoldLeft(statement, st, stmts)) EXCEPT !.declared = st.declared, !.loc = st.loc]

doif(st, es, s) ==
    LET label == st.labnum + 1
    IN  Ends(setlabel(statement(test(getlabel(st), label, es, FALSE), s), label), "tIF")
doifelse(st, es, s, t) ==
    LET label == st.labnum + 1
        Around(yes, exit) == IF NoReturn(yes.lastst) THEN getlabel(yes) ELSE jumplabel(getlabel(yes), exit)
        No(yes, exit) == setlabel(statement(setlabel(Around(yes, exit), label), t), exit)
        Last1(no, lastst) == IF no.lastst = lastst THEN no ELSE Ends(no, "tIF")
        Yes(yes) == Last1(No(yes, yes.labnum + 1), yes.lastst)
    IN  Yes(statement(test(getlabel(st), label, es, FALSE), s))
\* The labels of a loop are the next two of the compiler.
dowhile(st, es, s) ==
    LET loop == st.labnum + 1
        exit == st.labnum + 2
        tested == test(setline(setlabel(addwhile(st), loop)), exit, es, FALSE)
    IN  Ends(delwhile(setlabel(jumplabel(statement(tested, s), loop), exit)), "tWHILE")
dodo(st, s, es) ==
    LET loop == st.labnum + 1
        exit == st.labnum + 2
        top == st.labnum + 3
        body == statement(setlabel(getlabel(addwhile(st)), top), s)
    IN  Ends(delwhile(setlabel(jumplabel(test(setline(setlabel(body, loop)), exit, es, FALSE), top), exit)), "tDO")
\* The third expression is written before the second.
dofor(st, init, es, es3, s) ==
    LET loop == st.labnum + 1
        exit == st.labnum + 2
        skiplab == st.labnum + 3
        First(f) == IF init = << >> THEN f
                    ELSE IF init[1][1] = "new" THEN statement(f, <<"declloc">> \o Tail(init[1]))
                    ELSE doexpr(f, init[1][2], TRUE)
        Scoped(f) == [f EXCEPT !.wq[Len(f.wq)] = [@ EXCEPT !.brk = f.declared, !.cont = f.declared]]
        Begun(f) == setline(setlabel(jumplabel(f, skiplab), loop))
        Second(f) == setlabel(stgmark(stgmark(stgset(f, TRUE), sSTARTREORDER), sEXPRSTART(0)), skiplab)
        Tested(f) == stgmark(IF es = << >> THEN f ELSE test(f, exit, es, FALSE), sEXPRSTART(1))
        Stepped(f) == stgmark(IF es3 = << >> THEN f ELSE doexpr(f, es3, TRUE), sENDREORDER)
        Header(f) == Stepped(Tested(Second(Begun(Scoped(First(f))))))
        Ended(f) == delwhile(setlabel(jumplabel(f, loop), exit))
        Left(f) == Release(f, f.declared - st.declared)
    IN  [Left(Ended(statement(stgset(stgflush(Header(getlabel(addwhile(st)))), FALSE), s)))
            EXCEPT !.declared = st.declared, !.loc = st.loc, !.lastst = "tFOR"]

\* The table of a switch is sorted and follows its clauses.
doswitch(st, es, cases, otherwise) ==
    LET Clause(s, body, exit) == jumplabel(statement(setlabel(getlabel(s), s.labnum + 1), body), exit)
        Cases(s, exit) ==
            FoldLeft(LAMBDA acc, c : [st |-> Clause(acc.st, c[2], exit),
                                      list |-> acc.list \cup {<<v, acc.st.labnum + 1>> : v \in c[1]}],
                     [st |-> s, list |-> {}], cases)
        Caselist(header, list) ==
            FoldLeft(LAMBDA s, c : ffcase(s, c[1], c[2], FALSE), header,
                     SetToSortSeq(list, LAMBDA c, d : c[1] < d[1]))
        Table(all, table, exit) ==
            setlabel(Caselist(ffcase(setlabel(IF otherwise = << >> THEN all.st ELSE Clause(all.st, otherwise[1], exit),
                                          table),
                                 Cardinality(all.list),
                                 IF otherwise = << >> THEN exit ELSE all.st.labnum + 1, TRUE), all.list), exit)
        Switched(s, table, exit) == Table(Cases(getlabel(ffswitch(getlabel(s), table)), exit), table, exit)
        Valued(s) == Switched(s, s.labnum + 1, s.labnum + 2)
    IN  Ends(Valued(doexpr(st, es, FALSE)), "tSWITCH")

statement(st, s) ==
    LET at == setline(st) IN
    CASE s[1] \in {"doexpr", "test"} /\ ~st.staging -> Staged(st, s)
      [] s[1] = "doexpr" /\ st.staging -> expressions(st, s[2], s[3])
      [] s[1] = "test" /\ st.staging -> condition(st, s[2], s[3], s[4])
      [] s[1] = "block" -> IF s[2] = << >> THEN st ELSE compound(st, s[2])
      [] s[1] \in {"new", "static", "declloc"} ->
            Ends(declloc(IF s[1] = "declloc" THEN st ELSE at, s[2], s[3], s[4], s[1] = "static"), "tNEW")
      [] s[1] = "expr" -> Ends(doexpr(at, s[2], TRUE), "tEXPR")
      [] s[1] = "if" -> doif(at, s[2], s[3])
      [] s[1] = "else" -> doifelse(at, s[2], s[3], s[4])
      [] s[1] = "while" -> dowhile(at, s[2], s[3])
      [] s[1] = "do" -> dodo(at, s[2], s[3])
      [] s[1] = "for" -> dofor(at, s[2], s[3], s[4], s[5])
      [] s[1] = "switch" -> doswitch(at, s[2], s[3], s[4])
      [] s[1] = "return" -> Ends(doreturn(at, s[2]), "tRETURN")
      [] s[1] = "break" -> Ends(dobreak(at), "tBREAK")
      [] s[1] = "continue" -> Ends(docont(at), "tCONTINUE")
      [] s[1] = "goto" -> Ends(dogoto(at, s[2]), "tGOTO")
      [] s[1] = "label" -> Ends(dolabel(at, s[2]), "tLABEL")
      [] s[1] = "exit" -> Ends(doexit(at, s[2]), "tEXIT")
      [] s[1] = "assert" -> Ends(doassert(at, s[2]), "tASSERT")
      [] s[1] = "state" -> Ends(dostate(at, s[2], s[3], s[4], s[5]), "tSTATE")
=============================================================================
