------------------------------ MODULE Compiler ------------------------------
(***************************************************************************)
(* The compiler at work (compile, sc1.c): a pass that reads the program    *)
(* and collects what the last one needs (which functions are called, what  *)
(* a conditional expression takes of the heap), the pass that writes the   *)
(* instructions, and a run of them.                                        *)
(*                                                                         *)
(* A program is a record: the globals <<name, dims, values>>; func, from   *)
(* the id of a function to what its callers must know of it; funcs, their  *)
(* definitions in the order of the source; main, and its parameters.  A    *)
(* function with states has several definitions, one of them for the       *)
(* states no other one is for (its states are {}).                         *)
(***************************************************************************)
EXTENDS Statements

CONSTANTS
    Programs,   \* the programs, as records
    Levels,     \* the levels of optimisation
    CELLS,      \* the cells of the memory of the machine
    FUEL        \* the instructions it may execute

VARIABLES
    program, optimize,
    phase,      \* "first", "write", "execute", "done"
    st,         \* the compiler's state after the last pass
    machine     \* the machine after the run

vars == <<program, optimize, phase, st, machine>>

Addresses == {CELLSIZE * k : k \in 0 .. CELLS - 1}
Amx == INSTANCE Machine WITH Cells <- Addresses

\* Globals follow each other in the data segment.
declglb(s, g) ==
    LET size == IF g[2] = << >> THEN 1 ELSE array_totalsize([NoSymbol EXCEPT !.dims = g[2]])
        values == IF g[2] = << >> THEN g[3] ELSE initials(g[2], g[3])
        sym == [name |-> g[1], ident |-> IF g[2] = << >> THEN "iVARIABLE" ELSE "iARRAY",
                local |-> FALSE, addr |-> Len(s.data) * CELLSIZE, dims |-> g[2]]
    IN  [s EXCEPT !.glb = Append(@, sym), !.data = @ \o (values \o Zeros(size - Len(values)))]

\* The arguments are above the frame, the return address and their number.
declargs(s, f) ==
    LET arg == s.func[f.id].args
        Symbol(i) == [name |-> f.params[i], ident |-> arg[i].ident, local |-> TRUE,
                      addr |-> (i + 2) * CELLSIZE,
                      dims |-> IF arg[i].ident = "iREFARRAY" THEN arg[i].dims ELSE << >>]
    IN  [s EXCEPT !.loc = [i \in DOMAIN f.params |-> Symbol(i)]]
define_args(s) == FoldLeft(LAMBDA acc, sym : marklocal(acc, sym.name, sym.addr), s, s.loc)

\* A function.  One that nobody calls is read, but not written, in the last
\* pass; the literals of the others follow the data.
newfunc(s, f) ==
    LET skip == s.status = "statWRITE" /\ ~f.public /\ f.id \notin s.read
        declared == declargs([s EXCEPT !.status = IF skip THEN "statSKIP" ELSE @, !.lastst = "",
                                       !.declared = 0, !.lab = << >>, !.curfunc = f.id], f)
        Labeled(d) == IF f.label = 0 THEN [d EXCEPT !.addr = (f.id :> s.code_idx) @@ @]
                      ELSE setlabel(d, d.statelab[f.label])
        Begun(d) == define_args(startfunc(d, f.id))
        Released(b) == [Release(b, b.declared) EXCEPT !.declared = 0]
        Ended(b) == IF NoReturn(b.lastst) THEN b ELSE ffret(ldconst(b, 0, ".pri"), ~s.func[f.id].entry)
        Done(b) == [status |-> s.status]
                   @@ [b EXCEPT !.litq = << >>, !.loc = << >>, !.code_idx = IF skip THEN s.code_idx ELSE @,
                                !.data = IF skip THEN @ ELSE @ \o b.litq]
    IN  Done(Ended(Released(statement(Begun(Labeled(declared)), f.body))))

\* What the code starts with: the exit point, the selector of the states, and
\* a stub for every function with states, which looks the state up.
Versions(prog, id) == {i \in DOMAIN prog.funcs : prog.funcs[i].id = id /\ prog.funcs[i].label # 0}
writeleader(s, prog) ==
    LET start == stgwrite(s, << <<"halt", 0>> >>)
        nostate == getlabel(start)
        lbl_nostate == nostate.labnum
        error == [stgwrite(setlabel(nostate, lbl_nostate), << <<"halt", "AMX_ERR_INVSTATE">> >>)
                    EXCEPT !.data = Append(@, 0)]
        Stub(acc, id) ==
            LET mine == SetToSortSeq(Versions(prog, id), <)
                Lab(a, i) == LET l == getlabel(a) IN
                    [l EXCEPT !.statelab = (prog.funcs[i].label :> l.labnum) @@ @]
                labels == FoldLeft(Lab, acc, mine)
                fallback == {i \in Versions(prog, id) : prog.funcs[i].states = {}}
                otherwise == IF fallback = {} THEN lbl_nostate
                           ELSE labels.statelab[prog.funcs[CHOOSE i \in fallback : TRUE].label]
                rows == UNION {{<<v, labels.statelab[prog.funcs[i].label]>> : v \in prog.funcs[i].states} :
                               i \in Versions(prog, id)}
                table == getlabel(stgwrite([labels EXCEPT !.addr = (id :> acc.code_idx) @@ @],
                                           << <<"load.pri", 0>> >>))
                header == ffcase(setlabel(ffswitch(table, table.labnum), table.labnum),
                                 Cardinality(rows), otherwise, TRUE)
            IN  IF s.func[id].entry THEN labels
                ELSE FoldLeft(LAMBDA a, r : ffcase(a, r[1], r[2], FALSE), header,
                              SetToSortSeq(rows, LAMBDA a, b : a[1] < b[1]))
        used(id) == id \in s.read \/ \E i \in Versions(prog, id) : prog.funcs[i].public
        stubbed == {id \in DOMAIN s.func : Versions(prog, id) # {} /\ used(id)}
    IN  IF stubbed = {} THEN start ELSE FoldLeft(Stub, error, SetToSortSeq(stubbed, <))

Fresh(prog, opt, status, heaplist, read) ==
    [out |-> << >>, stg |-> << >>, staging |-> FALSE, code_idx |-> 0, saved |-> 0, labnum |-> 0,
     status |-> status, level |-> opt, loc |-> << >>, glb |-> << >>, func |-> prog.func, decl_heap |-> 0,
     heaplist |-> heaplist, unequal |-> FALSE, declared |-> 0, lastst |-> "", wq |-> << >>,
     lab |-> << >>, statelab |-> [i \in 1 .. Len(prog.funcs) |-> 0], addr |-> << >>, data |-> << >>,
     litq |-> << >>, curfunc |-> 0, read |-> read,
     lval |-> Expression]
parse(s, prog) == FoldLeft(newfunc, FoldLeft(declglb, s, prog.globals), prog.funcs)
FirstPass(prog, opt) == parse(Fresh(prog, opt, "statFIRST", << >>, {}), prog)
LastPass(prog, opt, first) ==
    parse(writeleader(Fresh(prog, opt, "statWRITE", first.heaplist, first.read), prog), prog)

-----------------------------------------------------------------------------
Unstarted == Amx!Started(0, 0, 0, 0, 0, << >>)
Init ==
    /\ program \in Programs /\ optimize \in Levels
    /\ phase = "first" /\ st = << >> /\ machine = Unstarted
First == phase = "first" /\ phase' = "write" /\ st' = FirstPass(program, optimize)
         /\ UNCHANGED <<program, optimize, machine>>
Write == phase = "write" /\ phase' = "execute" /\ st' = LastPass(program, optimize, st)
         /\ UNCHANGED <<program, optimize, machine>>

\* The host pushes the parameters, their number and the address to return
\* to, and calls the main function; memory that nothing was stored in yet
\* holds junk.
JUNK == 77
hea == Len(st.data) * CELLSIZE
stp == CELLS * CELLSIZE
\* A call names the address that the compiler found for the function; the
\* instruction that is there is where it goes, line 0 if there is none.
Sizes(code) == FoldLeft(LAMBDA sums, line : Append(sums, Last(sums) + SizeOf(line)), <<0>>, code)
At(code, sizes, addr) ==
    LET there == {i \in DOMAIN code : sizes[i] = addr /\ SizeOf(code[i]) > 0}
    IN  IF there = {} THEN 0 ELSE CHOOSE i \in there : TRUE
Linked(code, addr) ==
    LET sizes == Sizes(code)
    IN  [i \in DOMAIN code |->
            CASE code[i][1] = "call" -> <<"call", At(code, sizes, addr[code[i][2]])>>
              [] code[i][1] = "call.l" -> <<"call", Amx!Line(code, Amx!Label(code[i][2]))>>
              [] OTHER -> code[i]]
Pushed == Reverse(program.params) \o <<Len(program.params) * CELLSIZE, 0>>
Called ==
    LET stk == stp - Len(Pushed) * CELLSIZE
        mem == [a \in Addresses |->
                  IF a < hea THEN st.data[a \div CELLSIZE + 1]
                  ELSE IF a >= stk THEN Pushed[(stp - a) \div CELLSIZE] ELSE JUNK]
    IN  [Amx!Started(JUNK, JUNK, 0, stk, hea, mem)
            EXCEPT !.cip = At(st.out, Sizes(st.out), st.addr[program.main])]
Execute == phase = "execute" /\ phase' = "done" /\ machine' = Amx!Run(Called, Linked(st.out, st.addr), FUEL)
           /\ UNCHANGED <<program, optimize, st>>

Next == First \/ Write \/ Execute
Spec == Init /\ [][Next]_vars
=============================================================================
