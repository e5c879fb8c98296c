------------------------------ MODULE CodeGen ------------------------------
(***************************************************************************)
(* The code generator of the compiler (sc4.c): one operator per function   *)
(* that writes instructions, from the state of the compiler to the state.  *)
(* The state is a record; of it this module uses                           *)
(*    out, stg, staging  the file, the staging buffer, and which of the    *)
(*                       two instructions are written to                   *)
(*    code_idx           the size of the code so far, in cells: labels of  *)
(*                       functions and the sizes in the header come from   *)
(*                       it, not from the file                             *)
(*    saved              what the optimiser took off code_idx              *)
(*    labnum             the last label                                    *)
(*    status, level      statFIRST or statWRITE, and pc_optimize           *)
(* A symbol is a record with its ident, whether it is local, its address   *)
(* and the length of its array; a value (see Expressions) has a symbol.    *)
(***************************************************************************)
EXTENDS Peephole

CELLSIZE == 4
CHARBYTES == 1                  \* sCHARBITS/8

\* Lines that are instructions take their operands and one cell more; a row
\* of a case table is two cells; labels, comments and marks take nothing.
SizeOf(line) ==
    CASE line[1] \in {"l.", ";$exp", ";$par", ";$lcl", "[", "]", "|"} -> 0
      [] line[1] = "case" -> 2
      [] line[1] = "proc" -> 1
      [] OTHER -> Len(line)
CodeSize(lines) == FoldLeft(LAMBDA sum, line : sum + SizeOf(line), 0, lines)

\* Lines go to the staging buffer or to the file, which only the last pass
\* writes.
stgwrite(st, lines) ==
    [st EXCEPT !.code_idx = @ + CodeSize(lines),
               !.stg = IF st.staging THEN @ \o lines ELSE @,
               !.out = IF ~st.staging /\ st.status = "statWRITE" THEN @ \o lines ELSE @]
stgmark(st, mark) == IF st.staging THEN [st EXCEPT !.stg = Append(@, mark)] ELSE st
stgget(st) == [index |-> Len(st.stg), code_idx |-> st.code_idx]
stgdel(st, mark) ==
    IF st.staging THEN [st EXCEPT !.stg = SubSeq(@, 1, mark.index), !.code_idx = mark.code_idx] ELSE st
stgset(st, onoff) == [st EXCEPT !.staging = onoff, !.stg = << >>]
\* The buffer goes to the file, reordered and optimised.
stgflush(st) ==
    IF ~st.staging THEN st
    ELSE IF st.status # "statWRITE" THEN [st EXCEPT !.stg = << >>]
    ELSE LET Written(result) ==
                 [st EXCEPT !.stg = << >>, !.out = @ \o result.code,
                            !.code_idx = @ - result.saved, !.saved = @ + result.saved]
         IN  Written(stgout(st.stg, Tables[st.level]))

getlabel(st) == [st EXCEPT !.labnum = @ + 1]
setlabel(st, n) == stgwrite(st, << <<"l.", n>> >>)
jumplabel(st, n) == stgwrite(st, << <<"jump", n>> >>)
jmp_ne0(st, n) == stgwrite(st, << <<"jnz", n>> >>)
jmp_eq0(st, n) == stgwrite(st, << <<"jzer", n>> >>)
markexpr(st, type) == stgwrite(st, << IF type = "sEXPR" THEN exp ELSE par >>)
marklocal(st, name, offset) == stgwrite(st, << <<";$lcl", name, offset>> >>)
startfunc(st, f) == stgwrite(st, << <<"proc", f>> >>)
setline(st) == stgwrite(st, << <<"break">> >>)

\* "s" in an opcode: relative to the frame.
Local(sym, op, s, reg) == (op \o (IF sym.local THEN s ELSE "")) \o reg
rvalue(st, lval) ==
    stgwrite(st, << CASE lval.ident = "iARRAYCELL" -> <<"load.i">>
                      [] lval.ident = "iARRAYCHAR" -> <<"lodb.i", CHARBYTES>>
                      [] lval.ident = "iREFERENCE" -> <<"lref.s.pri", lval.sym.addr>>
                      [] OTHER -> <<Local(lval.sym, "load", ".s", ".pri"), lval.sym.addr>> >>)
address(st, sym, reg) ==
    stgwrite(st, << IF sym.ident \in {"iREFARRAY", "iREFERENCE"} THEN <<"load.s" \o reg, sym.addr>>
                    ELSE <<(IF sym.local THEN "addr" ELSE "const") \o reg, sym.addr>> >>)
store(st, lval) ==
    stgwrite(st, << CASE lval.ident = "iARRAYCELL" -> <<"stor.i">>
                      [] lval.ident = "iARRAYCHAR" -> <<"strb.i", CHARBYTES>>
                      [] lval.ident = "iREFERENCE" -> <<Local(lval.sym, "sref", ".s", ".pri"), lval.sym.addr>>
                      [] OTHER -> <<Local(lval.sym, "stor", ".s", ".pri"), lval.sym.addr>> >>)
memcopy(st, size) == stgwrite(st, << <<"movs", size>> >>)
copyarray(st, sym, size) ==
    memcopy(stgwrite(st, << IF sym.ident = "iREFARRAY" THEN <<"load.s.alt", sym.addr>>
                            ELSE <<IF sym.local THEN "addr.alt" ELSE "const.alt", sym.addr>> >>), size)
ldconst(st, val, reg) ==
    stgwrite(st, << IF val = 0 THEN <<"zero" \o reg>> ELSE <<"const" \o reg, val>> >>)
fillarray(st, sym, size, value) ==
    stgwrite(address(ldconst(st, value, ".pri"), sym, ".alt"), << <<"fill", size>> >>)

moveto1(st) == stgwrite(st, << <<"move.pri">> >>)
pushreg(st, reg) == stgwrite(st, << <<"push" \o reg>> >>)
popreg(st, reg) == stgwrite(st, << <<"pop" \o reg>> >>)
pushval(st, val) == stgwrite(st, << <<"push.c", val>> >>)
swap1(st) == stgwrite(st, << <<"swap.pri">> >>)

\* The first row of a case table holds the number of the others and where to
\* go when none of them matches.
ffswitch(st, label) == stgwrite(st, << <<"switch", label>> >>)
ffcase(st, value, label, newtable) ==
    stgwrite(st, (IF newtable THEN << <<"casetbl">> >> ELSE << >>) \o << <<"case", value, label>> >>)
\* A native leaves its arguments on the stack, a function takes them off.
ffcall(st, f, numargs) ==
    stgwrite(st, IF f.native THEN << <<"sysreq.c", f.id>>, <<"stack", (numargs + 1) * CELLSIZE>> >>
                 ELSE << <<"call", f.id>> >>)
\* The entry function of a state is called by a label, without arguments.
ffcallentry(st, label) == stgwrite(st, << <<"call.l", label>> >>)
ffret(st, remparams) == stgwrite(st, << <<IF remparams THEN "retn" ELSE "ret">> >>)
ffabort(st, reason) == stgwrite(st, << <<"halt", reason>> >>)
ffbounds(st, size) == stgwrite(st, << <<"bounds", size>> >>)

modstk(st, delta) == IF delta # 0 THEN stgwrite(st, << <<"stack", delta>> >>) ELSE st
modheap(st, delta) == IF delta # 0 THEN stgwrite(st, << <<"heap", delta>> >>) ELSE st
\* The stack at an offset from the frame: where a label expects it.
setstk(st, value) ==
    stgwrite(st, << <<"lctrl", 5>> >> \o (IF value < 0 THEN << <<"add.c", value>> >> ELSE << >>)
                 \o << <<"sctrl", 4>> >>)
setheap_pri(st) == stgwrite(st, << <<"heap", CELLSIZE>>, <<"stor.i">>, <<"move.pri">> >>)
setheap(st, value) == setheap_pri(stgwrite(st, << <<"const.pri", value>> >>))

getfrm(st) == stgwrite(st, << <<"lctrl", 5>> >>)
dereference(st) == stgwrite(st, << <<"load.i">> >>)
storereg(st, addr) == stgwrite(st, << <<"stor.pri", addr>> >>)
cell2addr(st) == stgwrite(st, << <<"shl.c.pri", 2>> >>)
charalign(st) == stgwrite(st, << <<"align.pri", CHARBYTES>> >>)
addconst(st, value) == IF value # 0 THEN stgwrite(st, << <<"add.c", value>> >>) ELSE st

\* The operators: the left operand is in ALT, the right one in PRI.
Operators == [ os_mult |-> << <<"smul">> >>,
               os_div |-> << <<"sdiv.alt">> >>,
               os_mod |-> << <<"sdiv.alt">>, <<"move.pri">> >>,
               ob_add |-> << <<"add">> >>,
               ob_sub |-> << <<"sub.alt">> >>,
               ob_sal |-> << <<"xchg">>, <<"shl">> >>,
               os_sar |-> << <<"xchg">>, <<"sshr">> >>,
               ou_sar |-> << <<"xchg">>, <<"shr">> >>,
               ob_and |-> << <<"and">> >>,
               ob_xor |-> << <<"xor">> >>,
               ob_or |-> << <<"or">> >>,
               ob_eq |-> << <<"eq">> >>,
               ob_ne |-> << <<"neq">> >> ]
Relations == [ os_le |-> << <<"xchg">>, <<"sleq">> >>,
               os_ge |-> << <<"xchg">>, <<"sgeq">> >>,
               os_lt |-> << <<"xchg">>, <<"sless">> >>,
               os_gt |-> << <<"xchg">>, <<"sgrtr">> >> ]
oper(st, op) ==
    stgwrite(st, IF op \in DOMAIN Operators THEN Operators[op] ELSE Relations[op])
\* Between two relations of a chain: the result so far is saved and the
\* right operand of the one becomes the left operand of the other.
relop_prefix(st) == stgwrite(st, << <<"push.pri">>, <<"move.pri">> >>)
relop_suffix(st) == stgwrite(st, << <<"swap.alt">>, <<"and">>, <<"pop.alt">> >>)
lneg(st) == stgwrite(st, << <<"not">> >>)
neg(st) == stgwrite(st, << <<"neg">> >>)
invert(st) == stgwrite(st, << <<"invert">> >>)

\* ++ and -- on what lval names; op is "inc" or "dec".
step(st, lval, op) ==
    stgwrite(st,
        CASE lval.ident = "iARRAYCELL" -> << <<op \o ".i">> >>
          [] lval.ident = "iARRAYCHAR" ->
                << <<"push.pri">>, <<"push.alt">>, <<"move.alt">>, <<"lodb.i", CHARBYTES>>,
                   <<op \o ".pri">>, <<"strb.i", CHARBYTES>>, <<"pop.alt">>, <<"pop.pri">> >>
          [] lval.ident = "iREFERENCE" ->
                << <<"push.pri">>, <<"lref.s.pri", lval.sym.addr>>, <<op \o ".pri">>,
                   <<"sref.s.pri", lval.sym.addr>>, <<"pop.pri">> >>
          [] OTHER -> << <<Local(lval.sym, op, ".s", ""), lval.sym.addr>> >>)
inc(st, lval) == step(st, lval, "inc")
dec(st, lval) == step(st, lval, "dec")
=============================================================================
