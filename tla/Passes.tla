------------------------------- MODULE Passes -------------------------------
(***************************************************************************)
(* The passes of the compiler over a program (pc_compile, sc1.c): the      *)
(* first pass, repeated while sc_reparse asks for it, only fills the       *)
(* global symbol table; the last one writes code, and leaves out every     *)
(* function and variable that the first ones saw no use of; the assembler  *)
(* (assemble, sc6.c) then resolves the names and writes the tables that    *)
(* the host looks names up in (amx_FindPublic and its like, amx.c).        *)
(*                                                                         *)
(* A declaration is a record; the body of a function is a row of uses:     *)
(* a call or a load of a name, with oper when an operator is applied to    *)
(* the result, and under #if defined when is not "". No function has       *)
(* arguments or locals; an instruction takes one cell of code, and a       *)
(* variable one cell of data.                                              *)
(***************************************************************************)
EXTENDS Integers, Sequences, FiniteSets, SequencesExt, Functions

CONSTANTS Programs,     \* rows of declarations
          Order,        \* the names in the order of strcmp
          MAIN, OPERATOR \* the name "main"; the name of an operator
ASSUME OrderAssumption == Order \in Seq(STRING) /\ IsInjective(Order) /\ {MAIN, OPERATOR} \subseteq Range(Order)

VARIABLES program,
          pos,          \* declarations parsed in this pass
          cc,           \* the globals of the compiler
          image         \* what assemble writes
vars == <<program, pos, cc, image>>

NULL == 0
NOIMAGE == [publics |-> << >>, natives |-> << >>, pubvars |-> << >>]
Place(name) == CHOOSE i \in 1 .. Len(Order) : Order[i] = name
Symbols(c) == Range(c.glbtab)
findglb(c, name) ==
    LET found == {s \in Symbols(c) : c.sym[s].name = name}
    IN  IF found = {} THEN NULL ELSE CHOOSE s \in found : TRUE
Has(c, s, flag) == flag \in c.sym[s].usage
HasNone(c, s, flags) == c.sym[s].usage \cap flags = {}
Set(c, s, flags) == [c EXCEPT !.sym[s].usage = c.sym[s].usage \cup flags]
Clear(c, s, flags) == [c EXCEPT !.sym[s].usage = c.sym[s].usage \ flags]
\* Errors are only reported in the pass that writes.
error(c) == [c EXCEPT !.errnum = c.errnum + IF c.sc_status = "WRITE" THEN 1 ELSE 0]
stgwrite(c, instr) ==
    [c EXCEPT !.code_idx = c.code_idx + 1,
              !.code = IF c.sc_status = "WRITE" THEN Append(c.code, instr) ELSE c.code]

-----------------------------------------------------------------------------
(* The symbol table.                                                       *)

\* Bug: the new symbol is put at the head of the list.
add_symbolFirst(c, entry) ==
    [c EXCEPT !.sym = Append(c.sym, entry), !.glbtab = <<Len(c.sym) + 1>> \o c.glbtab]
\* Before the first symbol that is not smaller.
add_symbol(c, entry) ==
    LET Less(i) == Place(c.sym[c.glbtab[i]].name) < Place(entry.name)
        at == CHOOSE i \in 0 .. Len(c.glbtab) :
                  (\A j \in 1 .. i : Less(j)) /\ (i < Len(c.glbtab) => ~Less(i + 1))
    IN  [c EXCEPT !.sym = Append(c.sym, entry), !.glbtab = InsertAt(c.glbtab, at + 1, Len(c.sym) + 1)]
addsym(c, name, addr, ident, tag, usage) ==
    add_symbol(c, [name |-> name, ident |-> ident, addr |-> addr, tag |-> tag, usage |-> usage,
                   refer |-> {}, stacksize |-> 1])
\* As long as a function stays undefined, its address and its tag follow.
fetchfunc(c, name, tag) ==
    LET s == findglb(c, name)
    IN  IF s = NULL THEN addsym(c, name, c.code_idx, "iFUNCTN", tag, {})
        ELSE IF ~Has(c, s, "uDEFINE")
        THEN [c EXCEPT !.sym[s].addr = c.code_idx, !.sym[s].tag = tag]
        ELSE c
markusage(c, s, bywhom) == [Set(c, s, {"uREAD"}) EXCEPT !.sym[s].refer = c.sym[s].refer \cup {bywhom}]

MustDelete(c, s) == Has(c, s, "uNATIVE")
delete_symbols(c) ==
    LET kept == SelectSeq(c.glbtab, LAMBDA s : ~MustDelete(c, s))
        Undefined(s) ==
            (c.sym[s].usage \ (IF c.sym[s].name = OPERATOR THEN {"uDEFINE", "uPROTOTYPED"} ELSE {"uDEFINE"}))
            \cup (IF c.sym[s].ident = "iFUNCTN" /\ ~Has(c, s, "uDEFINE") THEN {"uMISSING"} ELSE {})
    IN  [c EXCEPT !.glbtab = kept,
                  !.sym = [s \in DOMAIN c.sym |->
                              IF s \in Range(kept) THEN [c.sym[s] EXCEPT !.usage = Undefined(s)] ELSE c.sym[s]]]
\* A function that nothing refers to does not refer to anything.
Unreferred(c, s) == c.sym[s].refer = {} /\ ~Has(c, s, "uPUBLIC")
Unused(c, s) ==
    c.sym[s].ident = "iFUNCTN" /\ Unreferred(c, s) /\ ~Has(c, s, "uNATIVE") /\ c.sym[s].name # MAIN
Reduced(c, s) ==
    LET erased == Clear(c, s, {"uREAD"})
    IN  IF Unused(c, s)
        THEN [erased EXCEPT !.sym = [r \in DOMAIN c.sym |->
                 [erased.sym[r] EXCEPT !.refer = IF r \in Symbols(c) THEN erased.sym[r].refer \ {s}
                                                 ELSE erased.sym[r].refer]]]
        ELSE IF c.sym[s].ident = "iVARIABLE" /\ Unreferred(c, s) THEN erased
        ELSE c
Sweep(c) == FoldLeft(Reduced, c, c.glbtab)
\* Bug: the symbols are gone through once.
reduce_referrersOnce(c) == Sweep(c)
\* Until a sweep erases no reference.
reduce_referrers(c) ==
    LET f[n \in 0 .. Len(c.glbtab) + 1] == IF n = 0 THEN c ELSE Sweep(f[n - 1])
    IN  f[Len(c.glbtab) + 1]

-----------------------------------------------------------------------------
(* Calls and loads.                                                        *)

\* A native function gets its number at its first use that is written.
Numbered(c, s) ==
    IF c.sc_status = "WRITE" /\ ~Has(c, s, "uREAD")
    THEN [c EXCEPT !.sym[s].addr = c.ntv_funcid, !.ntv_funcid = c.ntv_funcid + 1]
    ELSE c
Using(c, s, op, arg) == stgwrite(c, [op |-> op, arg |-> arg, name |-> c.sym[s].name])
sysreq(c, s) == Using(c, s, "sysreq", c.sym[s].addr)
ffcall(c, s) == IF Has(c, s, "uNATIVE") THEN sysreq(Numbered(c, s), s) ELSE Using(c, s, "call", NULL)
\* A call in a function that is left out does not count as a use.
Counted(c, s, curfunc) == IF c.sc_status = "SKIP" THEN c ELSE markusage(c, s, curfunc)
Called(c, s, curfunc) == Counted(ffcall(c, s), s, curfunc)
\* The stack of the caller: PROC, the number of arguments, the return address.
totalsize(c, s) == IF Has(c, s, "uNATIVE") THEN 2 ELSE 3
stacksize(c, curfunc, size) == IF c.sym[curfunc].stacksize < size THEN [c EXCEPT !.sym[curfunc].stacksize = size] ELSE c
callfunction(c, s, curfunc) == stacksize(Called(c, s, curfunc), curfunc, totalsize(c, s))
\* An operator is known by the tag of its operand; it is not used in its own body.
Checked(c, s) == IF Has(c, s, "uMISSING") \/ ~Has(c, s, "uPROTOTYPED") THEN error(c) ELSE c
check_userop(c, tag, curfunc) ==
    LET Applied(s, checked) == IF s = curfunc THEN checked ELSE Called(checked, s, curfunc)
        Overloaded(s) == IF tag = 0 \/ s = NULL THEN c ELSE Applied(s, Checked(c, s))
    IN  Overloaded(findglb(c, OPERATOR))
\* A name that is not known yet is taken for a function, in the first pass.
Stub(c, name, curfunc) ==
    LET fetched == fetchfunc(c, name, 0)
    IN  IF findglb(c, name) = NULL THEN markusage(fetched, findglb(fetched, name), curfunc) ELSE c
Load(c, s, curfunc) ==
    markusage(Using(IF Has(c, s, "uDEFINE") THEN c ELSE error(c), s, "load", c.sym[s].addr), s, curfunc)
Operator(c, use, tag, curfunc) == IF use.oper THEN check_userop(c, tag, curfunc) ELSE c
Call(c, s, use, curfunc) == Operator(callfunction(Checked(c, s), s, curfunc), use, c.sym[s].tag, curfunc)
\* #if defined: a function counts as soon as it is in the table.
Defined(c, name) ==
    LET s == findglb(c, name) IN s # NULL /\ (c.sym[s].ident = "iFUNCTN" \/ Has(c, s, "uDEFINE"))
Symbol(c, s, use, curfunc) ==
    IF s = NULL THEN error(c)
    ELSE IF c.sym[s].ident = "iVARIABLE" THEN Load(c, s, curfunc)
    ELSE Call(c, s, use, curfunc)
primary(c, use, curfunc) ==
    LET Looked(known) == Symbol(known, findglb(known, use.name), use, curfunc)
    IN  IF use.when # "" /\ ~Defined(c, use.when) THEN c
        ELSE Looked(IF use.call /\ c.sc_status = "FIRST" THEN Stub(c, use.name, curfunc) ELSE c)

-----------------------------------------------------------------------------
(* Declarations.                                                           *)

\* Bug: a result that was used before its tag was known is not noticed.
check_reparseNever(c, s) == c
\* Used before it was declared, with a tag: one more first pass.
check_reparse(c, s) ==
    IF Has(c, s, "uREAD") /\ ~Has(c, s, "uPROTOTYPED") /\ c.sym[s].tag # 0
    THEN [c EXCEPT !.sc_reparse = TRUE] ELSE c
\* The operator takes the place of the symbol of an earlier declaration, and
\* its flags and referrers; the declaration was entered as a new symbol.
operatoradjust(c, s, old) ==
    [c EXCEPT !.sym[s].usage = c.sym[s].usage \cup c.sym[old].usage,
              !.sym[s].refer = c.sym[s].refer \cup c.sym[old].refer,
              !.glbtab = SelectSeq(c.glbtab, LAMBDA r : r # old)]
\* What a declaration enters for a function, with its arguments.
NATIVE == {"uNATIVE", "uDEFINE", "uFORWARD"}
Entered(c, d) ==
    IF d.name = OPERATOR THEN addsym(c, d.name, c.code_idx, "iFUNCTN", d.tag, {}) ELSE fetchfunc(c, d.name, d.tag)
Marked(c, s, d, flags) ==
    IF d.decl = "native" THEN Set(Clear(c, s, c.sym[s].usage \ {"uPROTOTYPED"}), s, NATIVE) ELSE Set(c, s, flags)
Declared(c, d, flags) ==
    LET old == findglb(c, d.name)
        anew == d.name = OPERATOR \/ old = NULL
        s == IF anew THEN Len(c.sym) + 1 ELSE old
        Prototyped(marked) == Set(check_reparse(marked, s), s, {"uPROTOTYPED"})
        Replaced(done) == IF anew /\ old # NULL THEN operatoradjust(done, s, old) ELSE done
    IN  Replaced(Prototyped(Marked(Entered(c, d), s, d, flags)))
PublicFlag(d) == IF d.public THEN {"uPUBLIC"} ELSE {}
funcstub(c, d) == Declared(c, d, {"uFORWARD"} \cup PublicFlag(d))
\* Nothing referred to it in the first passes: no code is written for it.
Skipped(c, s, d) == c.sc_status = "WRITE" /\ ~Has(c, s, "uREAD") /\ ~d.public
newfunc(c, d) ==
    LET Started(declared, s, skip) ==
            stgwrite(Set(IF skip THEN [declared EXCEPT !.sc_status = "SKIP"] ELSE declared, s, {"uDEFINE"}),
                     [op |-> "proc", arg |-> NULL, name |-> d.name])
        Ended(done, skip) ==
            IF skip THEN [done EXCEPT !.sc_status = "WRITE", !.code_idx = c.code_idx, !.glb_declared = c.glb_declared]
            ELSE done
        Body(declared, s, skip) ==
            Ended(FoldLeft(LAMBDA at, use : primary(at, use, s), Started(declared, s, skip), d.body), skip)
        Found(declared, s) == Body(declared, s, Skipped(declared, s, d))
        Entry(declared) == Found(declared, findglb(declared, d.name))
        Main(declared) == IF d.name = MAIN THEN Set(declared, findglb(declared, MAIN), {"uREAD"}) ELSE declared
    IN  Entry(Main(Declared(c, d, PublicFlag(d))))
\* A variable without a use gets no cell either.
declglb(c, d) ==
    LET s == findglb(c, d.name)
        skip == c.sc_status = "WRITE" /\ s # NULL /\ HasNone(c, s, {"uREAD", "uPUBLIC"})
        Known(flags) ==
            IF s = NULL THEN addsym(c, d.name, c.glb_declared, "iVARIABLE", 0, flags)
            ELSE [Set(c, s, flags) EXCEPT !.sym[s].addr = c.glb_declared]
        Stored(known) ==
            IF skip THEN known
            ELSE [known EXCEPT !.glb_declared = c.glb_declared + 1,
                               !.data = IF c.sc_status = "WRITE" THEN Append(c.data, d.name) ELSE c.data]
    IN  IF s # NULL /\ Has(c, s, "uDEFINE") THEN error(c)
        ELSE Stored(Known({"uDEFINE"} \cup PublicFlag(d) \cup IF d.stock THEN {"uSTOCK"} ELSE {}))

-----------------------------------------------------------------------------
(* The passes.                                                             *)

START == [sc_status |-> "FIRST", glbtab |-> << >>, sym |-> << >>, code_idx |-> 0, glb_declared |-> 0,
          ntv_funcid |-> 0, sc_reparse |-> FALSE, errnum |-> 0, code |-> << >>, data |-> << >>]
resetglobals(c, status) ==
    [c EXCEPT !.sc_status = status, !.code_idx = 0, !.glb_declared = 0, !.ntv_funcid = 0, !.sc_reparse = FALSE]
\* The leader: the instruction that a return from main() comes to.
writeleader(c) == stgwrite(c, [op |-> "halt", arg |-> NULL, name |-> ""])

FirstPass == pos = 0 /\ cc = START /\ image = NOIMAGE
Init == program \in Programs /\ FirstPass
Parsing == cc.sc_status \in {"FIRST", "WRITE"}
Parse(kinds) ==
    /\ Parsing /\ pos < Len(program)
    /\ program[pos + 1].decl \in kinds
    /\ pos' = pos + 1
    /\ UNCHANGED <<program, image>>
ParseStub == Parse({"native", "forward"}) /\ cc' = funcstub(cc, program[pos + 1])
ParseFunction == Parse({"function"}) /\ cc' = newfunc(cc, program[pos + 1])
ParseVariable == Parse({"variable"}) /\ cc' = declglb(cc, program[pos + 1])
\* Once more when sc_reparse is set, else the pass that writes.
NextPass ==
    /\ cc.sc_status = "FIRST" /\ pos = Len(program)
    /\ LET tidy == delete_symbols(reduce_referrers(cc))
       IN  cc' = IF cc.sc_reparse THEN resetglobals(tidy, "FIRST") ELSE writeleader(resetglobals(tidy, "WRITE"))
    /\ pos' = 0 /\ UNCHANGED <<program, image>>

Table(names) == [i \in DOMAIN names |-> [name |-> cc.sym[names[i]].name, address |-> cc.sym[names[i]].addr]]
IsNative(s) == {"uNATIVE", "uREAD"} \subseteq cc.sym[s].usage
Natives == {s \in Symbols(cc) : IsNative(s)}
IsPublic(s) == cc.sym[s].ident = "iFUNCTN" /\ {"uPUBLIC", "uDEFINE"} \subseteq cc.sym[s].usage
IsPubVar(s) == cc.sym[s].ident = "iVARIABLE" /\ Has(cc, s, "uPUBLIC") /\ (Has(cc, s, "uSTOCK") => Has(cc, s, "uREAD"))
\* "assert(numnatives==ntv_funcid)", and a place for every number below it.
NativesAreNumbered == {cc.sym[s].addr : s \in Natives} = 0 .. cc.ntv_funcid - 1 /\ Cardinality(Natives) = cc.ntv_funcid
assemble ==
    /\ cc.sc_status = "WRITE" /\ pos = Len(program)
    /\ cc' = [cc EXCEPT !.sc_status = "IDLE"]
    /\ IF cc.errnum > 0 THEN UNCHANGED image
       ELSE image' = [publics |-> Table(SelectSeq(cc.glbtab, IsPublic)), pubvars |-> Table(SelectSeq(cc.glbtab, IsPubVar)),
                      natives |-> IF NativesAreNumbered
                                  THEN [i \in 1 .. cc.ntv_funcid |->
                                           cc.sym[CHOOSE s \in Natives : cc.sym[s].addr = i - 1].name]
                                  ELSE << >>]
    /\ UNCHANGED <<program, pos>>
Next == ParseStub \/ ParseFunction \/ ParseVariable \/ NextPass \/ assemble
Spec == Init /\ [][Next]_vars
Assembled == cc.sc_status = "IDLE" /\ cc.errnum = 0

-----------------------------------------------------------------------------
(* What the host and the code find.                                        *)

\* The place of name in a table that is sorted on names, or NULL.
FindName(table, name) ==
    LET Compare(i) == Place(table[i].name) - Place(name)
        f[n \in 0 .. Len(table) + 1] ==     \* <<first, last>> after n halvings, or the place
            IF n = 0 THEN <<1, Len(table)>>
            ELSE IF f[n - 1][1] > f[n - 1][2] THEN f[n - 1]
            ELSE LET mid == (f[n - 1][1] + f[n - 1][2]) \div 2
                 IN  IF Compare(mid) > 0 THEN <<f[n - 1][1], mid - 1>>
                     ELSE IF Compare(mid) < 0 THEN <<mid + 1, f[n - 1][2]>> ELSE <<mid, mid>>
        end == f[Len(table) + 1]
    IN  IF end[1] = end[2] /\ Compare(end[1]) = 0 THEN end[1] ELSE NULL
amx_FindPublic(name) == FindName(image.publics, name)
amx_FindPubVar(name) == FindName(image.pubvars, name)
\* do_call: the address of a function is that of its symbol.
do_call(name) == cc.sym[findglb(cc, name)].addr
\* The function whose code starts at an address, "" when none does.
EntryAt(address) ==
    IF address + 1 \in DOMAIN cc.code /\ cc.code[address + 1].op = "proc" THEN cc.code[address + 1].name ELSE ""
StorageAt(address) == IF address + 1 \in DOMAIN cc.data THEN cc.data[address + 1] ELSE ""

\* A call of the code comes to the function of that name, also when its code
\* was written later or a function before it was left out; a native call to
\* the entry of the native table; a load to the cell of the variable.
CalledIsThere ==
    Assembled => /\ NativesAreNumbered
                 /\ Len(cc.code) = cc.code_idx
                 /\ \A i \in DOMAIN cc.code :
                        LET instr == cc.code[i]
                        IN  CASE instr.op = "call" -> EntryAt(do_call(instr.name)) = instr.name
                              [] instr.op = "sysreq" -> image.natives[instr.arg + 1] = instr.name
                              [] instr.op = "load" -> StorageAt(instr.arg) = instr.name
                              [] OTHER -> TRUE
\* The host finds every public function and variable of the program, with the
\* address of its code or cell, whatever order they were declared in.
ExportedFound ==
    Assembled =>
        /\ \A i \in DOMAIN program :
               LET d == program[i]
               IN  /\ d.decl = "function" /\ d.public =>
                          LET at == amx_FindPublic(d.name) IN at # NULL /\ EntryAt(image.publics[at].address) = d.name
                   /\ d.decl = "variable" /\ d.public /\ ~d.stock =>
                          LET at == amx_FindPubVar(d.name) IN at # NULL /\ StorageAt(image.pubvars[at].address) = d.name
        /\ \A i \in DOMAIN image.publics : EntryAt(image.publics[i].address) = image.publics[i].name
        /\ \A i \in DOMAIN image.pubvars : StorageAt(image.pubvars[i].address) = image.pubvars[i].name
\* Every function that the file holds is public, main() or called from a
\* function that the file holds: also what only unused functions use is left out.
NothingDead ==
    Assembled => \A i \in DOMAIN cc.code :
        cc.code[i].op = "proc" =>
            LET name == cc.code[i].name
            IN  \/ name = MAIN \/ Has(cc, findglb(cc, name), "uPUBLIC")
                \/ \E j \in DOMAIN cc.code : cc.code[j].op = "call" /\ cc.code[j].name = name

-----------------------------------------------------------------------------
(* The estimate of the stack (max_stacksize, sc1.c).                       *)

UserFunctions == {s \in Symbols(cc) : cc.sym[s].ident = "iFUNCTN" /\ ~Has(cc, s, "uNATIVE")}
Largest(S) == CHOOSE n \in S : \A m \in S : m <= n
\* Bug: the callers of the callers are not followed.
callersDirect(size, s) == 0
\* What the callers of a function have on the stack at most.
callers(size, s) == Largest({0} \cup {size[r] : r \in cc.sym[s].refer \cap UserFunctions})
\* It adds a zero cell and the number of arguments.
max_stacksize ==
    LET size[n \in 0 .. Cardinality(UserFunctions)] ==
            [s \in UserFunctions |-> cc.sym[s].stacksize + IF n = 0 THEN 0 ELSE callers(size[n - 1], s)]
    IN  Largest({0} \cup Range(size[Cardinality(UserFunctions)])) + 1 + 1

\* What the machine has on the stack before the first instruction: the sentinel that
\* amx_Init writes, the number of arguments and the zero return address of amx_Exec.
OnEntry == 3
ReturnAddress == 1
\* What a call pushes: at least one operand for an operator, the number of
\* arguments, the return address.
Pushed(name) == (IF name = OPERATOR THEN 2 ELSE 1) + ReturnAddress
Caller(i) == Largest({j \in 1 .. i : cc.code[j].op \in {"proc", "halt"}})
Calls(name) == {cc.code[i].name : i \in {j \in DOMAIN cc.code : cc.code[j].op = "call" /\ cc.code[Caller(j)].name = name}}
CallsNative(name) == \E j \in DOMAIN cc.code : cc.code[j].op = "sysreq" /\ cc.code[Caller(j)].name = name
Emitted == {cc.code[i].name : i \in {j \in DOMAIN cc.code : cc.code[j].op = "proc"}}
Reach ==
    LET f[n \in 0 .. Cardinality(Emitted)] ==
            IF n = 0 THEN [name \in Emitted |-> Calls(name)]
            ELSE [name \in Emitted |-> f[n - 1][name] \cup UNION {f[n - 1][g] : g \in f[n - 1][name] \cap Emitted}]
    IN  f[Cardinality(Emitted)]
Recursive == \E name \in Emitted : name \in Reach[name]
\* The deepest chain of calls; each function pushes its frame.
Need ==
    LET f[n \in 0 .. Cardinality(Emitted)] ==
            [name \in Emitted |->
                1 + Largest({0} \cup (IF CallsNative(name) THEN {1} ELSE {})
                                \cup {Pushed(g) + IF n = 0 THEN 0 ELSE f[n - 1][g] : g \in Calls(name) \cap Emitted})]
    IN  OnEntry + Largest({0} \cup Range(f[Cardinality(Emitted)]))
\* The compiler prints no number for a program with recursion.
Estimated == Assembled /\ ~Recursive
\* The "estimated max. usage" that the compiler prints is enough.
StackEstimate == Estimated => max_stacksize >= Need
\* It is short of nothing but the return address of the outermost function:
\* what calls of functions and of user-defined operators push is in it.
OperandsCounted == Estimated => max_stacksize + ReturnAddress >= Need
\* In a program that calls no user-defined operator no chain of calls is missed,
\* in whatever order functions are declared, found unused and left out.
CallsCounted == (\A i \in DOMAIN cc.code : cc.code[i].op = "call" => cc.code[i].name # OPERATOR) => OperandsCounted
=============================================================================
