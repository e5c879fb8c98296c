----------------------------- MODULE DebugInfo -----------------------------
(***************************************************************************)
(* The symbolic information: what the compiler notes while it generates    *)
(* code (insert_dbgfile, insert_dbgline, insert_dbgsymbol in sclist.c),    *)
(* the tables it writes behind the code (append_dbginfo, sc6.c), and the   *)
(* lookups of a debugger in them (amxdbg.c). Addresses are in cells.       *)
(***************************************************************************)
EXTENDS Integers, Sequences, FiniteSets, SequencesExt

CONSTANTS EntryFile, Includes,  \* names of files
          FuncNames, Locals,    \* names of functions, sorted, and of variables
          MaxCells              \* cells of a statement

VARIABLES
    code_idx,
    dbgstrings,     \* the notes, in order
    files,          \* open files, innermost last: name and current line
    curfunc,        \* the function that is compiled, NOFUNC outside
    loctab,         \* its variables, newest first
    functions,      \* the compiled functions, sorted by name
    room,           \* bound: how many events of each kind may still come
    finished,
    places          \* ghost: where statements really are
debugVars == <<code_idx, dbgstrings, files, curfunc, loctab, functions, room, finished, places>>

NOFUNC == [name |-> "", addr |-> 0, nestlevel |-> 0, skipped |-> FALSE]
inpfname == Last(files).name
fline == Last(files).line
Spend(kind) == room[kind] > 0 /\ room' = [room EXCEPT ![kind] = @ - 1]

\* Nothing is noted of a function that is skipped (statSKIP).
Noting == ~curfunc.skipped
insert_dbgfile(name) == [kind |-> "F", addr |-> code_idx, name |-> name]
insert_dbgline(linenr) == [kind |-> "L", addr |-> code_idx, line |-> linenr - 1]
\* A function notes where it is, a variable from its declaration to here.
insert_dbgsymbol(s, here) ==
    [kind |-> "S", name |-> s.name, ident |-> s.ident, codestart |-> s.codestart,
     codeend |-> IF s.ident = "iFUNCTN" THEN s.codeend ELSE here]
\* The symbols of the blocks at level and deeper, in the order of the table.
testsymbols(table, level, here) ==
    LET tested == SelectSeq(table, LAMBDA s : s.compound >= level)
    IN  IF Noting THEN [i \in DOMAIN tested |-> insert_dbgsymbol(tested[i], here)] ELSE << >>

DebugInit ==
    /\ code_idx = 1                 \* "halt 0" of writeleader
    /\ files = <<[name |-> EntryFile, line |-> 0]>>
    /\ dbgstrings = <<insert_dbgfile(EntryFile)>>
    /\ curfunc = NOFUNC /\ loctab = << >> /\ functions = << >>
    /\ finished = FALSE /\ places = {}

\* #include between functions, and the end of the included file.
plungequalifiedfile ==
    /\ ~finished /\ curfunc = NOFUNC /\ Spend("files")
    /\ \E name \in Includes :
           /\ files' = Append(files, [name |-> name, line |-> 0])
           /\ dbgstrings' = Append(dbgstrings, insert_dbgfile(name))
    /\ UNCHANGED <<code_idx, curfunc, loctab, functions, finished, places>>
readline_pop ==
    /\ ~finished /\ curfunc = NOFUNC /\ Len(files) > 1
    /\ files' = Front(files)
    /\ dbgstrings' = Append(dbgstrings, insert_dbgfile(files'[Len(files')].name))
    /\ UNCHANGED <<code_idx, curfunc, loctab, functions, room, finished, places>>

Local(v, level, addr) == [name |-> v, ident |-> "iVARIABLE", codestart |-> addr, compound |-> level]
NextLine == files' = [files EXCEPT ![Len(files)].line = @ + 1]
Place(addr, func) == [addr |-> addr, file |-> inpfname, line |-> fline, func |-> func]
\* newfunc: PROC, and BREAK with the line of the function. The code of a
\* function that nobody refers to is skipped.
newfunc ==
    /\ ~finished /\ curfunc = NOFUNC /\ Spend("funcs") /\ NextLine
    /\ \E f \in ToSet(FuncNames) \ {functions[i].name : i \in DOMAIN functions}, skip \in BOOLEAN :
           /\ curfunc' = [name |-> f, addr |-> code_idx, nestlevel |-> 1, skipped |-> skip]
           /\ loctab' \in {<< >>} \cup {<<Local(v, 0, code_idx)>> : v \in Locals}   \* its argument
           /\ IF skip THEN UNCHANGED <<dbgstrings, places>>
              ELSE /\ dbgstrings' = Append(dbgstrings, [insert_dbgline(fline + 1) EXCEPT !.addr = @ + 1])
                   /\ places' = places \cup {Place(code_idx + 1, f)}
    /\ code_idx' = code_idx + 2
    /\ UNCHANGED <<functions, finished>>
\* A statement, on a line of its own or behind another one: BREAK, its code.
Statement(cells) ==
    \E same \in BOOLEAN :
        LET line == fline + IF same THEN 0 ELSE 1
        IN  /\ files' = [files EXCEPT ![Len(files)].line = line]
            /\ code_idx' = code_idx + cells
            /\ IF Noting
               THEN /\ dbgstrings' = Append(dbgstrings, insert_dbgline(line))
                    /\ places' = places \cup {[Place(code_idx, curfunc.name) EXCEPT !.line = line - 1]}
               ELSE UNCHANGED <<dbgstrings, places>>
statement ==
    /\ ~finished /\ curfunc # NOFUNC /\ curfunc.nestlevel > 0 /\ Spend("lines")
    /\ \E cells \in 1 .. MaxCells : Statement(cells)
    /\ UNCHANGED <<curfunc, loctab, functions, finished>>
declloc ==
    /\ ~finished /\ curfunc # NOFUNC /\ curfunc.nestlevel > 0 /\ Spend("locals")
    /\ \E v \in Locals :
           /\ \A i \in DOMAIN loctab : loctab[i].name = v => loctab[i].compound < curfunc.nestlevel
           /\ loctab' = <<Local(v, curfunc.nestlevel, code_idx + 1)>> \o loctab
    /\ Statement(2)
    /\ UNCHANGED <<curfunc, functions, finished>>
compound ==
    /\ ~finished /\ curfunc # NOFUNC /\ curfunc.nestlevel > 0 /\ Spend("blocks")
    /\ curfunc' = [curfunc EXCEPT !.nestlevel = @ + 1]
    /\ UNCHANGED <<code_idx, dbgstrings, files, loctab, functions, finished, places>>
\* The end of a block: its variables are taken off the stack, noted, forgotten.
Close(level, addr) ==
    LET ends == SelectSeq(loctab, LAMBDA s : s.compound >= level)
    IN  /\ dbgstrings' = dbgstrings \o testsymbols(ends, level, addr)
        /\ loctab' = SelectSeq(loctab, LAMBDA s : s.compound < level)
EndBlock ==
    LET addr == code_idx + IF loctab # << >> /\ loctab[1].compound = curfunc.nestlevel THEN 1 ELSE 0
    IN  /\ ~finished /\ curfunc # NOFUNC /\ curfunc.nestlevel > 0
        /\ Close(curfunc.nestlevel, addr) /\ code_idx' = addr
        /\ curfunc' = [curfunc EXCEPT !.nestlevel = @ - 1]
        /\ UNCHANGED <<files, functions, room, finished, places>>
\* RETN; the arguments end; then the code of a skipped function is taken back.
EndFunc ==
    LET retn == code_idx + 1
        f == [name |-> curfunc.name, ident |-> "iFUNCTN", codestart |-> curfunc.addr, codeend |-> retn,
              compound |-> 0]
        all == ToSet(functions) \cup {f}
    IN  /\ ~finished /\ curfunc # NOFUNC /\ curfunc.nestlevel = 0
        /\ Close(0, retn)
        /\ code_idx' = IF curfunc.skipped THEN curfunc.addr ELSE retn
        /\ functions' = IF curfunc.skipped THEN functions
                        ELSE SelectSeq([i \in DOMAIN FuncNames |->
                                  IF \E g \in all : g.name = FuncNames[i]
                                  THEN CHOOSE g \in all : g.name = FuncNames[i] ELSE NOFUNC],
                                  LAMBDA g : g # NOFUNC)
        /\ curfunc' = NOFUNC
        /\ UNCHANGED <<files, room, finished, places>>
Finish ==
    /\ ~finished /\ curfunc = NOFUNC /\ Len(files) = 1 /\ functions # << >>
    /\ finished' = TRUE
    /\ dbgstrings' = dbgstrings \o testsymbols(functions, 0, code_idx)
    /\ UNCHANGED <<code_idx, files, curfunc, loctab, functions, room, places>>

DebugNext == \/ plungequalifiedfile \/ readline_pop \/ newfunc \/ statement \/ declloc
             \/ compound \/ EndBlock \/ EndFunc \/ Finish

-----------------------------------------------------------------------------
\* The table of files: only the last file that was noted for an address, its
\* name is written when the next address comes, or the end.
\* Bug: the name of the first file that was noted for an address.
FileTableFirst(dbg) ==
    LET noted == SelectSeq(dbg, LAMBDA e : e.kind = "F")
        first == SelectSeq([i \in DOMAIN noted |-> i], LAMBDA i : \A j \in 1 .. i - 1 : noted[j].addr # noted[i].addr)
    IN  [i \in DOMAIN first |-> noted[first[i]]]
FileTable(dbg) ==
    LET noted == SelectSeq(dbg, LAMBDA e : e.kind = "F")
        last == SelectSeq([i \in DOMAIN noted |-> i],
                          LAMBDA i : i = Len(noted) \/ noted[i + 1].addr # noted[i].addr)
    IN  [i \in DOMAIN last |-> noted[last[i]]]
append_dbginfo(dbg) ==
    [files |-> FileTable(dbg), lines |-> SelectSeq(dbg, LAMBDA e : e.kind = "L"),
     symbols |-> SelectSeq(dbg, LAMBDA e : e.kind = "S")]

NOTFOUND == << >>
First(S) == CHOOSE i \in S : \A j \in S : i <= j
\* Linear lookups: the entry before the first one that is beyond the address.
Before(table, address) ==
    LET beyond == {i \in DOMAIN table : table[i].addr > address}
    IN  IF beyond = {} THEN Len(table) ELSE First(beyond) - 1
dbg_LookupFile(t, address) ==
    LET i == Before(t.files, address) IN IF i = 0 THEN NOTFOUND ELSE <<t.files[i].name>>
dbg_LookupLine(t, address) ==
    LET i == Before(t.lines, address) IN IF i = 0 THEN NOTFOUND ELSE <<t.lines[i].line>>
dbg_LookupFunction(t, address) ==
    LET inside == {i \in DOMAIN t.symbols : /\ t.symbols[i].ident = "iFUNCTN"
                                            /\ t.symbols[i].codestart <= address /\ t.symbols[i].codeend > address}
    IN  IF inside = {} THEN NOTFOUND ELSE <<t.symbols[First(inside)].name>>

\* From i on, the first line that the loop does not pass, Len + 1 if none.
From(t, i, Passed(_)) ==
    LET stop == {k \in i .. Len(t.lines) : ~Passed(t.lines[k])}
    IN  IF stop = {} THEN Len(t.lines) + 1 ELSE First(stop)
\* Bug: the lines in front of the file are not skipped.
dbg_GetLineAddressAny(t, line, filename) ==
    LET index == From(t, 1, LAMBDA l : l.line < line)
    IN  IF index > Len(t.lines) THEN NOTFOUND ELSE <<t.lines[index].addr>>
\* The instances of the file one after the other; "undefined" behind the last
\* one, where the function reads an entry of the table that is not there.
dbg_GetLineAddress(t, line, filename) ==
    LET Instance(acc, file) ==
            LET bottom == t.files[file].addr
                Below(l) == l.addr < bottom
                first == From(t, acc.index, Below)
                Passed(l) == l.line < line /\ (file < Len(t.files) => l.addr < t.files[file + 1].addr)
                index == From(t, first, Passed)
            IN  IF acc.done \/ t.files[file].name # filename THEN acc
                ELSE IF index > Len(t.lines) THEN [index |-> index, done |-> TRUE, result |-> NOTFOUND]
                ELSE IF t.lines[index].line >= line
                     THEN [index |-> index, done |-> TRUE, result |-> <<t.lines[index].addr>>]
                ELSE [acc EXCEPT !.index = index]
    IN  FoldLeft(Instance, [index |-> 1, done |-> FALSE, result |-> <<"undefined">>],
                 [i \in DOMAIN t.files |-> i]).result

\* The first function of the name whose address is in any file, and the first
\* line behind its start.
dbg_GetFunctionAddress(t, funcname) ==
    LET named == {i \in DOMAIN t.symbols : /\ t.symbols[i].ident = "iFUNCTN" /\ t.symbols[i].name = funcname
                                           /\ dbg_LookupFile(t, t.symbols[i].codestart) # NOTFOUND}
        index == From(t, 1, LAMBDA l : l.addr < t.symbols[First(named)].codestart)
    IN  IF named = {} \/ index > Len(t.lines) THEN NOTFOUND ELSE <<t.lines[index].addr>>

-----------------------------------------------------------------------------
Info == append_dbginfo(dbgstrings)
\* Wherever the program stops, the debugger shows the file, the line and the
\* function of the statement: whatever was included or skipped before it, and
\* when several files were entered and left at one address.
PlaceFound ==
    finished => LET t == Info
                IN  \A p \in places : /\ dbg_LookupFile(t, p.addr) = <<p.file>>
                                       /\ dbg_LookupLine(t, p.addr) = <<p.line>>
                                       /\ dbg_LookupFunction(t, p.addr) = <<p.func>>
\* "The address is moved up to the next breakable line": a breakpoint on a
\* line of a file that was included once, or on a function, is on its first
\* statement there.
BreakpointFound ==
    finished => LET t == Info
                    Once(f) == Cardinality({i \in DOMAIN t.files : t.files[i].name = f}) = 1
                    FirstOf(P) == <<First({p.addr : p \in P})>>
                IN  \A p \in places :
                        /\ Once(p.file) => dbg_GetLineAddress(t, p.line, p.file) =
                               FirstOf({q \in places : q.file = p.file /\ q.line >= p.line})
                        /\ dbg_GetFunctionAddress(t, p.func) = FirstOf({q \in places : q.func = p.func})
=============================================================================
