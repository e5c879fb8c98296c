------------------------------ MODULE Machine ------------------------------
(***************************************************************************)
(* What the instructions that the compiler emits do to the two registers,  *)
(* the stack, the heap and the cells of the data segment (amx_exec.c),     *)
(* when nothing goes wrong: AmxExec models the checks, the errors and the  *)
(* calls of the host.  Code is a sequence of lines as the assembler reads  *)
(* them: labels and comments are lines that do nothing, a jump names its   *)
(* label and a call its function.                                          *)
(***************************************************************************)
EXTENDS Integers, Sequences, SequencesExt, Bitwise

CONSTANTS
    Cells,      \* the addresses of the data segment, multiples of CELL
    FUEL        \* how many instructions a run may take

CELL == 4
\* The bitwise instructions work on this many bits.
BITS == 16

\* A machine that executes line 1 of some code.
Started(pri, alt, frm, stk, hea, mem) ==
    [pri |-> pri, alt |-> alt, frm |-> frm, stk |-> stk, hea |-> hea, mem |-> mem,
     cip |-> 1, calls |-> << >>, status |-> "run"]

Signed(x) == IF x >= 2 ^ (BITS - 1) THEN x - 2 ^ BITS ELSE x
Unsigned(x) == x % 2 ^ BITS
BitAnd(a, b) == Signed(Unsigned(a) & Unsigned(b))
BitOr(a, b) == Signed(Unsigned(a) | Unsigned(b))
BitXor(a, b) == Signed(Unsigned(a) ^^ Unsigned(b))
\* Floored division and its remainder.
FloorDiv(a, b) == IF b > 0 THEN a \div b ELSE (-a) \div (-b)
FloorMod(a, b) == a - b * FloorDiv(a, b)
Bool(p) == IF p THEN 1 ELSE 0

\* Bytes of a cell, the first in the lowest byte, and the address of a byte
\* the other way round (ALIGN.pri).
Byte(mem, a) == (mem[a - (a % CELL)] \div 256 ^ (a % CELL)) % 256
WithByte(mem, a, b) == mem[a - (a % CELL)] + ((b % 256) - Byte(mem, a)) * 256 ^ (a % CELL)
Aligned(a, n) == IF n < CELL THEN (a - (a % CELL)) + BitXor(a % CELL, CELL - n) ELSE a

\* Instructions that compute a new PRI, or a new ALT, and do nothing else;
\* n is the operand.
PriOf(m, op, n) ==
    CASE op = "load.pri" -> m.mem[n]
      [] op = "load.s.pri" -> m.mem[m.frm + n]
      [] op = "lref.pri" -> m.mem[m.mem[n]]
      [] op = "lref.s.pri" -> m.mem[m.mem[m.frm + n]]
      [] op = "load.i" -> m.mem[m.pri]
      [] op = "lodb.i" -> Byte(m.mem, m.pri)
      [] op = "const.pri" -> n
      [] op = "addr.pri" -> m.frm + n
      [] op = "lidx" -> m.mem[m.alt + m.pri * CELL]
      [] op = "lidx.b" -> m.mem[m.alt + m.pri * 2 ^ n]
      [] op = "idxaddr" -> m.alt + m.pri * CELL
      [] op = "idxaddr.b" -> m.alt + m.pri * 2 ^ n
      [] op = "align.pri" -> Aligned(m.pri, n)
      [] op = "lctrl" -> m.frm
      [] op = "move.pri" -> m.alt
      [] op = "shl" -> m.pri * 2 ^ m.alt
      [] op = "sshr" -> m.pri \div 2 ^ m.alt
      [] op = "shr" -> Unsigned(m.pri) \div 2 ^ m.alt
      [] op = "shl.c.pri" -> m.pri * 2 ^ n
      [] op = "shr.c.pri" -> m.pri \div 2 ^ n
      [] op = "smul" -> m.pri * m.alt
      [] op = "add" -> m.pri + m.alt
      [] op = "sub" -> m.pri - m.alt
      [] op = "sub.alt" -> m.alt - m.pri
      [] op = "and" -> BitAnd(m.pri, m.alt)
      [] op = "or" -> BitOr(m.pri, m.alt)
      [] op = "xor" -> BitXor(m.pri, m.alt)
      [] op = "not" -> Bool(m.pri = 0)
      [] op = "neg" -> -m.pri
      [] op = "invert" -> -1 - m.pri
      [] op = "add.c" -> m.pri + n
      [] op = "smul.c" -> m.pri * n
      [] op = "zero.pri" -> 0
      [] op = "eq" -> Bool(m.pri = m.alt)
      [] op = "neq" -> Bool(m.pri # m.alt)
      [] op = "sless" -> Bool(m.pri < m.alt)
      [] op = "sleq" -> Bool(m.pri <= m.alt)
      [] op = "sgrtr" -> Bool(m.pri > m.alt)
      [] op = "sgeq" -> Bool(m.pri >= m.alt)
      [] op = "eq.c.pri" -> Bool(m.pri = n)
      [] op = "inc.pri" -> m.pri + 1
      [] op = "dec.pri" -> m.pri - 1
PriOps == {"load.pri", "load.s.pri", "lref.pri", "lref.s.pri", "load.i", "lodb.i", "const.pri",
    "addr.pri", "lidx", "lidx.b", "idxaddr", "idxaddr.b", "align.pri", "lctrl", "move.pri", "shl",
    "sshr", "shr", "shl.c.pri", "shr.c.pri", "smul", "add", "sub", "sub.alt", "and", "or", "xor",
    "not", "neg", "invert", "add.c", "smul.c", "zero.pri", "eq", "neq", "sless", "sleq", "sgrtr",
    "sgeq", "eq.c.pri", "inc.pri", "dec.pri"}
AltOf(m, op, n) ==
    CASE op = "load.alt" -> m.mem[n]
      [] op = "load.s.alt" -> m.mem[m.frm + n]
      [] op = "lref.alt" -> m.mem[m.mem[n]]
      [] op = "lref.s.alt" -> m.mem[m.mem[m.frm + n]]
      [] op = "const.alt" -> n
      [] op = "addr.alt" -> m.frm + n
      [] op = "move.alt" -> m.pri
      [] op = "shl.c.alt" -> m.alt * 2 ^ n
      [] op = "zero.alt" -> 0
AltOps == {"load.alt", "load.s.alt", "lref.alt", "lref.s.alt", "const.alt", "addr.alt", "move.alt",
    "shl.c.alt", "zero.alt"}

\* Instructions that store one cell: where and what.
StoreOf(m, l) ==
    LET op == l[1]  n == IF Len(l) > 1 THEN l[2] ELSE 0 IN
    CASE op = "stor.pri" -> <<n, m.pri>>
      [] op = "stor.s.pri" -> <<m.frm + n, m.pri>>
      [] op = "sref.s.pri" -> <<m.mem[m.frm + n], m.pri>>
      [] op = "stor.i" -> <<m.alt, m.pri>>
      [] op = "strb.i" -> <<m.alt - (m.alt % CELL), WithByte(m.mem, m.alt, m.pri)>>
      [] op = "zero" -> <<n, 0>>
      [] op = "zero.s" -> <<m.frm + n, 0>>
      [] op = "const" -> <<n, l[3]>>
      [] op = "const.s" -> <<m.frm + n, l[3]>>
      [] op = "inc" -> <<n, m.mem[n] + 1>>
      [] op = "inc.s" -> <<m.frm + n, m.mem[m.frm + n] + 1>>
      [] op = "inc.i" -> <<m.pri, m.mem[m.pri] + 1>>
      [] op = "dec" -> <<n, m.mem[n] - 1>>
      [] op = "dec.s" -> <<m.frm + n, m.mem[m.frm + n] - 1>>
      [] op = "dec.i" -> <<m.pri, m.mem[m.pri] - 1>>
StoreOps == {"stor.pri", "stor.s.pri", "sref.s.pri", "stor.i", "strb.i", "zero", "zero.s", "const",
    "const.s", "inc", "inc.s", "inc.i", "dec", "dec.s", "dec.i"}

\* Instructions that push: the values, in their order.
Pushed(m, l) ==
    LET op == l[1]
        Operands == [k \in 1 .. Len(l) - 1 |-> l[k + 1]]
        Map(F(_)) == [k \in DOMAIN Operands |-> F(Operands[k])]
    IN  CASE op = "push.pri" -> <<m.pri>>
          [] op = "push.alt" -> <<m.alt>>
          [] op \in {"push.c", "push2.c", "push3.c", "push4.c", "push5.c"} -> Operands
          [] op \in {"push", "push2", "push3", "push4", "push5"} -> Map(LAMBDA n : m.mem[n])
          [] op \in {"push.s", "push2.s", "push3.s", "push4.s", "push5.s"} ->
                Map(LAMBDA n : m.mem[m.frm + n])
          [] op \in {"push.adr", "push2.adr", "push3.adr", "push4.adr", "push5.adr"} ->
                Map(LAMBDA n : m.frm + n)
PushOps == {"push.pri", "push.alt"} \cup
    { p \o s : p \in {"push", "push2", "push3", "push4", "push5"}, s \in {"", ".c", ".s", ".adr"} }
Push(m, values) ==
    [m EXCEPT !.stk = @ - CELL * Len(values),
              !.mem = [a \in Cells |->
                  IF a < m.stk /\ a >= m.stk - CELL * Len(values)
                  THEN values[(m.stk - a) \div CELL] ELSE @[a]]]

JumpOps == {"jump", "jzer", "jnz", "jeq", "jneq", "jsless", "jsleq", "jsgrtr", "jsgeq"}
Jumps(m, op) ==
    CASE op = "jump" -> TRUE
      [] op = "jzer" -> m.pri = 0
      [] op = "jnz" -> m.pri # 0
      [] op = "jeq" -> m.pri = m.alt
      [] op = "jneq" -> m.pri # m.alt
      [] op = "jsless" -> m.pri < m.alt
      [] op = "jsleq" -> m.pri <= m.alt
      [] op = "jsgrtr" -> m.pri > m.alt
      [] op = "jsgeq" -> m.pri >= m.alt

Line(code, l) == CHOOSE i \in DOMAIN code : code[i] = l
Label(n) == <<"l.", n>>
\* A native: it returns a number that tells its arguments and the calls
\* before this one, and it changes no memory.
Native(m, f, args) == Len(m.calls) * 3 + f + (IF args = << >> THEN 0 ELSE args[1])
CallNative(m, f) ==
    LET count == m.mem[m.stk] \div CELL
        args == [k \in 1 .. count |-> m.mem[m.stk + CELL * k]]
    IN  [m EXCEPT !.calls = Append(@, <<f, args>>), !.pri = Native(m, f, args)]
\* The table of a switch follows its CASETBL line: the default, then the rows.
CaseOf(m, code, at) ==
    LET rows == {k \in at + 2 .. Len(code) :
                    /\ code[k][1] = "case" /\ code[k][2] = m.pri
                    /\ \A j \in at + 2 .. k : code[j][1] = "case"}
    IN  IF rows = {} THEN code[at + 1][3] ELSE code[CHOOSE k \in rows : TRUE][3]

\* One instruction; m.cip is already that of the next one.
Effect(m, code, l) ==
    LET op == l[1]  n == IF Len(l) > 1 THEN l[2] ELSE 0 IN
    CASE op \in PriOps -> [m EXCEPT !.pri = PriOf(m, op, n)]
      [] op \in AltOps -> [m EXCEPT !.alt = AltOf(m, op, n)]
      [] op \in StoreOps -> [m EXCEPT !.mem[StoreOf(m, l)[1]] = StoreOf(m, l)[2]]
      [] op \in PushOps -> Push(m, Pushed(m, l))
      [] op \in JumpOps -> IF Jumps(m, op) THEN [m EXCEPT !.cip = Line(code, Label(n))] ELSE m
      [] op = "xchg" -> [m EXCEPT !.pri = m.alt, !.alt = m.pri]
      [] op \in {"load.both", "load.s.both"} ->
            LET base == IF op = "load.both" THEN 0 ELSE m.frm
            IN  [m EXCEPT !.pri = m.mem[base + n], !.alt = m.mem[base + l[3]]]
      [] op = "pop.pri" -> [m EXCEPT !.pri = m.mem[m.stk], !.stk = @ + CELL]
      [] op = "pop.alt" -> [m EXCEPT !.alt = m.mem[m.stk], !.stk = @ + CELL]
      [] op = "swap.pri" -> [m EXCEPT !.pri = m.mem[m.stk], !.mem[m.stk] = m.pri]
      [] op = "swap.alt" -> [m EXCEPT !.alt = m.mem[m.stk], !.mem[m.stk] = m.alt]
      [] op = "stack" -> [m EXCEPT !.alt = m.stk, !.stk = @ + n]
      [] op = "heap" -> [m EXCEPT !.alt = m.hea, !.hea = @ + n]
      [] op = "sctrl" -> [m EXCEPT !.stk = m.pri]
      [] op = "sdiv.alt" ->
            IF m.pri = 0 THEN [m EXCEPT !.status = "AMX_ERR_DIVIDE"]
            ELSE [m EXCEPT !.pri = FloorDiv(m.alt, m.pri), !.alt = FloorMod(m.alt, m.pri)]
      [] op = "bounds" -> IF m.pri \in 0 .. n THEN m ELSE [m EXCEPT !.status = "AMX_ERR_BOUNDS"]
      [] op = "movs" ->
            [m EXCEPT !.mem = [a \in Cells |-> IF a >= m.alt /\ a < m.alt + n
                                               THEN @[a - m.alt + m.pri] ELSE @[a]]]
      [] op = "fill" ->
            [m EXCEPT !.mem = [a \in Cells |-> IF a >= m.alt /\ a < m.alt + n THEN m.pri ELSE @[a]]]
      [] op = "halt" -> [m EXCEPT !.status = "halt"]
      [] op = "proc" -> [Push(m, <<m.frm>>) EXCEPT !.frm = m.stk - CELL]
      [] op = "call" -> [Push(m, <<m.cip>>) EXCEPT !.cip = n]
      [] op = "retn" ->
            LET back == m.mem[m.stk + CELL]
                params == m.mem[m.stk + 2 * CELL]
            IN  [m EXCEPT !.frm = m.mem[m.stk], !.cip = back,
                          !.stk = @ + 3 * CELL + params,
                          !.status = IF back = 0 THEN "return" ELSE @]
      [] op = "ret" -> [m EXCEPT !.frm = m.mem[m.stk], !.cip = m.mem[m.stk + CELL], !.stk = @ + 2 * CELL]
      [] op = "sysreq.c" -> CallNative(m, n)
      [] op = "sysreq.n" ->
            LET pushed == Push(m, <<l[3]>>)
            IN  [CallNative(pushed, n) EXCEPT !.stk = @ + l[3] + CELL]
      [] op = "switch" -> [m EXCEPT !.cip = Line(code, Label(CaseOf(m, code, Line(code, Label(n)) + 1)))]
      [] OTHER -> m                  \* labels, comments, BREAK and NOP

\* An instruction that reads or writes outside the data is an error.
Reads(m, l) ==
    LET op == l[1]  n == IF Len(l) > 1 THEN l[2] ELSE 0 IN
    CASE op = "load.i" -> {m.pri}
      [] op = "lodb.i" -> {m.pri - (m.pri % CELL)}
      [] op = "lidx" -> {m.alt + m.pri * CELL}
      [] op = "lidx.b" -> {m.alt + m.pri * 2 ^ n}
      [] op = "stor.i" -> {m.alt}
      [] op = "strb.i" -> {m.alt - (m.alt % CELL)}
      [] op \in {"inc.i", "dec.i"} -> {m.pri}
      [] op = "lref.s.pri" -> {m.mem[m.frm + n]}
      [] op = "lref.s.alt" -> {m.mem[m.frm + n]}
      [] op = "sref.s.pri" -> {m.mem[m.frm + n]}
      [] op = "movs" -> {m.alt + k * CELL : k \in 0 .. n \div CELL - 1}
                        \cup {m.pri + k * CELL : k \in 0 .. n \div CELL - 1}
      [] OTHER -> {}
Step(m, code) ==
    LET l == code[m.cip]  next == [m EXCEPT !.cip = @ + 1]
    IN  IF m.cip \notin DOMAIN code THEN [m EXCEPT !.status = "AMX_ERR_MEMACCESS"]
        ELSE IF Reads(m, l) \subseteq Cells THEN Effect(next, code, l)
        ELSE [m EXCEPT !.status = "AMX_ERR_MEMACCESS"]

\* A run until something stops it.
RECURSIVE Run(_, _, _)
Run(m, code, fuel) ==
    IF m.status # "run" THEN m
    ELSE IF fuel = 0 THEN [m EXCEPT !.status = "fuel"]
    ELSE Run(Step(m, code), code, fuel - 1)
=============================================================================
