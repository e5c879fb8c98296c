-------------------------------- MODULE Cores --------------------------------
(***************************************************************************)
(* The instruction set, as the two C interpreters of the repository        *)
(* execute it: the default one (amx/amx_exec.c), which checks every        *)
(* address that a program computes, and the one of earlier releases        *)
(* (amx/amx.c, AMX_USE_NEW_AMXEXEC not defined), which checks few.  Both   *)
(* execute the same instruction on the same machine, one after the other.  *)
(*                                                                         *)
(* A cell has CELL bytes of BYTE values.  A machine is a record of the     *)
(* registers, the data, what the host can read in the AMX structure (out), *)
(* and how the run ended.  cip is the next opcode, in a handler what is    *)
(* behind the opcode.  An instruction has an operation, the register it is *)
(* about, its operands, a case table, and what a native function or the    *)
(* debug hook answers.                                                     *)
(***************************************************************************)
EXTENDS Integers, Sequences, SequencesExt, FiniteSets, FiniteSetsExt

CONSTANTS BYTE,          \* values of a byte
          Hlw, Stp,      \* where the heap starts and the stack ends
          STKMARGIN, CodeSize, Starts, Cod, Dat,  \* Starts: the bits of amx->instr_addresses
          ResetStk, ResetHea,                     \* what amx_Exec was entered with
          SWITCH_LINEAR, \* case tables up to this length are searched record by record
          BitAnd(_, _), BitOr(_, _), BitXor(_, _),         \* of the bits of two numbers
          Machines, Instructions(_)               \* where a run may be, and what may be next there

CELL == 4
WORD == BYTE * BYTE * BYTE * BYTE
BITS == CHOOSE b \in 1 .. 64 : 2 ^ b = WORD
SMALLEST == 0 - WORD \div 2
RUNNING == 0 - 1
UNDEFINED == 99          \* the C standard leaves open what happens
AMX_ERR_STACKERR == 3
AMX_ERR_BOUNDS == 4
AMX_ERR_MEMACCESS == 5
AMX_ERR_STACKLOW == 7
AMX_ERR_HEAPLOW == 8
AMX_ERR_DIVIDE == 11
AMX_ERR_SLEEP == 12

VARIABLES machine,       \* before the instruction
          executed,      \* the instruction, or none
          checked, classic   \* the machine after it, in each core
coreVars == <<machine, executed, checked, classic>>

-----------------------------------------------------------------------------
(* Cells are signed, and wrap; bytes of a cell are in the data, the lowest first. *)
U(x) == x % WORD
Cell(x) == IF U(x) >= WORD \div 2 THEN U(x) - WORD ELSE U(x)
Byte(mem, a) == IF a \in DOMAIN mem THEN mem[a] ELSE 0
Fetch(mem, a, n) ==
  LET part(k) == IF k < n THEN Byte(mem, a + k) * (BYTE ^ k) ELSE 0
  IN Cell(part(0) + part(1) + part(2) + part(3))
Store(mem, a, v, n) == [b \in DOMAIN mem |-> IF b \in a .. a + n - 1 THEN (U(v) \div (BYTE ^ (b - a))) % BYTE ELSE mem[b]]
_R(m, a) == Fetch(m.mem, a, CELL)
_W(m, a, v) == [m EXCEPT !.mem = Store(m.mem, a, v, CELL)]
\* n bytes from a on, cell by cell the same value.
Filled(mem, a, v, n) == [b \in DOMAIN mem |-> IF b \in a .. a + n - 1 THEN (U(v) \div (BYTE ^ ((b - a) % CELL))) % BYTE ELSE mem[b]]

\* What an arithmetic operation leaves in a register, shared by the cores: the expressions are the same C.
Flag(b) == IF b THEN 1 ELSE 0
ABS(x) == IF x < 0 THEN 0 - x ELSE x
Truncated(a, b) == LET q == ABS(a) \div ABS(b) IN IF (a < 0) = (b < 0) THEN q ELSE 0 - q
Floored(q, r, d) == IF r # 0 /\ (r < 0) # (d < 0) THEN [pri |-> Cell(q - 1), alt |-> r + d] ELSE [pri |-> q, alt |-> r]
\* SDIV divides the quotient once more: its remainder is not that of the dividend.
SDIV(pri, alt) == LET q == Truncated(pri, alt) IN Floored(q, q - (Truncated(q, alt) * alt), alt)
SDIV_ALT(pri, alt) == LET q == Truncated(alt, pri) IN Floored(q, alt - (q * pri), pri)
UDIV(a, b) == [pri |-> Cell(U(a) \div U(b)), alt |-> Cell(U(a) % U(b))]
Shifted(op, x, n) == CASE op = "shl" -> Cell(x * (2 ^ n)) [] op = "shr" -> Cell(U(x) \div (2 ^ n)) [] op = "sshr" -> x \div (2 ^ n)
Related(op, a, b) ==
  CASE op = "eq" -> a = b [] op = "neq" -> a # b
    [] op = "less" -> U(a) < U(b) [] op = "leq" -> U(a) <= U(b) [] op = "grtr" -> U(a) > U(b) [] op = "geq" -> U(a) >= U(b)
    [] op = "sless" -> a < b [] op = "sleq" -> a <= b [] op = "sgrtr" -> a > b [] op = "sgeq" -> a >= b
Relations == {"eq", "neq", "less", "leq", "grtr", "geq", "sless", "sleq", "sgrtr", "sgeq"}
Signed(x) == IF x % BYTE >= BYTE \div 2 THEN (x % BYTE) - BYTE ELSE x
Aligned(x, n) == IF n < CELL THEN Cell(BitXor(U(x), CELL - n)) ELSE x
Overlap(a, b, n) == a # b /\ (a .. a + n - 1) \cap (b .. b + n - 1) # {}
Copied(mem, to, from, n) == [b \in DOMAIN mem |-> IF b \in to .. to + n - 1 THEN Byte(mem, from + b - to) ELSE mem[b]]
Compared(mem, a, b, n) ==
  LET differ == {k \in 0 .. n - 1 : Byte(mem, a + k) # Byte(mem, b + k)}
      k == Min(differ)
  IN IF differ = {} THEN 0 ELSE IF Byte(mem, a + k) < Byte(mem, b + k) THEN -1 ELSE 1
\* The cells of a case table behind its length: the label for no match, then value and label of each record.
Flat(table) == <<0, table.none>> \o FlattenSeq(table.cases)

Running(m) == m.end = RUNNING
Ended(m, error) == [m EXCEPT !.end = error]
Set(m, reg, v) == [m EXCEPT ![reg] = v]
Both(m, r) == [m EXCEPT !.pri = r.pri, !.alt = r.alt]

-----------------------------------------------------------------------------
(* The default core.  Its macros: *)
\* Mutant: the cell on top of the stack is refused.
AboveTop(m, o) == Cell(m.frm + o) >= Stp \/ Cell(m.frm + o) <= m.stk
IS_INVALID_STACK_OFFS(m, o) == Cell(m.frm + o) >= Stp \/ Cell(m.frm + o) < m.stk
\* Mutant: the free memory between heap and stack is taken for accessible.
BelowTop(m, a) == U(a) >= Stp
IS_INVALID_DATA_STACK_HEAP_OFFS(m, a) == (a >= m.hea /\ a < m.stk) \/ U(a) >= Stp
IS_INVALID_CODE_OFFS(a) == U(a) >= CodeSize \/ U(a) % CELL # 0
\* abort_exec: the stack and the heap of the caller are set back.
Abort(m, error) == [m EXCEPT !.end = error, !.out.stk = ResetStk, !.out.hea = ResetHea, !.out.frm = m.frm]
Unless(bad, error, m, next) == IF bad THEN Abort(m, error) ELSE next
CHKMARGIN(m) == IF ~Running(m) THEN m
                ELSE IF m.hea + STKMARGIN >= WORD \div 2 THEN Ended(m, UNDEFINED)
                ELSE Unless(m.hea + STKMARGIN > m.stk, AMX_ERR_STACKERR, m, m)
CHKPUSH(m) == Unless(m.hea > m.stk, AMX_ERR_STACKERR, m, m)
\* Mutant: the other way round.
CHKSTACKLow(m) == IF Running(m) THEN Unless(m.stk < m.hea, AMX_ERR_STACKLOW, m, m) ELSE m
CHKSTACK(m) == IF Running(m) THEN Unless(m.stk > Stp, AMX_ERR_STACKLOW, m, m) ELSE m
CHKHEAP(m) == IF Running(m) THEN Unless(m.hea < Hlw, AMX_ERR_HEAPLOW, m, m) ELSE m
ALLOCSTACK(m, n) == CHKPUSH([m EXCEPT !.stk = m.stk - (n * CELL)])
FREESTACK(m, n) == CHKSTACK([m EXCEPT !.stk = m.stk + (n * CELL)])
PUSH(m, v) == LET n == ALLOCSTACK(m, 1) IN IF Running(n) THEN _W(n, n.stk, v) ELSE n
\* Mutant: the stack pointer moves before the cell is read.
POPLate(m, reg) == LET n == FREESTACK(m, 1) IN Set(n, reg, _R(n, n.stk))
POP(m, reg) == FREESTACK(Set(m, reg, _R(m, m.stk)), 1)
OPHND_NEXT(m, n) == IF Running(m) THEN [m EXCEPT !.cip = m.cip + (n * CELL)] ELSE m
JUMP(m, a) == [m EXCEPT !.cip = a]
\* A computed jump: to the start of an instruction.
JumpTo(m, a) == Unless(IS_INVALID_CODE_OFFS(a) \/ a \notin Starts, AMX_ERR_MEMACCESS, m, JUMP(m, a))

LoadOps == {"load", "load.s", "lref", "lref.s", "load.i", "lodb.i", "lidx", "lidx.b", "load.both", "load.s.both"}
CheckedLoad(m, i) ==
  LET o == i.p[1]
      at(a) == IF IS_INVALID_DATA_STACK_HEAP_OFFS(m, a) THEN Abort(m, AMX_ERR_MEMACCESS) ELSE Set(m, i.reg, _R(m, a))
      badframe(x) == IS_INVALID_STACK_OFFS(m, x)
      idx == IF i.op = "lidx" THEN Cell((m.pri * CELL) + m.alt) ELSE Cell((m.pri * (2 ^ o)) + m.alt)
      n == CASE i.op = "load" -> Set(m, i.reg, _R(m, o))
             [] i.op = "load.s" -> Unless(badframe(o), AMX_ERR_MEMACCESS, m, Set(m, i.reg, _R(m, m.frm + o)))
             [] i.op = "lref" -> at(_R(m, o))
             [] i.op = "lref.s" -> Unless(badframe(o), AMX_ERR_MEMACCESS, m, at(_R(m, m.frm + o)))
             [] i.op = "load.i" -> at(m.pri)
             [] i.op = "lodb.i" -> Unless(IS_INVALID_DATA_STACK_HEAP_OFFS(m, m.pri), AMX_ERR_MEMACCESS, m,
                                          Set(m, "pri", Fetch(m.mem, m.pri, o)))
             [] i.op \in {"lidx", "lidx.b"} -> at(idx)
             [] i.op = "load.both" -> Both(m, [pri |-> _R(m, o), alt |-> _R(m, i.p[2])])
             [] i.op = "load.s.both" -> Unless(badframe(o) \/ badframe(i.p[2]), AMX_ERR_MEMACCESS, m,
                                               Both(m, [pri |-> _R(m, m.frm + o), alt |-> _R(m, m.frm + i.p[2])]))
  IN OPHND_NEXT(n, Len(i.p))

StoreOps == {"stor", "stor.s", "sref", "sref.s", "stor.i", "strb.i", "zero", "zero.s", "const", "const.s"}
CheckedStore(m, i) ==
  LET o == i.p[1]
      at(a, size) == IF IS_INVALID_DATA_STACK_HEAP_OFFS(m, a) THEN Abort(m, AMX_ERR_MEMACCESS)
                  ELSE [m EXCEPT !.mem = Store(m.mem, a, m[i.reg], size)]
      framed(done) == Unless(IS_INVALID_STACK_OFFS(m, o), AMX_ERR_MEMACCESS, m, done)
      n == CASE i.op = "stor" -> _W(m, o, m[i.reg])
             [] i.op = "stor.s" -> framed(_W(m, m.frm + o, m[i.reg]))
             [] i.op = "sref" -> at(_R(m, o), CELL)
             [] i.op = "sref.s" -> framed(at(_R(m, m.frm + o), CELL))
             [] i.op = "stor.i" -> at(m.alt, CELL)
             [] i.op = "strb.i" -> at(m.alt, o)
             [] i.op = "zero" -> _W(m, o, 0)
             [] i.op = "zero.s" -> framed(_W(m, m.frm + o, 0))
             [] i.op = "const" -> _W(m, o, i.p[2])
             [] i.op = "const.s" -> framed(_W(m, m.frm + o, i.p[2]))
  IN OPHND_NEXT(n, Len(i.p))

RegisterOps == {"const.reg", "addr", "idxaddr", "idxaddr.b", "align", "lctrl", "sctrl", "move", "xchg", "zero.reg", "sign", "nop"}
CheckedRegister(m, i) ==
  LET o == i.p[1]
      other == IF i.reg = "pri" THEN m.alt ELSE m.pri
      sctrl == CASE o = 2 -> CHKHEAP(CHKMARGIN([m EXCEPT !.hea = m.pri]))
                 [] o = 4 -> CHKSTACK(CHKMARGIN([m EXCEPT !.stk = m.pri]))
                 [] o = 5 -> Unless(m.pri < m.hea + STKMARGIN \/ U(m.pri) >= Stp, AMX_ERR_STACKERR, m, [m EXCEPT !.frm = m.pri])
                 [] o \in {6, 8} -> JumpTo(m, m.pri)
                 [] OTHER -> m
      n == CASE i.op = "const.reg" -> Set(m, i.reg, o)
             [] i.op = "addr" -> Set(m, i.reg, Cell(m.frm + o))
             [] i.op = "idxaddr" -> Set(m, "pri", Cell((m.pri * CELL) + m.alt))
             [] i.op = "idxaddr.b" -> Set(m, "pri", Cell((m.pri * (2 ^ o)) + m.alt))
             [] i.op = "align" -> Set(m, i.reg, Aligned(m[i.reg], o))
             [] i.op = "lctrl" -> Set(m, "pri", CASE o = 0 -> Cod [] o = 1 -> Dat [] o = 2 -> m.hea [] o = 3 -> Stp
                                                  [] o = 4 -> m.stk [] o = 5 -> m.frm [] o = 6 -> m.cip [] OTHER -> m.pri)
             [] i.op = "sctrl" -> sctrl
             [] i.op = "move" -> Set(m, i.reg, other)
             [] i.op = "xchg" -> Both(m, [pri |-> m.alt, alt |-> m.pri])
             [] i.op = "zero.reg" -> Set(m, i.reg, 0)
             [] i.op = "sign" -> Set(m, i.reg, Signed(m[i.reg]))
             [] i.op = "nop" -> m
  IN OPHND_NEXT(n, Len(i.p))

StackOps == {"push.reg", "push.r", "push.c", "push", "push.s", "push.adr", "pop", "stack", "heap", "swap"}
PushOps == {"push.c", "push", "push.s", "push.adr"}
Operand(m, i, x) == CASE i.op = "push.c" -> x [] i.op = "push" -> _R(m, x)
                      [] i.op = "push.s" -> _R(m, m.frm + x) [] i.op = "push.adr" -> Cell(m.frm + x)
Unframed(m, i, x) == i.op = "push.s" /\ IS_INVALID_STACK_OFFS(m, x)
\* One instruction pushes two to five cells: the room is made first, then n gets the operands in turn.
PushCell(n, m, i, k) ==
  IF k > Len(i.p) \/ ~Running(n) THEN n
  ELSE Unless(Unframed(n, i, i.p[k]), AMX_ERR_MEMACCESS, n, _W(n, m.stk - (k * CELL), Operand(n, i, i.p[k])))
PushTogether(m, i) ==
  LET n1 == PushCell(ALLOCSTACK(m, Len(i.p)), m, i, 1)
      n2 == PushCell(n1, m, i, 2)
      n3 == PushCell(n2, m, i, 3)
      n4 == PushCell(n3, m, i, 4)
  IN PushCell(n4, m, i, 5)
CheckedStack(m, i) ==
  LET o == i.p[1]
      r == ALLOCSTACK(m, o)
      n == CASE i.op = "push.reg" -> PUSH(m, m[i.reg])
             [] i.op = "push.r" -> IF Running(r) THEN [r EXCEPT !.mem = Filled(r.mem, r.stk, m.pri, o * CELL)] ELSE r
             [] i.op \in PushOps /\ Len(i.p) = 1 -> Unless(Unframed(m, i, o), AMX_ERR_MEMACCESS, m, PUSH(m, Operand(m, i, o)))
             [] i.op \in PushOps /\ Len(i.p) > 1 -> PushTogether(m, i)
             [] i.op = "pop" -> POP(m, i.reg)
             [] i.op = "stack" -> CHKSTACK(CHKMARGIN([m EXCEPT !.alt = m.stk, !.stk = Cell(m.stk + o)]))
             [] i.op = "heap" -> CHKHEAP(CHKMARGIN([m EXCEPT !.alt = m.hea, !.hea = Cell(m.hea + o)]))
             [] i.op = "swap" -> Set(_W(m, m.stk, m[i.reg]), i.reg, _R(m, m.stk))
  IN OPHND_NEXT(n, Len(i.p))

FlowOps == {"proc", "ret", "retn", "call", "call.pri", "jump", "jump.pri", "jrel", "jzer", "jnz", "jump.if"}
CheckedFlow(m, i) ==
  LET o == i.p[1]
      freed == FREESTACK(m, 2)
      back == IF Running(freed) THEN JumpTo([freed EXCEPT !.frm = _R(m, m.stk)], _R(m, m.stk + CELL)) ELSE freed
      jump(b) == IF b THEN JUMP(m, o) ELSE OPHND_NEXT(m, 1)
      call(n, a) == IF Running(n) THEN JUMP(n, a) ELSE n
      proc == PUSH(m, m.frm)
  IN CASE i.op = "proc" -> IF Running(proc) THEN [proc EXCEPT !.frm = proc.stk] ELSE proc
       [] i.op = "ret" -> back
       [] i.op = "retn" -> IF Running(back) THEN CHKSTACK([back EXCEPT !.stk = Cell(back.stk + _R(m, back.stk) + CELL)]) ELSE back
       [] i.op = "call" -> call(PUSH(m, m.cip + CELL), o)
       [] i.op = "call.pri" -> Unless(IS_INVALID_CODE_OFFS(m.pri), AMX_ERR_MEMACCESS, m, call(PUSH(m, m.cip), m.pri))
       [] i.op = "jump" -> JUMP(m, o)
       [] i.op = "jump.pri" -> JumpTo(m, m.pri)
       [] i.op = "jrel" -> JUMP(m, m.cip + o + CELL)
       [] i.op = "jzer" -> jump(m.pri = 0)
       [] i.op = "jnz" -> jump(m.pri # 0)
       [] i.op = "jump.if" -> jump(Related(i.rel, m.pri, m.alt))

\* A record is two cells; above SWITCH_LINEAR records the middle of the rest is found in cells.
Halve(flat, pri, last) ==
  LET cell(k) == IF k \in DOMAIN flat THEN flat[k] ELSE 0
      halve[cptr \in 3 .. last + 1, cptr2 \in 3 .. last] ==
        LET mid == cptr + (cptr2 - cptr) \div 2
        IN IF cptr >= cptr2 THEN flat[2]
           ELSE IF pri < cell(mid) THEN halve[cptr, mid]
           ELSE IF pri > cell(mid) THEN halve[mid + 2, cptr2]
           ELSE cell(mid + 1)
  IN halve[3, last]
Searched(table, pri) ==
  LET found == {k \in DOMAIN table.cases : table.cases[k][1] = pri}
      count == Len(table.cases)
  IN IF count > SWITCH_LINEAR THEN Halve(Flat(table), pri, (2 * count) + 3)
     ELSE IF found # {} THEN table.cases[Min(found)][2] ELSE table.none
CheckedSwitch(m, i) == JUMP(m, Searched(i.table, m.pri))

ShiftOps == {"shl", "shr", "sshr", "shl.c", "shr.c"}
DivideOps == {"sdiv", "sdiv.alt", "udiv", "udiv.alt"}
AluOps == {"smul", "umul", "add", "sub", "sub.alt", "and", "or", "xor", "not", "neg", "invert", "add.c", "smul.c"}
         \union ShiftOps \union DivideOps
Divisor(m, i) == IF i.op \in {"sdiv", "udiv"} THEN m.alt ELSE m.pri
\* A shift by less than nothing or by more bits than there are, and the one quotient that is no cell.
Undefined(m, i) ==
  \/ i.op \in {"shl", "shr", "sshr"} /\ m.alt \notin 0 .. BITS - 1
  \/ i.op = "sdiv" /\ m.pri = SMALLEST /\ m.alt = -1
  \/ i.op = "sdiv.alt" /\ m.alt = SMALLEST /\ m.pri = -1
CheckedAlu(m, i) ==
  LET o == i.p[1]
      pri(v) == Set(m, "pri", Cell(v))
      n == CASE i.op \in {"shl", "shr", "sshr"} -> Set(m, "pri", Shifted(i.op, m.pri, m.alt))
             [] i.op = "shl.c" -> Set(m, i.reg, Shifted("shl", m[i.reg], o))
             [] i.op = "shr.c" -> Set(m, i.reg, Shifted("shr", m[i.reg], o))
             [] i.op = "smul" -> pri(m.pri * m.alt)
             [] i.op = "umul" -> pri(U(m.pri) * U(m.alt))
             [] i.op = "sdiv" -> Both(m, SDIV(m.pri, m.alt))
             [] i.op = "sdiv.alt" -> Both(m, SDIV_ALT(m.pri, m.alt))
             [] i.op = "udiv" -> Both(m, UDIV(m.pri, m.alt))
             [] i.op = "udiv.alt" -> Both(m, UDIV(m.alt, m.pri))
             [] i.op = "add" -> pri(m.pri + m.alt)
             [] i.op = "sub" -> pri(m.pri - m.alt)
             [] i.op = "sub.alt" -> pri(m.alt - m.pri)
             [] i.op = "and" -> pri(BitAnd(U(m.pri), U(m.alt)))
             [] i.op = "or" -> pri(BitOr(U(m.pri), U(m.alt)))
             [] i.op = "xor" -> pri(BitXor(U(m.pri), U(m.alt)))
             [] i.op = "not" -> pri(Flag(m.pri = 0))
             [] i.op = "neg" -> pri(0 - m.pri)
             [] i.op = "invert" -> pri((0 - m.pri) - 1)
             [] i.op = "add.c" -> pri(m.pri + o)
             [] i.op = "smul.c" -> pri(m.pri * o)
  IN IF i.op \in DivideOps /\ Divisor(m, i) = 0 THEN Abort(m, AMX_ERR_DIVIDE)
     ELSE IF Undefined(m, i) THEN Ended(m, UNDEFINED)
     ELSE OPHND_NEXT(n, Len(i.p))

CompareOps == {"test", "eq.c", "inc.reg", "inc", "inc.s", "inc.i"}
\* inc.i and dec.i have no operand, and skip one.
CheckedCompare(m, i) ==
  LET o == i.p[1]
      add(a) == _W(m, a, _R(m, a) + i.by)
  IN CASE i.op = "test" -> Set(m, "pri", Flag(Related(i.rel, m.pri, m.alt)))
       [] i.op = "eq.c" -> OPHND_NEXT(Set(m, "pri", Flag(m[i.reg] = o)), 1)
       [] i.op = "inc.reg" -> Set(m, i.reg, Cell(m[i.reg] + i.by))
       [] i.op = "inc" -> OPHND_NEXT(add(o), 1)
       [] i.op = "inc.s" -> OPHND_NEXT(Unless(IS_INVALID_STACK_OFFS(m, o), AMX_ERR_MEMACCESS, m, add(m.frm + o)), 1)
       [] i.op = "inc.i" -> OPHND_NEXT(Unless(IS_INVALID_DATA_STACK_HEAP_OFFS(m, m.pri), AMX_ERR_MEMACCESS, m, add(m.pri)), 1)

BlockOps == {"movs", "cmps", "fill"}
\* The first and the last byte must be accessible; the third test compares the gap with the size of
\* the block, not with its end.
BadBlock(m, a, n) ==
  \/ IS_INVALID_DATA_STACK_HEAP_OFFS(m, a)
  \/ IS_INVALID_DATA_STACK_HEAP_OFFS(m, Cell(a + n - 1))
  \/ a <= m.hea /\ m.hea <= n
  \/ a <= m.stk /\ m.stk <= n
CheckedBlock(m, i) ==
  LET n == i.p[1]
      done == CASE i.op = "movs" -> [m EXCEPT !.mem = Copied(m.mem, m.alt, m.pri, n)]
                [] i.op = "cmps" -> Set(m, "pri", Compared(m.mem, m.alt, m.pri, n))
                [] i.op = "fill" -> [m EXCEPT !.mem = Filled(m.mem, m.alt, m.pri, n)]
  IN IF (i.op # "fill" /\ BadBlock(m, m.pri, n)) \/ BadBlock(m, m.alt, n) THEN Abort(m, AMX_ERR_MEMACCESS)
     ELSE IF i.op = "movs" /\ Overlap(m.pri, m.alt, n) THEN Ended(m, UNDEFINED)
     ELSE OPHND_NEXT(done, 1)

HostOps == {"halt", "bounds", "sysreq", "sysreq.n", "break"}
\* The registers are saved before a native function or the debug hook runs; if it asks to sleep, pri, alt
\* and the caller's stack and heap are saved too.
CheckedHost(m, i) ==
  LET o == i.p[1]
      pushed == IF i.op = "sysreq.n" THEN PUSH(m, i.p[2]) ELSE m
      seen == [pushed EXCEPT !.out.hea = pushed.hea, !.out.frm = pushed.frm, !.out.stk = pushed.stk]
      value == IF i.op = "break" THEN seen ELSE [seen EXCEPT !.pri = i.answer]
      after == IF i.op = "sysreq.n" THEN [value EXCEPT !.stk = value.stk + i.p[2] + CELL] ELSE value
      slept(n) == [n EXCEPT !.end = AMX_ERR_SLEEP, !.out.pri = n.pri, !.out.alt = n.alt]
      halted == [m EXCEPT !.out.ret = m.pri, !.out.pri = m.pri, !.out.alt = m.alt]
  IN CASE i.op = "halt" -> IF o = AMX_ERR_SLEEP THEN [halted EXCEPT !.end = o, !.out.stk = m.stk, !.out.hea = m.hea]
                           ELSE Abort(halted, o)
       [] i.op = "bounds" -> Unless(U(m.pri) > U(o), AMX_ERR_BOUNDS, m, OPHND_NEXT(m, 1))
       [] i.op \in {"sysreq", "sysreq.n", "break"} ->
            IF ~Running(pushed) THEN pushed
            ELSE IF i.error = AMX_ERR_SLEEP THEN slept(after)
            ELSE IF i.error # 0 THEN Abort(after, i.error)
            ELSE OPHND_NEXT(after, Len(i.p))

Checked(m, i) ==
  CASE i.op \in LoadOps -> CheckedLoad(m, i) [] i.op \in StoreOps -> CheckedStore(m, i)
    [] i.op \in RegisterOps -> CheckedRegister(m, i) [] i.op \in StackOps -> CheckedStack(m, i)
    [] i.op \in FlowOps -> CheckedFlow(m, i) [] i.op = "switch" -> CheckedSwitch(m, i)
    [] i.op \in AluOps -> CheckedAlu(m, i) [] i.op \in CompareOps -> CheckedCompare(m, i)
    [] i.op \in BlockOps -> CheckedBlock(m, i) [] i.op \in HostOps -> CheckedHost(m, i)

-----------------------------------------------------------------------------
(* The core of earlier releases.  Its macros check less and abort less thoroughly. *)
ABORT(m, error) == [m EXCEPT !.end = error, !.out.stk = ResetStk, !.out.hea = ResetHea]
If(bad, error, m, next) == IF bad THEN ABORT(m, error) ELSE next
Refused(m, a) == (a >= m.hea /\ a < m.stk) \/ U(a) >= Stp
CMARGIN(m) == IF m.hea + STKMARGIN >= WORD \div 2 THEN Ended(m, UNDEFINED)
              ELSE IF m.hea + STKMARGIN > m.stk THEN Ended(m, AMX_ERR_STACKERR) ELSE m
CSTACK(m) == IF Running(m) /\ m.stk > Stp THEN Ended(m, AMX_ERR_STACKLOW) ELSE m
CHEAP(m) == IF Running(m) /\ m.hea < Hlw THEN Ended(m, AMX_ERR_HEAPLOW) ELSE m
Push(m, v) == _W([m EXCEPT !.stk = m.stk - CELL], m.stk - CELL, v)
Pop(m, reg) == [Set(m, reg, _R(m, m.stk)) EXCEPT !.stk = m.stk + CELL]
SKIPPARAM(m, n) == IF Running(m) THEN [m EXCEPT !.cip = m.cip + (n * CELL)] ELSE m

ClassicLoad(m, i) ==
  LET o == i.p[1]
      from(a) == Set(m, i.reg, _R(m, a))
      checkedfrom(a, size) == If(Refused(m, a), AMX_ERR_MEMACCESS, m, Set(m, "pri", Fetch(m.mem, a, size)))
      n == CASE i.op = "load" -> from(o) [] i.op = "load.s" -> from(m.frm + o)
             [] i.op = "lref" -> from(_R(m, o)) [] i.op = "lref.s" -> from(_R(m, m.frm + o))
             [] i.op = "load.i" -> checkedfrom(m.pri, CELL) [] i.op = "lodb.i" -> checkedfrom(m.pri, o)
             [] i.op = "lidx" -> checkedfrom(Cell((m.pri * CELL) + m.alt), CELL)
             [] i.op = "lidx.b" -> checkedfrom(Cell((m.pri * (2 ^ o)) + m.alt), CELL)
             [] i.op = "load.both" -> Both(m, [pri |-> _R(m, o), alt |-> _R(m, i.p[2])])
             [] i.op = "load.s.both" -> Both(m, [pri |-> _R(m, m.frm + o), alt |-> _R(m, m.frm + i.p[2])])
  IN SKIPPARAM(n, Len(i.p))
ClassicStore(m, i) ==
  LET o == i.p[1]
      v == m[i.reg]
      at(size) == If(Refused(m, m.alt), AMX_ERR_MEMACCESS, m, [m EXCEPT !.mem = Store(m.mem, m.alt, m.pri, size)])
      n == CASE i.op = "stor" -> _W(m, o, v) [] i.op = "stor.s" -> _W(m, m.frm + o, v)
             [] i.op = "sref" -> _W(m, _R(m, o), v) [] i.op = "sref.s" -> _W(m, _R(m, m.frm + o), v)
             [] i.op = "stor.i" -> at(CELL) [] i.op = "strb.i" -> at(o)
             [] i.op = "zero" -> _W(m, o, 0) [] i.op = "zero.s" -> _W(m, m.frm + o, 0)
             [] i.op = "const" -> _W(m, o, i.p[2]) [] i.op = "const.s" -> _W(m, m.frm + o, i.p[2])
  IN SKIPPARAM(n, Len(i.p))
ClassicRegister(m, i) ==
  LET o == i.p[1]
      n == SKIPPARAM(m, Len(i.p))
      lctrl == CASE o = 0 -> Cod [] o = 1 -> Dat [] o = 2 -> m.hea [] o = 3 -> Stp [] o = 4 -> m.stk [] o = 5 -> m.frm
                 [] o = 6 -> n.cip [] OTHER -> m.pri
      sctrl == CASE o = 2 -> Set(n, "hea", m.pri) [] o = 4 -> Set(n, "stk", m.pri) [] o = 5 -> Set(n, "frm", m.pri)
                 [] o = 6 -> Set(n, "cip", m.pri) [] OTHER -> n
  IN CASE i.op = "const.reg" -> Set(n, i.reg, o) [] i.op = "addr" -> Set(n, i.reg, Cell(o + m.frm))
       [] i.op = "idxaddr" -> Set(n, "pri", Cell((m.pri * CELL) + m.alt))
       [] i.op = "idxaddr.b" -> Set(n, "pri", Cell((m.pri * (2 ^ o)) + m.alt))
       [] i.op = "align" -> Set(n, i.reg, Aligned(m[i.reg], U(o)))
       [] i.op = "lctrl" -> Set(n, "pri", lctrl) [] i.op = "sctrl" -> sctrl
       [] i.op = "move" -> Set(n, i.reg, IF i.reg = "pri" THEN m.alt ELSE m.pri)
       [] i.op = "xchg" -> [n EXCEPT !.pri = m.alt, !.alt = m.pri]
       [] i.op = "zero.reg" -> Set(n, i.reg, 0) [] i.op = "sign" -> Set(n, i.reg, Signed(m[i.reg])) [] i.op = "nop" -> n
\* Several operands are pushed one after the other.
PushNext(m, i, k) == IF k > Len(i.p) THEN m ELSE Push(m, Operand(m, i, i.p[k]))
PushEach(m, i) == PushNext(PushNext(PushNext(PushNext(PushNext(m, i, 1), i, 2), i, 3), i, 4), i, 5)
ClassicStack(m, i) ==
  LET o == i.p[1]
      n == CASE i.op = "push.reg" -> Push(m, m[i.reg])
             [] i.op = "push.r" -> [m EXCEPT !.stk = m.stk - (o * CELL), !.mem = Filled(m.mem, m.stk - (o * CELL), m.pri, o * CELL)]
             [] i.op \in PushOps -> PushEach(m, i)
             [] i.op = "pop" -> Pop(m, i.reg)
             [] i.op = "stack" -> CSTACK(CMARGIN([m EXCEPT !.alt = m.stk, !.stk = Cell(m.stk + o)]))
             [] i.op = "heap" -> CHEAP(CMARGIN([m EXCEPT !.alt = m.hea, !.hea = Cell(m.hea + o)]))
             [] i.op = "swap" -> Set(_W(m, m.stk, m[i.reg]), i.reg, _R(m, m.stk))
  IN SKIPPARAM(n, Len(i.p))
ClassicFlow(m, i) ==
  LET o == i.p[1]
      popped == [m EXCEPT !.frm = _R(m, m.stk), !.stk = m.stk + (2 * CELL)]
      back == If(U(_R(m, m.stk + CELL)) >= CodeSize, AMX_ERR_MEMACCESS, popped, JUMP(popped, _R(m, m.stk + CELL)))
      rest == back.stk + _R(m, back.stk) + CELL
      jump(b) == IF b THEN JUMP(m, o) ELSE SKIPPARAM(m, 1)
      proc == Push(m, m.frm)
  IN CASE i.op = "proc" -> CMARGIN([proc EXCEPT !.frm = proc.stk])
       [] i.op = "ret" -> back
       [] i.op = "retn" -> IF Running(back) THEN [back EXCEPT !.stk = Cell(rest), !.out.stk = Cell(rest)] ELSE back
       [] i.op = "call" -> JUMP(Push(m, m.cip + CELL), o)
       [] i.op = "call.pri" -> JUMP(Push(m, m.cip), m.pri)
       [] i.op = "jump" -> JUMP(m, o) [] i.op = "jump.pri" -> JUMP(m, m.pri) [] i.op = "jrel" -> JUMP(m, m.cip + o + CELL)
       [] i.op = "jzer" -> jump(m.pri = 0) [] i.op = "jnz" -> jump(m.pri # 0)
       [] i.op = "jump.if" -> jump(Related(i.rel, m.pri, m.alt))
ClassicSwitch(m, i) ==
  LET found == {k \in DOMAIN i.table.cases : i.table.cases[k][1] = m.pri}
  IN JUMP(m, IF found # {} THEN i.table.cases[Min(found)][2] ELSE i.table.none)
ClassicAlu(m, i) ==
  LET o == i.p[1]
      pri(v) == Set(m, "pri", Cell(v))
      n == CASE i.op \in {"shl", "shr", "sshr"} -> Set(m, "pri", Shifted(i.op, m.pri, m.alt))
             [] i.op = "shl.c" -> Set(m, i.reg, Shifted("shl", m[i.reg], o))
             [] i.op = "shr.c" -> Set(m, i.reg, Shifted("shr", m[i.reg], o))
             [] i.op = "smul" -> pri(m.pri * m.alt) [] i.op = "umul" -> pri(U(m.pri) * U(m.alt))
             [] i.op = "sdiv" -> Both(m, SDIV(m.pri, m.alt)) [] i.op = "sdiv.alt" -> Both(m, SDIV_ALT(m.pri, m.alt))
             [] i.op = "udiv" -> Both(m, UDIV(m.pri, m.alt)) [] i.op = "udiv.alt" -> Both(m, UDIV(m.alt, m.pri))
             [] i.op = "add" -> pri(m.pri + m.alt) [] i.op = "sub" -> pri(m.pri - m.alt) [] i.op = "sub.alt" -> pri(m.alt - m.pri)
             [] i.op = "and" -> pri(BitAnd(U(m.pri), U(m.alt))) [] i.op = "or" -> pri(BitOr(U(m.pri), U(m.alt)))
             [] i.op = "xor" -> pri(BitXor(U(m.pri), U(m.alt))) [] i.op = "not" -> pri(Flag(m.pri = 0))
             [] i.op = "neg" -> pri(0 - m.pri) [] i.op = "invert" -> pri((0 - m.pri) - 1)
             [] i.op = "add.c" -> pri(m.pri + o) [] i.op = "smul.c" -> pri(m.pri * o)
  IN IF i.op \in DivideOps /\ Divisor(m, i) = 0 THEN ABORT(m, AMX_ERR_DIVIDE)
     ELSE IF Undefined(m, i) THEN Ended(m, UNDEFINED)
     ELSE SKIPPARAM(n, Len(i.p))
\* inc.i takes any address.
ClassicCompare(m, i) ==
  LET o == i.p[1]
      add(a) == _W(m, a, _R(m, a) + i.by)
      n == CASE i.op = "test" -> Set(m, "pri", Flag(Related(i.rel, m.pri, m.alt)))
             [] i.op = "eq.c" -> Set(m, "pri", Flag(m[i.reg] = o))
             [] i.op = "inc.reg" -> Set(m, i.reg, Cell(m[i.reg] + i.by))
             [] i.op = "inc" -> add(o) [] i.op = "inc.s" -> add(m.frm + o) [] i.op = "inc.i" -> add(m.pri)
  IN SKIPPARAM(n, Len(i.p))
\* The block may end where the heap does, and may not end in the gap.
BeyondBlock(m, a, n) == Refused(m, a) \/ (Cell(a + n) > m.hea /\ Cell(a + n) < m.stk) \/ U(a + n) > Stp
ClassicBlock(m, i) ==
  LET n == i.p[1]
      done == CASE i.op = "movs" -> [m EXCEPT !.mem = Copied(m.mem, m.alt, m.pri, n)]
                [] i.op = "cmps" -> Set(m, "pri", Compared(m.mem, m.alt, m.pri, n))
                [] i.op = "fill" -> [m EXCEPT !.mem = Filled(m.mem, m.alt, m.pri, n)]
  IN IF (i.op # "fill" /\ BeyondBlock(m, m.pri, n)) \/ BeyondBlock(m, m.alt, n) THEN ABORT(m, AMX_ERR_MEMACCESS)
     ELSE IF i.op = "movs" /\ Overlap(m.pri, m.alt, n) THEN Ended(m, UNDEFINED)
     ELSE SKIPPARAM(done, 1)
ClassicHost(m, i) ==
  LET o == i.p[1]
      pushed == IF i.op = "sysreq.n" THEN Push(m, i.p[2]) ELSE m
      seen == [pushed EXCEPT !.out.hea = pushed.hea, !.out.frm = pushed.frm, !.out.stk = pushed.stk]
      value == IF i.op = "break" THEN seen ELSE [seen EXCEPT !.pri = i.answer]
      after == IF i.op = "sysreq.n" THEN [value EXCEPT !.stk = value.stk + i.p[2] + 4] ELSE value
      slept(n) == [n EXCEPT !.end = AMX_ERR_SLEEP, !.out.pri = n.pri, !.out.alt = n.alt]
      halted == [m EXCEPT !.out.ret = m.pri, !.out.frm = m.frm, !.out.pri = m.pri, !.out.alt = m.alt]
  IN CASE i.op = "halt" -> IF o = AMX_ERR_SLEEP THEN [halted EXCEPT !.end = o, !.out.stk = m.stk, !.out.hea = m.hea]
                           ELSE ABORT(halted, o)
       [] i.op = "bounds" -> If(U(m.pri) > U(o), AMX_ERR_BOUNDS, m, SKIPPARAM(m, 1))
       [] i.op \in {"sysreq", "sysreq.n", "break"} ->
            IF i.error = AMX_ERR_SLEEP THEN slept(after)
            ELSE IF i.error # 0 THEN ABORT(after, i.error)
            ELSE SKIPPARAM(after, Len(i.p))

Classic(m, i) ==
  CASE i.op \in LoadOps -> ClassicLoad(m, i) [] i.op \in StoreOps -> ClassicStore(m, i)
    [] i.op \in RegisterOps -> ClassicRegister(m, i) [] i.op \in StackOps -> ClassicStack(m, i)
    [] i.op \in FlowOps -> ClassicFlow(m, i) [] i.op = "switch" -> ClassicSwitch(m, i)
    [] i.op \in AluOps -> ClassicAlu(m, i) [] i.op \in CompareOps -> ClassicCompare(m, i)
    [] i.op \in BlockOps -> ClassicBlock(m, i) [] i.op \in HostOps -> ClassicHost(m, i)

-----------------------------------------------------------------------------
(* What may run: the program is loaded and has passed the verifier. *)
Cells == SMALLEST .. (WORD \div 2) - 1
Host == [stk : Cells, hea : Cells, frm : Cells, pri : Cells, alt : Cells, ret : Cells]
\* The globals, the heap on top of them, free memory, the stack, and one cell more.
Machine == [pri : Cells, alt : Cells, frm : Cells, stk : Cells, hea : Cells, cip : Nat,
            mem : [0 .. Stp + CELL - 1 -> 0 .. BYTE - 1], end : {RUNNING}, out : Host]
Laid(m) == Hlw <= m.hea /\ m.hea <= m.stk /\ m.stk <= Stp

\* Instructions about either register; the others take pri, or both.
RegOps == {"load", "load.s", "lref", "lref.s", "stor", "stor.s", "sref", "sref.s", "const.reg", "addr", "align", "move",
           "zero.reg", "sign", "push.reg", "pop", "swap", "shl.c", "shr.c", "eq.c", "inc.reg"}
PriOps == {"load.i", "lodb.i", "lidx", "lidx.b", "stor.i", "strb.i"}
\* How many operands an instruction has.
Operands(op) ==
  CASE op \in PushOps -> 1 .. 5
    [] op \in {"load.both", "load.s.both", "const", "const.s", "sysreq.n"} -> {2}
    [] op \in {"sysreq", "break"} -> {0, 1}
    [] op \in {"load.i", "lidx", "stor.i", "idxaddr", "move", "xchg", "zero.reg", "sign", "nop", "push.reg", "pop", "swap", "proc",
               "ret", "retn", "call.pri", "jump.pri", "switch", "test", "inc.reg", "inc.i"}
              \union (AluOps \ {"shl.c", "shr.c", "add.c", "smul.c"}) -> {0}
    [] OTHER -> {1}
Verified(i) ==
  /\ i.op \in LoadOps \union StoreOps \union RegisterOps \union StackOps \union FlowOps \union {"switch"} \union AluOps
             \union CompareOps \union BlockOps \union HostOps
  /\ i.op \in RegOps => i.reg \in {"pri", "alt"}
  /\ i.op \in PriOps => i.reg = "pri"
  /\ i.p \in Seq(Cells) /\ Len(i.p) \in Operands(i.op)
  /\ i.op \in {"lodb.i", "strb.i"} => i.p[1] \in {1, 2, CELL}
  /\ i.op \in {"inc.reg", "inc", "inc.s", "inc.i"} => i.by \in {1, -1}
  /\ i.op \in {"sysreq", "sysreq.n", "break"} => i.answer \in Cells /\ i.error \in Nat
\* What the verifier lets through and no instruction checks, and the compiler keeps to: a block has
\* a size (of whole cells to fill), a shift is by less than a cell, push.r has a count, and what retn and sysreq.n take off the stack is on it.
Orderly(m, i) ==
  /\ i.op \in BlockOps => i.p[1] > 0
  /\ i.op = "fill" => i.p[1] % CELL = 0
  /\ i.op = "align" => i.p[1] >= 0
  /\ i.op \in {"lidx.b", "idxaddr.b", "shl.c", "shr.c"} => 0 <= i.p[1] /\ i.p[1] < BITS
  /\ i.op = "push.r" => i.p[1] >= 0 /\ i.p[1] * CELL \in Cells
  /\ i.op = "retn" => LET n == _R(m, m.stk + (2 * CELL)) IN n >= 0 /\ m.stk + (3 * CELL) + n \in Cells
  /\ i.op = "sysreq.n" => i.p[2] >= 0 /\ m.stk + i.p[2] <= Stp
ASSUME MemoryAssumption ==
  /\ BYTE \in Nat /\ BYTE > 0 /\ BYTE % 2 = 0
  /\ Hlw \in Nat /\ Stp \in Nat /\ Stp + CELL <= WORD \div 2 /\ STKMARGIN \in Nat
  /\ CodeSize \in Nat /\ CodeSize <= WORD \div 2
  /\ Starts \subseteq {a \in 0 .. CodeSize - 1 : a % CELL = 0}
ASSUME MachinesAssumption == \A m \in Machines : m \in Machine /\ Laid(m)
ASSUME InstructionsAssumption == \A m \in Machines : \A i \in Instructions(m) : Verified(i) /\ Orderly(m, i)

-----------------------------------------------------------------------------
\* Both cores execute one instruction, whose opcode they have fetched.
None == [op |-> "none"]
Execute(i) ==
  LET m == [machine EXCEPT !.cip = machine.cip + CELL]
  IN /\ executed = None
     /\ executed' = i
     /\ checked' = Checked(m, i)
     /\ classic' = Classic(m, i)
     /\ UNCHANGED machine
Init == machine \in Machines /\ executed = None /\ checked = machine /\ classic = machine
Next == \E i \in Instructions(machine) : Execute(i)
Spec == Init /\ [][Next]_coreVars

-----------------------------------------------------------------------------
\* What an instruction is about, said once more without either core: each access to data through a
\* computed address.  Only a pointer may lead below the stack.
Access(first, size, anywhere) == [first |-> first, size |-> size, anywhere |-> anywhere]
Accesses(m, i) ==
  LET o == i.p[1]
      frame(x) == Access(Cell(m.frm + x), CELL, FALSE)
      pointer(a, size) == Access(a, size, TRUE)
  IN CASE i.op \in {"load.s", "stor.s", "zero.s", "const.s", "inc.s"} -> {frame(o)}
       [] i.op \in {"load.s.both", "push.s"} -> {frame(i.p[k]) : k \in DOMAIN i.p}
       [] i.op \in {"lref", "sref"} -> {pointer(_R(m, o), CELL)}
       [] i.op \in {"lref.s", "sref.s"} -> {frame(o), pointer(_R(m, m.frm + o), CELL)}
       [] i.op \in {"load.i", "inc.i"} -> {pointer(m.pri, CELL)} [] i.op = "lodb.i" -> {pointer(m.pri, o)}
       [] i.op = "stor.i" -> {pointer(m.alt, CELL)} [] i.op = "strb.i" -> {pointer(m.alt, o)}
       [] i.op = "lidx" -> {pointer(Cell((m.pri * CELL) + m.alt), CELL)}
       [] i.op = "lidx.b" -> {pointer(Cell((m.pri * (2 ^ o)) + m.alt), CELL)}
       [] i.op \in {"movs", "cmps"} -> {pointer(m.pri, o), pointer(m.alt, o)} [] i.op = "fill" -> {pointer(m.alt, o)}
       [] i.op \in {"pop", "swap"} -> {Access(m.stk, CELL, FALSE)} [] i.op \in {"ret", "retn"} -> {Access(m.stk, 2 * CELL, FALSE)}
       [] OTHER -> {}
Pushed(i) == CASE i.op \in PushOps -> Len(i.p) [] i.op = "push.r" -> i.p[1]
               [] i.op \in {"push.reg", "proc", "call", "call.pri", "sysreq.n"} -> 1 [] OTHER -> 0
\* Globals and heap; the stack in use.
Below(m) == 0 .. m.hea - 1
Stack(m) == m.stk .. Stp - 1
Accessible(m, x) == IF x.anywhere THEN Below(m) \union Stack(m) ELSE Stack(m)
Through(x) == x.first .. x.first + x.size - 1
Target(m, i) == CASE i.op \in {"ret", "retn"} -> _R(m, m.stk + CELL) [] OTHER -> m.pri

\* No instruction that the default core executes reaches memory outside the data of the program, or
\* starts an access (of a block, ends it too) in the free memory between the heap and the stack; what
\* it pushes is above the heap, and where it returns or jumps to by a register an instruction starts.
\* swap takes the cell at the stack pointer unchecked: with an empty stack, the spare cell behind it.
\* Cells of the frame that are pushed together may come from the room made for them.
Reached(m, i, room) ==
  \A x \in Accesses(m, i) :
    /\ Through(x) \subseteq DOMAIN m.mem
    /\ i.op = "swap" \/ x.first \in Accessible(room, x)
    /\ i.op \in BlockOps => x.first + x.size - 1 \in Accessible(m, x)
HasRoom(m, i) == m.stk - (Pushed(i) * CELL) >= m.hea \/ Pushed(i) = 0
Contained ==
  LET room == IF executed.op = "push.s" /\ Pushed(executed) > 1 THEN checked ELSE machine
  IN executed # None /\ Running(checked) =>
    /\ Reached(machine, executed, room)
    /\ HasRoom(machine, executed)
    /\ executed.op \in {"ret", "retn", "jump.pri"} => checked.cip \in Starts

\* What a program may do is not refused: if it accesses only globals, heap and stack, pushes what
\* fits, jumps to instructions, and neither it nor the host reports such an error, the default core goes on.  The exceptions are blocks that are all
\* of the globals and the heap, or begin at the stack pointer and are larger than its address.
Refusals == {AMX_ERR_MEMACCESS, AMX_ERR_STACKERR, AMX_ERR_STACKLOW, AMX_ERR_HEAPLOW}
WholeMemory(m, x) == (x.first = 0 /\ x.size = m.hea) \/ (x.first = m.stk /\ x.size >= m.stk)
NoFalseAlarm ==
  LET m == machine
      i == executed
      near(x) == Through(x) \subseteq Stack(m) \/ (x.anywhere /\ Through(x) \subseteq Below(m))
      legal == /\ \A x \in Accesses(m, i) : near(x) /\ ~(i.op \in BlockOps /\ WholeMemory(m, x))
               /\ m.stk - (Pushed(i) * CELL) >= m.hea
               /\ i.op \in {"ret", "call.pri", "jump.pri"} => Target(m, i) \in Starts
               /\ i.op = "halt" => i.p[1] \notin Refusals
               /\ i.op \in {"sysreq", "sysreq.n", "break"} => i.error \notin Refusals
  IN executed # None /\ i.op \notin {"stack", "heap", "sctrl", "retn"} /\ legal => checked.end \notin Refusals

\* What neither core refuses, both execute alike: the registers, the data, the next instruction, and
\* what a native function and the host find in the AMX structure.  Instructions that differ:
\* inc.i and dec.i skip a cell, lctrl 6 gives the address of its operand, sctrl 6 skips a cell behind
\* the jump, and a halt to sleep does not store the frame, all in the default core.
Differ == \/ executed.op = "inc.i"
          \/ executed.op \in {"lctrl", "sctrl"} /\ executed.p[1] \in {6, 8}
          \/ executed.op = "halt" /\ executed.p[1] = AMX_ERR_SLEEP
Served(m) == m.end \notin Refusals \union {UNDEFINED}
Observed(m) ==
  CASE m.end \in {AMX_ERR_DIVIDE, AMX_ERR_BOUNDS} -> [end |-> m.end, stk |-> m.out.stk, hea |-> m.out.hea]
    [] Running(m) /\ executed.op = "retn" -> [m EXCEPT !.out = machine.out]
    [] Running(m) /\ executed.op # "retn" -> m
    [] OTHER -> [m EXCEPT !.cip = 0]
CoresAgree ==
  executed # None /\ ~Differ /\ Served(checked) /\ Served(classic) => Observed(checked) = Observed(classic)

\* The heap stays above the globals, the stack above the heap and inside the data.
LayoutKept == Running(checked) => Hlw <= checked.hea /\ checked.hea <= checked.stk /\ checked.stk <= Stp
=============================================================================
