---------------------------- MODULE CoresProofs ----------------------------
(***************************************************************************)
(* What the two interpreters may be relied on for, for every machine and   *)
(* every instruction that may run on it, and for every size of a byte, of  *)
(* the memory and of the code: the default core reaches nothing outside    *)
(* the data of the program, keeps stack and heap where they belong, and    *)
(* refuses nothing that is allowed; what neither core refuses both do      *)
(* alike.                                                                  *)
(*                                                                         *)
(* One step leads from a machine of Machines to the machine after it, so   *)
(* that the inductive invariant (Executed) says what has been executed,    *)
(* and the work is in lemmas about each group of instructions: what it     *)
(* Keeps, what it has tested (Sound, Reached), when it goes on (Goes,      *)
(* Clear), and that the cores do the same (Alike).                         *)
(***************************************************************************)
EXTENDS Cores, TLAPS

(* Cells, addresses and machines as numbers. *)
LEMMA WordFacts == WORD \in Nat /\ WORD > 0 /\ 2 * (WORD \div 2) = WORD /\ SMALLEST = 0 - (WORD \div 2)
<1>1. WORD \in Nat /\ WORD > 0
  BY MemoryAssumption DEF WORD
<1>2. WORD % 2 = 0
  BY MemoryAssumption DEF WORD
<1> QED BY <1>1, <1>2 DEF SMALLEST

\* A number taken for a cell is a cell, and one taken for an unsigned cell is not negative.
LEMMA CellIn == ASSUME NEW x \in Int PROVE Cell(x) \in Cells /\ U(x) \in 0 .. WORD - 1
BY WordFacts DEF Cell, U, Cells

\* What is an address as an unsigned cell is one as a cell.
LEMMA Addressed == ASSUME NEW a \in Cells, U(a) < Stp PROVE a \in 0 .. Stp - 1 /\ U(a) = a
BY WordFacts, MemoryAssumption DEF U, Cells, CELL

\* A cell taken for a cell is itself.
LEMMA CellSame == ASSUME NEW x \in Cells PROVE Cell(x) = x
BY WordFacts DEF Cell, U, Cells

\* What is read from the data is a cell, wherever it is read.
LEMMA FetchCell == ASSUME NEW m \in Machine, NEW a \in Int, NEW n \in Int PROVE Fetch(m.mem, a, n) \in Cells
<1>1. m.mem \in [0 .. Stp + CELL - 1 -> 0 .. BYTE - 1]
  BY DEF Machine
<1>2. ASSUME NEW k \in 0 .. 3 PROVE Byte(m.mem, a + k) \in Int /\ BYTE ^ k \in Int
  <2> DEFINE b == a + k
             mem == m.mem
  <2>1. b \in DOMAIN mem => mem[b] \in 0 .. BYTE - 1
    BY <1>1
  <2> HIDE DEF b, mem
  <2>2. Byte(mem, b) \in Int
    BY <2>1, MemoryAssumption DEF Byte
  <2>3. Byte(m.mem, a + k) \in Int
    BY <2>2 DEF b, mem
  <2> QED BY <2>3, MemoryAssumption
<1>3. ASSUME NEW k \in 0 .. 3 PROVE Byte(m.mem, a + k) * (BYTE ^ k) \in Int
  BY <1>2
<1> QED BY <1>3, CellIn DEF Fetch

\* So is what _R reads.
LEMMA ReadCell == ASSUME NEW m \in Machine, NEW a \in Int PROVE _R(m, a) \in Cells /\ _R(m, a) \in Int
<1>1. CELL \in Int
  BY DEF CELL
<1>2. Fetch(m.mem, a, CELL) \in Cells
  BY <1>1, FetchCell
<1> QED BY <1>2, WordFacts DEF _R, Cells

\* The registers of a machine are numbers.
LEMMA Places == ASSUME NEW m \in Machine PROVE m.stk \in Int /\ m.hea \in Int /\ m.frm \in Int /\ m.pri \in Int /\ m.alt \in Int
BY WordFacts DEF Machine, Cells

-----------------------------------------------------------------------------
(* The checks, the pushes and the pops, and what they leave of a machine. *)
\* A machine after some part of an instruction.
Fields == {"pri", "alt", "frm", "stk", "hea", "cip", "mem", "end", "out"}
Shaped(n) == Fields \subseteq DOMAIN n

\* A machine that may run has all its parts, and runs.
LEMMA MachineShaped == ASSUME NEW m \in Machine PROVE Shaped(m) /\ Running(m)
BY DEF Machine, Shaped, Fields, Running

\* An aborted machine has its parts, and has ended.
LEMMA Aborts == ASSUME NEW n, Shaped(n), NEW e \in Nat PROVE Shaped(Abort(n, e)) /\ Abort(n, e).end = e /\ ~Running(Abort(n, e))
BY DEF Abort, Shaped, Fields, Running, RUNNING

\* The checks, where they let the machine go on.
LEMMA MarginChecked ==
  ASSUME NEW n, Shaped(n), Running(CHKMARGIN(n))
  PROVE  CHKMARGIN(n) = n /\ Running(n) /\ (n.hea \in Int /\ n.stk \in Int => n.hea + STKMARGIN <= n.stk)
<1>1. n.hea \in Int => n.hea + STKMARGIN \in Int
  BY MemoryAssumption
<1>2. ~Running(Abort(n, AMX_ERR_STACKERR))
  BY Aborts DEF AMX_ERR_STACKERR
<1>3. ~Running(Ended(n, UNDEFINED))
  BY DEF Ended, UNDEFINED, Running, RUNNING, Shaped, Fields
<1> QED BY <1>1, <1>2, <1>3 DEF CHKMARGIN, Unless

\* CHKSTACK: the stack is in the data.
LEMMA StackChecked ==
  ASSUME NEW n, Shaped(n), Running(CHKSTACK(n))
  PROVE  CHKSTACK(n) = n /\ Running(n) /\ ~(n.stk > Stp)
<1>1. ~Running(Abort(n, AMX_ERR_STACKLOW))
  BY Aborts DEF AMX_ERR_STACKLOW
<1> QED BY <1>1 DEF CHKSTACK, Unless

\* CHKHEAP: the heap is above the globals.
LEMMA HeapChecked ==
  ASSUME NEW n, Shaped(n), Running(CHKHEAP(n))
  PROVE  CHKHEAP(n) = n /\ Running(n) /\ ~(n.hea < Hlw)
<1>1. ~Running(Abort(n, AMX_ERR_HEAPLOW))
  BY Aborts DEF AMX_ERR_HEAPLOW
<1> QED BY <1>1 DEF CHKHEAP, Unless

\* CHKPUSH: the stack is above the heap.
LEMMA PushChecked ==
  ASSUME NEW n, Shaped(n), Running(CHKPUSH(n))
  PROVE  CHKPUSH(n) = n /\ Running(n) /\ ~(n.hea > n.stk)
<1>1. ~Running(Abort(n, AMX_ERR_STACKERR))
  BY Aborts DEF AMX_ERR_STACKERR
<1> QED BY <1>1 DEF CHKPUSH, Unless

\* A computed jump is to an instruction.
LEMMA JumpChecked ==
  ASSUME NEW n, Shaped(n), NEW a, Running(JumpTo(n, a))
  PROVE  JumpTo(n, a) = [n EXCEPT !.cip = a] /\ Running(n) /\ a \in Starts /\ ~IS_INVALID_CODE_OFFS(a)
<1>1. ~Running(Abort(n, AMX_ERR_MEMACCESS))
  BY Aborts DEF AMX_ERR_MEMACCESS
<1>2. JumpTo(n, a) = [n EXCEPT !.cip = a] /\ a \in Starts /\ ~IS_INVALID_CODE_OFFS(a)
  BY <1>1 DEF JumpTo, JUMP, Unless
<1>3. [n EXCEPT !.cip = a].end = n.end
  BY DEF Shaped, Fields
<1> QED BY <1>2, <1>3 DEF Running

\* What the operands take changes nothing but the place in the code.
LEMMA NextKeeps ==
  ASSUME NEW n, Shaped(n), NEW k
  PROVE  /\ Shaped(OPHND_NEXT(n, k)) /\ OPHND_NEXT(n, k).end = n.end
         /\ OPHND_NEXT(n, k).hea = n.hea /\ OPHND_NEXT(n, k).stk = n.stk
BY DEF OPHND_NEXT, Shaped, Fields

\* The room for n cells, and a cell in it.
LEMMA RoomMade ==
  ASSUME NEW m \in Machine, NEW k \in Int, Running(ALLOCSTACK(m, k))
  PROVE  /\ ALLOCSTACK(m, k) = [m EXCEPT !.stk = m.stk - (k * CELL)]
         /\ m.hea <= m.stk - (k * CELL)
<1> DEFINE n == [m EXCEPT !.stk = m.stk - (k * CELL)]
<1>1. Shaped(n) /\ n.hea = m.hea /\ n.stk = m.stk - (k * CELL) /\ m.hea \in Int /\ n.stk \in Int
  BY WordFacts DEF Shaped, Fields, Machine, CELL, Cells
<1>2. ALLOCSTACK(m, k) = CHKPUSH(n)
  BY DEF ALLOCSTACK
<1> HIDE DEF n
<1>3. CHKPUSH(n) = n /\ ~(n.hea > n.stk)
  BY <1>1, <1>2, PushChecked
<1> QED BY <1>1, <1>2, <1>3 DEF n

\* The cells taken off the stack were on it.
LEMMA RoomFreed ==
  ASSUME NEW m \in Machine, NEW k \in Int, Running(FREESTACK(m, k))
  PROVE  /\ FREESTACK(m, k) = [m EXCEPT !.stk = m.stk + (k * CELL)]
         /\ m.stk + (k * CELL) <= Stp
<1> DEFINE n == [m EXCEPT !.stk = m.stk + (k * CELL)]
<1>1. Shaped(n) /\ n.stk = m.stk + (k * CELL) /\ n.stk \in Int
  BY WordFacts DEF Shaped, Fields, Machine, CELL, Cells
<1>2. FREESTACK(m, k) = CHKSTACK(n)
  BY DEF FREESTACK
<1> HIDE DEF n
<1>3. CHKSTACK(n) = n /\ ~(n.stk > Stp)
  BY <1>1, <1>2, StackChecked
<1> QED BY <1>1, <1>2, <1>3, MemoryAssumption DEF n

\* What a push that goes on has done.
LEMMA Pushes ==
  ASSUME NEW m \in Machine, NEW v, Running(PUSH(m, v))
  PROVE  /\ PUSH(m, v) = _W([m EXCEPT !.stk = m.stk - CELL], m.stk - CELL, v)
         /\ m.hea <= m.stk - CELL
<1>1. Running(ALLOCSTACK(m, 1))
  BY DEF PUSH
<1>2. 1 * CELL = CELL
  BY DEF CELL
<1>3. ALLOCSTACK(m, 1) = [m EXCEPT !.stk = m.stk - CELL] /\ m.hea <= m.stk - CELL
  BY <1>1, <1>2, RoomMade
<1>4. [m EXCEPT !.stk = m.stk - CELL].stk = m.stk - CELL
  BY DEF Machine
<1> QED BY <1>1, <1>3, <1>4 DEF PUSH

\* What is left is a machine, and where it goes on its memory is in order.
Keeps(n) == Shaped(n) /\ (Running(n) => Laid(n))

\* A machine that may run is in order.
LEMMA KeepsLaid == ASSUME NEW m \in Machine, Laid(m) PROVE Keeps(m)
BY MachineShaped DEF Keeps

\* Changing neither heap, stack nor end.
LEMMA KeepsSame ==
  ASSUME NEW n, Keeps(n), NEW x, Shaped(x), x.hea = n.hea, x.stk = n.stk, x.end = n.end
  PROVE  Keeps(x)
BY DEF Keeps, Laid, Running

\* Setting registers keeps the memory in order.
LEMMA KeepsSet ==
  ASSUME NEW m \in Machine, Laid(m)
  PROVE  /\ \A reg \in {"pri", "alt"} : \A v : Keeps(Set(m, reg, v))
         /\ \A r : Keeps(Both(m, r))
<1>1. ASSUME NEW reg \in {"pri", "alt"}, NEW v PROVE Keeps(Set(m, reg, v))
  <2>1. /\ Shaped(Set(m, reg, v)) /\ Set(m, reg, v).hea = m.hea
        /\ Set(m, reg, v).stk = m.stk /\ Set(m, reg, v).end = m.end
    BY <1>1 DEF Set, Machine, Shaped, Fields
  <2> QED BY <2>1, KeepsSame, KeepsLaid
<1>2. ASSUME NEW r PROVE Keeps(Both(m, r))
  <2>1. Shaped(Both(m, r)) /\ Both(m, r).hea = m.hea /\ Both(m, r).stk = m.stk /\ Both(m, r).end = m.end
    BY DEF Both, Machine, Shaped, Fields
  <2> QED BY <2>1, KeepsSame, KeepsLaid
<1> QED BY <1>1, <1>2

\* An aborted machine does not go on.
LEMMA KeepsAbort == ASSUME NEW n, Shaped(n), NEW e \in Nat PROVE Keeps(Abort(n, e))
BY Aborts DEF Keeps

\* Passing the operands keeps the memory in order.
LEMMA KeepsNext == ASSUME NEW n, Keeps(n), NEW k PROVE Keeps(OPHND_NEXT(n, k))
BY NextKeeps DEF Keeps, Running, Laid

\* So does a jump.
LEMMA KeepsJump == ASSUME NEW n, Keeps(n), NEW a PROVE Keeps(JUMP(n, a)) /\ Keeps(JumpTo(n, a))
<1>1. Keeps(JUMP(n, a))
  <2>1. Shaped(n) /\ Shaped(JUMP(n, a)) /\ JUMP(n, a).hea = n.hea /\ JUMP(n, a).stk = n.stk /\ JUMP(n, a).end = n.end
    BY DEF Keeps, JUMP, Shaped, Fields
  <2> QED BY <2>1, KeepsSame
<1>2. Keeps(Abort(n, AMX_ERR_MEMACCESS))
  BY KeepsAbort DEF Keeps, AMX_ERR_MEMACCESS
<1> QED BY <1>1, <1>2 DEF JumpTo, Unless

\* No check takes a part of the machine away.
LEMMA ShapedChecks == ASSUME NEW n, Shaped(n) PROVE Shaped(CHKMARGIN(n)) /\ Shaped(CHKSTACK(n)) /\ Shaped(CHKHEAP(n)) /\ Shaped(CHKPUSH(n))
<1>1. Shaped(Ended(n, UNDEFINED))
  BY DEF Ended, Shaped, Fields
<1>2. \A e \in Nat : Shaped(Abort(n, e))
  BY Aborts
<1> QED BY <1>1, <1>2 DEF CHKMARGIN, CHKSTACK, CHKHEAP, CHKPUSH, Unless, AMX_ERR_STACKERR, AMX_ERR_STACKLOW, AMX_ERR_HEAPLOW

\* The heap goes anywhere, and is checked; so does the stack.
LEMMA HeapMoves ==
  ASSUME NEW n, Shaped(n), n.hea \in Int, n.stk \in Int, n.stk <= Stp
  PROVE  Keeps(CHKHEAP(CHKMARGIN(n)))
<1>1. Shaped(CHKMARGIN(n)) /\ Shaped(CHKHEAP(CHKMARGIN(n)))
  BY ShapedChecks
<1>2. ASSUME Running(CHKHEAP(CHKMARGIN(n))) PROVE Laid(CHKHEAP(CHKMARGIN(n)))
  <2>1. CHKHEAP(CHKMARGIN(n)) = CHKMARGIN(n) /\ Running(CHKMARGIN(n)) /\ ~(CHKMARGIN(n).hea < Hlw)
    BY <1>1, <1>2, HeapChecked
  <2>2. CHKMARGIN(n) = n /\ n.hea + STKMARGIN <= n.stk
    BY <2>1, MarginChecked
  <2> QED BY <2>1, <2>2, MemoryAssumption DEF Laid
<1> QED BY <1>1, <1>2 DEF Keeps

\* The stack goes anywhere, and is checked.
LEMMA StackMoves ==
  ASSUME NEW n, Shaped(n), n.hea \in Int, n.stk \in Int, Hlw <= n.hea
  PROVE  Keeps(CHKSTACK(CHKMARGIN(n)))
<1>1. Shaped(CHKMARGIN(n)) /\ Shaped(CHKSTACK(CHKMARGIN(n)))
  BY ShapedChecks
<1>2. ASSUME Running(CHKSTACK(CHKMARGIN(n))) PROVE Laid(CHKSTACK(CHKMARGIN(n)))
  <2>1. CHKSTACK(CHKMARGIN(n)) = CHKMARGIN(n) /\ Running(CHKMARGIN(n)) /\ ~(CHKMARGIN(n).stk > Stp)
    BY <1>1, <1>2, StackChecked
  <2>2. CHKMARGIN(n) = n /\ n.hea + STKMARGIN <= n.stk
    BY <2>1, MarginChecked
  <2> QED BY <2>1, <2>2, MemoryAssumption DEF Laid
<1> QED BY <1>1, <1>2 DEF Keeps

\* Room for cells, made or freed, is checked.
LEMMA KeepsRoom ==
  ASSUME NEW m \in Machine, Laid(m), NEW k \in Nat
  PROVE  /\ Keeps(ALLOCSTACK(m, k)) /\ Keeps(FREESTACK(m, k))
         /\ ALLOCSTACK(m, k).hea = m.hea /\ ALLOCSTACK(m, k).stk = m.stk - (k * CELL)
         /\ FREESTACK(m, k).hea = m.hea /\ FREESTACK(m, k).stk = m.stk + (k * CELL)
<1>1. m.hea \in Int /\ m.stk \in Int /\ k * CELL \in Nat
  BY WordFacts DEF Machine, Cells, CELL
<1>2. Shaped(ALLOCSTACK(m, k)) /\ Shaped(FREESTACK(m, k))
  <2>1. Shaped([m EXCEPT !.stk = m.stk - (k * CELL)]) /\ Shaped([m EXCEPT !.stk = m.stk + (k * CELL)])
    BY DEF Machine, Shaped, Fields
  <2> QED BY <2>1, ShapedChecks DEF ALLOCSTACK, FREESTACK
<1>3. /\ ALLOCSTACK(m, k).hea = m.hea /\ ALLOCSTACK(m, k).stk = m.stk - (k * CELL)
      /\ FREESTACK(m, k).hea = m.hea /\ FREESTACK(m, k).stk = m.stk + (k * CELL)
  BY DEF ALLOCSTACK, FREESTACK, CHKPUSH, CHKSTACK, Unless, Abort, Machine
<1>4. Running(ALLOCSTACK(m, k)) => m.hea <= m.stk - (k * CELL)
  BY RoomMade
<1>5. Running(FREESTACK(m, k)) => m.stk + (k * CELL) <= Stp
  BY RoomFreed
<1> QED BY <1>1, <1>2, <1>3, <1>4, <1>5, MemoryAssumption DEF Keeps, Laid

\* A push keeps stack and heap in order.
LEMMA KeepsPush ==
  ASSUME NEW m \in Machine, Laid(m), NEW v
  PROVE  Keeps(PUSH(m, v)) /\ PUSH(m, v).hea = m.hea /\ PUSH(m, v).stk = m.stk - CELL
<1> DEFINE n == ALLOCSTACK(m, 1)
<1>1. Keeps(n) /\ n.hea = m.hea /\ n.stk = m.stk - CELL
  BY KeepsRoom DEF CELL
<1>2. PUSH(m, v) = IF Running(n) THEN _W(n, n.stk, v) ELSE n
  BY DEF PUSH
<1> HIDE DEF n
<1>3. Shaped(_W(n, n.stk, v)) /\ _W(n, n.stk, v).hea = n.hea /\ _W(n, n.stk, v).stk = n.stk /\ _W(n, n.stk, v).end = n.end
  BY <1>1 DEF Keeps, Shaped, Fields, _W
<1> QED BY <1>1, <1>2, <1>3, KeepsSame

\* A pop does, too.
LEMMA KeepsPop == ASSUME NEW m \in Machine, Laid(m), NEW reg \in {"pri", "alt"} PROVE Keeps(POP(m, reg))
<1> DEFINE v == _R(m, m.stk)
           n == Set(m, reg, v)
<1>1. n \in Machine /\ n.hea = m.hea /\ n.stk = m.stk
  <2>1. v \in Cells
    BY ReadCell, Places
  <2> HIDE DEF v
  <2> QED BY <2>1 DEF Set, Machine
<1>2. POP(m, reg) = FREESTACK(n, 1)
  BY DEF POP
<1> HIDE DEF n
<1> QED BY <1>1, <1>2, KeepsRoom DEF Laid

-----------------------------------------------------------------------------
(* What each group of instructions leaves of the machine: stack and heap stay where they belong. *)
LEMMA LoadKeeps ==
  ASSUME NEW m \in Machine, Laid(m), NEW i, Verified(i), i.op \in LoadOps
  PROVE  Keeps(CheckedLoad(m, i))
<1>1. i.op \in RegOps \union PriOps => i.reg \in {"pri", "alt"}
  BY DEF Verified
<1>2. CheckedLoad(m, i).hea = m.hea /\ CheckedLoad(m, i).stk = m.stk
  BY <1>1 DEF RegOps, PriOps, CheckedLoad, OPHND_NEXT, Unless, Abort, Set, Both, Machine, LoadOps
<1>3. Shaped(CheckedLoad(m, i))
  BY <1>1 DEF RegOps, PriOps, CheckedLoad, OPHND_NEXT, Unless, Abort, Set, Both, Machine, LoadOps, Shaped, Fields
<1> QED BY <1>2, <1>3 DEF Keeps, Laid

\* STOR, SREF, ZERO, CONST and their kin keep stack and heap.
LEMMA StoreKeeps ==
  ASSUME NEW m \in Machine, Laid(m), NEW i, Verified(i), i.op \in StoreOps
  PROVE  Keeps(CheckedStore(m, i))
<1>1. i.op \in RegOps \union PriOps => i.reg \in {"pri", "alt"}
  BY DEF Verified
<1>2. CheckedStore(m, i).hea = m.hea /\ CheckedStore(m, i).stk = m.stk
  BY <1>1 DEF RegOps, PriOps, CheckedStore, OPHND_NEXT, Unless, Abort, Set, Both, Machine, StoreOps, _W
<1>3. Shaped(CheckedStore(m, i))
  BY <1>1 DEF RegOps, PriOps, CheckedStore, OPHND_NEXT, Unless, Abort, Set, Both, Machine, StoreOps, _W, Shaped, Fields
<1> QED BY <1>2, <1>3 DEF Keeps, Laid

\* Arithmetic keeps stack and heap.
LEMMA AluKeeps ==
  ASSUME NEW m \in Machine, Laid(m), NEW i, Verified(i), i.op \in AluOps
  PROVE  Keeps(CheckedAlu(m, i))
<1>1. i.op \in RegOps \union PriOps => i.reg \in {"pri", "alt"}
  BY DEF Verified
<1>2. Keeps(Abort(m, AMX_ERR_DIVIDE)) /\ Keeps(Ended(m, UNDEFINED))
  BY MachineShaped, KeepsAbort DEF AMX_ERR_DIVIDE, Ended, UNDEFINED, Keeps, Shaped, Fields, Running, RUNNING
<1>3. (i.op \in RegOps => \A v : Keeps(Set(m, i.reg, v))) /\ (\A v : Keeps(Set(m, "pri", v))) /\ \A r : Keeps(Both(m, r))
  BY <1>1, KeepsSet
<1>4. \/ CheckedAlu(m, i) \in {Abort(m, AMX_ERR_DIVIDE), Ended(m, UNDEFINED)}
      \/ \E n : Keeps(n) /\ CheckedAlu(m, i) = OPHND_NEXT(n, Len(i.p))
  BY <1>3 DEF CheckedAlu, RegOps, AluOps, ShiftOps, DivideOps, Unless
<1> QED BY <1>2, <1>4, KeepsNext

\* Comparing and counting keep stack and heap.
LEMMA CompareKeeps ==
  ASSUME NEW m \in Machine, Laid(m), NEW i, Verified(i), i.op \in CompareOps
  PROVE  Keeps(CheckedCompare(m, i))
<1>1. i.op \in RegOps \union PriOps => i.reg \in {"pri", "alt"}
  BY DEF Verified
<1>2. CheckedCompare(m, i).hea = m.hea /\ CheckedCompare(m, i).stk = m.stk
  BY <1>1 DEF RegOps, PriOps, CheckedCompare, OPHND_NEXT, Unless, Abort, Set, Both, Machine, CompareOps, _W
<1>3. Shaped(CheckedCompare(m, i))
  BY <1>1 DEF RegOps, PriOps, CheckedCompare, OPHND_NEXT, Unless, Abort, Set, Both, Machine, CompareOps, _W, Shaped, Fields
<1> QED BY <1>2, <1>3 DEF Keeps, Laid

\* MOVS, CMPS and FILL keep stack and heap.
LEMMA BlockKeeps ==
  ASSUME NEW m \in Machine, Laid(m), NEW i, Verified(i), i.op \in BlockOps
  PROVE  Keeps(CheckedBlock(m, i))
<1>1. i.op \in RegOps \union PriOps => i.reg \in {"pri", "alt"}
  BY DEF Verified
<1>2. CheckedBlock(m, i).hea = m.hea /\ CheckedBlock(m, i).stk = m.stk
  BY <1>1 DEF RegOps, PriOps, CheckedBlock, OPHND_NEXT, Unless, Abort, Set, Both, Machine, BlockOps, Ended
<1>3. Shaped(CheckedBlock(m, i))
  BY <1>1 DEF RegOps, PriOps, CheckedBlock, OPHND_NEXT, Unless, Abort, Set, Both, Machine, BlockOps, Ended, Shaped, Fields
<1> QED BY <1>2, <1>3 DEF Keeps, Laid

\* SWITCH only jumps.
LEMMA SwitchKeeps ==
  ASSUME NEW m \in Machine, Laid(m), NEW i
  PROVE  Keeps(CheckedSwitch(m, i))
BY KeepsLaid, KeepsJump DEF CheckedSwitch

\* Of the instructions about registers only SCTRL moves stack or heap, and checks them.
LEMMA RegisterKeeps ==
  ASSUME NEW m \in Machine, Laid(m), NEW i, Verified(i), i.op \in RegisterOps
  PROVE  Keeps(CheckedRegister(m, i))
<1>1. i.op \in RegOps \union PriOps => i.reg \in {"pri", "alt"}
  BY DEF Verified
<1>2. CASE i.op # "sctrl"
  <2>1. i.op \in RegisterOps \ {"sctrl"}
    BY <1>2
  <2>2. Keeps(m) /\ (i.op \in RegOps => \A v : Keeps(Set(m, i.reg, v))) /\ (\A v : Keeps(Set(m, "pri", v))) /\ \A r : Keeps(Both(m, r))
    BY <1>1, KeepsLaid, KeepsSet
  <2>3. \E n : Keeps(n) /\ CheckedRegister(m, i) = OPHND_NEXT(n, Len(i.p))
    BY <2>1, <2>2 DEF CheckedRegister, RegOps, RegisterOps
  <2> QED BY <2>3, KeepsNext
<1>3. CASE i.op = "sctrl"
  <2> DEFINE o == i.p[1]
             h == [m EXCEPT !.hea = m.pri]
             s == [m EXCEPT !.stk = m.pri]
             f == [m EXCEPT !.frm = m.pri]
             bad == m.pri < m.hea + STKMARGIN \/ U(m.pri) >= Stp
             n == CASE o = 2 -> CHKHEAP(CHKMARGIN(h)) [] o = 4 -> CHKSTACK(CHKMARGIN(s))
                    [] o = 5 -> Unless(bad, AMX_ERR_STACKERR, m, f)
                    [] o \in {6, 8} -> JumpTo(m, m.pri) [] OTHER -> m
  <2>1. CheckedRegister(m, i) = OPHND_NEXT(n, Len(i.p))
    BY <1>3 DEF CheckedRegister
  <2>2. /\ Shaped(h) /\ h.hea = m.pri /\ h.stk = m.stk /\ Shaped(s) /\ s.hea = m.hea /\ s.stk = m.pri
        /\ Shaped(f) /\ f.hea = m.hea /\ f.stk = m.stk /\ f.end = m.end
        /\ m.pri \in Int /\ m.stk \in Int /\ m.hea \in Int
    BY WordFacts DEF Shaped, Fields, Machine, Cells
  <2>3. Keeps(m) /\ Shaped(m)
    BY KeepsLaid, MachineShaped
  <2> HIDE DEF h, s, f, bad
  <2>4. Keeps(CHKHEAP(CHKMARGIN(h))) /\ Keeps(CHKSTACK(CHKMARGIN(s)))
    BY <2>2, HeapMoves, StackMoves DEF Laid
  <2>5. Keeps(f) /\ Keeps(Abort(m, AMX_ERR_STACKERR)) /\ Keeps(JumpTo(m, m.pri))
    BY <2>2, <2>3, KeepsSame, KeepsAbort, KeepsJump DEF AMX_ERR_STACKERR
  <2>6. Keeps(n)
    BY <2>3, <2>4, <2>5 DEF Unless
  <2> HIDE DEF n
  <2> QED BY <2>1, <2>6, KeepsNext
<1> QED BY <1>2, <1>3

\* One of several cells that are pushed keeps stack and heap.
LEMMA KeepsCell ==
  ASSUME NEW n, Keeps(n), NEW m, NEW i, NEW k
  PROVE  Keeps(PushCell(n, m, i, k))
<1> DEFINE x == _W(n, m.stk - (k * CELL), Operand(n, i, i.p[k]))
<1>1. Shaped(n)
  BY DEF Keeps
<1>2. Shaped(x) /\ x.hea = n.hea /\ x.stk = n.stk /\ x.end = n.end
  BY <1>1 DEF _W, Shaped, Fields
<1>3. Keeps(Abort(n, AMX_ERR_MEMACCESS))
  BY <1>1, KeepsAbort DEF AMX_ERR_MEMACCESS
<1>4. PushCell(n, m, i, k) \in {n, Abort(n, AMX_ERR_MEMACCESS), x}
  BY DEF PushCell, Unless
<1> HIDE DEF x
<1> QED BY <1>2, <1>3, <1>4, KeepsSame

\* PUSH, POP, STACK, HEAP and SWAP leave stack and heap in order.
LEMMA StackKeeps ==
  ASSUME NEW m \in Machine, Laid(m), NEW i, Verified(i), Orderly(m, i), i.op \in StackOps
  PROVE  Keeps(CheckedStack(m, i))
<1> DEFINE o == i.p[1]
           r == ALLOCSTACK(m, o)
           filled == [r EXCEPT !.mem = Filled(r.mem, r.stk, m.pri, o * CELL)]
           n == CASE i.op = "push.reg" -> PUSH(m, m[i.reg])
             [] i.op = "push.r" -> IF Running(r) THEN filled ELSE r
             [] i.op \in PushOps /\ Len(i.p) = 1 -> Unless(Unframed(m, i, o), AMX_ERR_MEMACCESS, m, PUSH(m, Operand(m, i, o)))
             [] i.op \in PushOps /\ Len(i.p) > 1 -> PushTogether(m, i)
             [] i.op = "pop" -> POP(m, i.reg)
             [] i.op = "stack" -> CHKSTACK(CHKMARGIN([m EXCEPT !.alt = m.stk, !.stk = Cell(m.stk + o)]))
             [] i.op = "heap" -> CHKHEAP(CHKMARGIN([m EXCEPT !.alt = m.hea, !.hea = Cell(m.hea + o)]))
             [] i.op = "swap" -> Set(_W(m, m.stk, m[i.reg]), i.reg, _R(m, m.stk))
<1>1. CheckedStack(m, i) = OPHND_NEXT(n, Len(i.p))
  BY DEF CheckedStack
<1>2. i.op \in {"push.reg", "pop", "swap"} => i.reg \in {"pri", "alt"}
  BY DEF Verified, RegOps
<1>3. i.op \in PushOps => Len(i.p) \in 1 .. 5
  BY DEF Verified, Operands, PushOps, AluOps, ShiftOps, DivideOps
<1>4. i.op \in {"push.r", "stack", "heap"} => o \in Cells /\ o \in Int
  <2>1. i.op \in {"push.r", "stack", "heap"} => i.p \in Seq(Cells) /\ Len(i.p) \in {1}
    BY DEF Verified, Operands, PushOps, AluOps, ShiftOps, DivideOps
  <2> QED BY <2>1, WordFacts DEF Cells
<1>5. Keeps(m) /\ Shaped(m) /\ \A v : Keeps(PUSH(m, v))
  BY KeepsLaid, KeepsPush, MachineShaped
<1>6. Keeps(Abort(m, AMX_ERR_MEMACCESS))
  BY <1>5, KeepsAbort DEF AMX_ERR_MEMACCESS
<1>7. ASSUME i.op = "push.reg" PROVE Keeps(n)
  BY <1>5, <1>7 DEF PushOps
<1>8. ASSUME i.op = "push.r" PROVE Keeps(n)
  <2>1. n = IF Running(r) THEN filled ELSE r
    BY <1>8 DEF PushOps
  <2>2. o \in Nat
    BY <1>4, <1>8 DEF Orderly
  <2>3. Keeps(r)
    BY <2>2, KeepsRoom
  <2> HIDE DEF r, n
  <2>4. Shaped(filled) /\ filled.hea = r.hea /\ filled.stk = r.stk /\ filled.end = r.end
    BY <2>3 DEF Keeps, Shaped, Fields
  <2> QED BY <2>1, <2>3, <2>4, KeepsSame
<1>9. ASSUME i.op \in PushOps /\ Len(i.p) = 1 PROVE Keeps(n)
  <2>1. n = Unless(Unframed(m, i, o), AMX_ERR_MEMACCESS, m, PUSH(m, Operand(m, i, o)))
    BY <1>9 DEF PushOps
  <2> HIDE DEF n
  <2> QED BY <1>5, <1>6, <2>1 DEF Unless
<1>10. ASSUME i.op \in PushOps /\ Len(i.p) > 1 PROVE Keeps(n)
  <2>1. n = PushTogether(m, i)
    BY <1>10 DEF PushOps
  <2>2. Keeps(ALLOCSTACK(m, Len(i.p)))
    BY <1>3, <1>10, KeepsRoom
  <2> HIDE DEF n
  <2> QED BY <2>1, <2>2, KeepsCell DEF PushTogether
<1>11. ASSUME i.op = "pop" PROVE Keeps(n)
  BY <1>2, <1>11, KeepsPop DEF PushOps
<1>12. ASSUME i.op = "stack" PROVE Keeps(n)
  <2> DEFINE x == [m EXCEPT !.alt = m.stk, !.stk = Cell(m.stk + o)]
  <2>1. n = CHKSTACK(CHKMARGIN(x))
    BY <1>12 DEF PushOps
  <2>2. Shaped(x) /\ x.hea = m.hea /\ x.stk = Cell(m.stk + o) /\ m.hea \in Int /\ Cell(m.stk + o) \in Int
    BY <1>4, <1>12, CellIn, Places, WordFacts DEF Machine, Shaped, Fields, Cells
  <2> HIDE DEF x, n
  <2> QED BY <2>1, <2>2, StackMoves DEF Laid
<1>13. ASSUME i.op = "heap" PROVE Keeps(n)
  <2> DEFINE x == [m EXCEPT !.alt = m.hea, !.hea = Cell(m.hea + o)]
  <2>1. n = CHKHEAP(CHKMARGIN(x))
    BY <1>13 DEF PushOps
  <2>2. Shaped(x) /\ x.stk = m.stk /\ x.hea = Cell(m.hea + o) /\ m.stk \in Int /\ Cell(m.hea + o) \in Int
    BY <1>4, <1>13, CellIn, Places, WordFacts DEF Machine, Shaped, Fields, Cells
  <2> HIDE DEF x, n
  <2> QED BY <2>1, <2>2, HeapMoves DEF Laid
<1>14. ASSUME i.op = "swap" PROVE Keeps(n)
  <2>1. n = Set(_W(m, m.stk, m[i.reg]), i.reg, _R(m, m.stk))
    BY <1>14 DEF PushOps
  <2>2. Shaped(n) /\ n.hea = m.hea /\ n.stk = m.stk /\ n.end = m.end
    <3> HIDE DEF n
    <3> QED BY <1>2, <1>14, <2>1 DEF Set, _W, Machine, Shaped, Fields
  <2> HIDE DEF n
  <2> QED BY <1>5, <2>2, KeepsSame
<1>15. Keeps(n)
  <2>1. Len(i.p) = 1 \/ Len(i.p) > 1 \/ i.op \notin PushOps
    <3> DEFINE l == Len(i.p)
    <3>1. i.op \in PushOps => l \in 1 .. 5
      BY <1>3
    <3> HIDE DEF l
    <3>2. l \in 1 .. 5 => l = 1 \/ l > 1
      OBVIOUS
    <3> QED BY <3>1, <3>2 DEF l
  <2> HIDE DEF n
  <2> QED BY <2>1, <1>7, <1>8, <1>9, <1>10, <1>11, <1>12, <1>13, <1>14 DEF StackOps, PushOps
<1> HIDE DEF n
<1> QED BY <1>1, <1>15, KeepsNext

\* Calls of natives leave them in order if they take off what was pushed.
LEMMA HostKeeps ==
  ASSUME NEW m \in Machine, Laid(m), NEW i, Verified(i), Orderly(m, i), i.op \in HostOps
  PROVE  Keeps(CheckedHost(m, i))
<1> DEFINE o == i.p[1]
           pushed == IF i.op = "sysreq.n" THEN PUSH(m, i.p[2]) ELSE m
           seen == [pushed EXCEPT !.out.hea = pushed.hea, !.out.frm = pushed.frm, !.out.stk = pushed.stk]
           value == IF i.op = "break" THEN seen ELSE [seen EXCEPT !.pri = i.answer]
           after == IF i.op = "sysreq.n" THEN [value EXCEPT !.stk = value.stk + i.p[2] + CELL] ELSE value
           slept == [after EXCEPT !.end = AMX_ERR_SLEEP, !.out.pri = after.pri, !.out.alt = after.alt]
           halted == [m EXCEPT !.out.ret = m.pri, !.out.pri = m.pri, !.out.alt = m.alt]
<1>1. Keeps(m) /\ Shaped(m) /\ \A e \in Nat : Keeps(Abort(m, e))
  BY KeepsLaid, MachineShaped, KeepsAbort
<1>2. CASE i.op = "halt"
  <2> DEFINE asleep == [halted EXCEPT !.end = o, !.out.stk = m.stk, !.out.hea = m.hea]
  <2>1. CheckedHost(m, i) = IF o = AMX_ERR_SLEEP THEN asleep ELSE Abort(halted, o)
    BY <1>2 DEF CheckedHost
  <2>2. Shaped(asleep) /\ asleep.hea = m.hea /\ asleep.stk = m.stk /\ asleep.end = o
    BY <1>1 DEF Shaped, Fields
  <2>3. Shaped(Abort(halted, o)) /\ Abort(halted, o).hea = m.hea /\ Abort(halted, o).stk = m.stk /\ Abort(halted, o).end = o
    BY <1>1 DEF Shaped, Fields, Abort
  <2> HIDE DEF asleep, halted
  <2> QED BY <1>1, <2>1, <2>2, <2>3, MachineShaped DEF Keeps, Laid
<1>3. CASE i.op = "bounds"
  BY <1>1, <1>3, KeepsNext DEF CheckedHost, Unless, AMX_ERR_BOUNDS
<1>4. CASE i.op \in {"sysreq", "sysreq.n", "break"}
  <2>1. CheckedHost(m, i) = IF ~Running(pushed) THEN pushed ELSE IF i.error = AMX_ERR_SLEEP THEN slept
                            ELSE IF i.error # 0 THEN Abort(after, i.error) ELSE OPHND_NEXT(after, Len(i.p))
    BY <1>4 DEF CheckedHost
  <2>2. Keeps(pushed) /\ Shaped(pushed)
    BY <1>1, KeepsPush DEF Keeps
  <2>3. pushed.hea = m.hea /\ (i.op # "sysreq.n" => pushed.stk = m.stk) /\ (i.op = "sysreq.n" => pushed.stk = m.stk - CELL)
    BY KeepsPush
  <2> HIDE DEF pushed
  <2>4. Shaped(value) /\ value.hea = pushed.hea /\ value.stk = pushed.stk /\ value.end = pushed.end
    BY <2>2 DEF Shaped, Fields
  <2> HIDE DEF value
  <2>5. /\ Shaped(after) /\ after.hea = m.hea /\ after.end = pushed.end
        /\ after.stk = IF i.op = "sysreq.n" THEN pushed.stk + i.p[2] + CELL ELSE pushed.stk
    BY <2>3, <2>4 DEF Shaped, Fields
  <2>6. i.op = "sysreq.n" => i.p[2] \in Int /\ i.p[2] >= 0 /\ m.stk + i.p[2] <= Stp
    <3>1. i.op = "sysreq.n" => i.p \in Seq(Cells) /\ Len(i.p) = 2
      BY DEF Verified, Operands, PushOps, AluOps, ShiftOps, DivideOps
    <3> QED BY <3>1, WordFacts DEF Cells, Orderly
  <2> HIDE DEF after
  <2>7. Hlw <= m.hea /\ m.hea <= after.stk /\ after.stk <= Stp
    <3>1. i.op = "sysreq.n" => after.stk = m.stk + i.p[2]
      BY <2>3, <2>5, <2>6, Places DEF CELL
    <3> QED BY <2>3, <2>5, <2>6, <3>1, Places, MemoryAssumption DEF Laid
  <2>8. Keeps(after)
    BY <2>5, <2>7 DEF Keeps, Laid
  <2>9. Shaped(slept) /\ ~Running(slept)
    BY <2>5 DEF Shaped, Fields, Running, RUNNING, AMX_ERR_SLEEP
  <2>10. i.error \in Nat
    BY <1>4 DEF Verified
  <2> HIDE DEF slept
  <2> QED BY <2>1, <2>2, <2>5, <2>8, <2>9, <2>10, KeepsAbort, KeepsNext DEF Keeps
<1> QED BY <1>2, <1>3, <1>4 DEF HostOps

\* Calls and returns leave them in order if what RETN takes off is not less than nothing.
LEMMA FlowKeeps ==
  ASSUME NEW m \in Machine, Laid(m), NEW i, Verified(i), Orderly(m, i), i.op \in FlowOps
  PROVE  Keeps(CheckedFlow(m, i))
<1> DEFINE o == i.p[1]
           freed == FREESTACK(m, 2)
           framed == [freed EXCEPT !.frm = _R(m, m.stk)]
           back == IF Running(freed) THEN JumpTo(framed, _R(m, m.stk + CELL)) ELSE freed
           call(n, a) == IF Running(n) THEN JUMP(n, a) ELSE n
           proc == PUSH(m, m.frm)
           dropped == [back EXCEPT !.stk = Cell(back.stk + _R(m, back.stk) + CELL)]
<1>1. Keeps(m) /\ Keeps(freed) /\ freed.hea = m.hea /\ freed.stk = m.stk + (2 * CELL)
  BY KeepsLaid, KeepsRoom
<1>2. Shaped(framed) /\ framed.hea = freed.hea /\ framed.stk = freed.stk /\ framed.end = freed.end
  BY <1>1 DEF Keeps, Shaped, Fields
<1>3. Keeps(back) /\ Shaped(back)
  <2> HIDE DEF freed, framed
  <2> QED BY <1>1, <1>2, KeepsSame, KeepsJump DEF Keeps
<1>4. \A v : Keeps(PUSH(m, v))
  BY KeepsPush
<1>5. \A n, a : Keeps(n) => Keeps(call(n, a))
  BY KeepsJump
<1>6. CASE i.op = "proc"
  <2>1. CheckedFlow(m, i) = IF Running(proc) THEN [proc EXCEPT !.frm = proc.stk] ELSE proc
    BY <1>6 DEF CheckedFlow
  <2>2. Keeps(proc)
    BY <1>4
  <2> HIDE DEF proc
  <2>3. LET n == [proc EXCEPT !.frm = proc.stk] IN Shaped(n) /\ n.hea = proc.hea /\ n.stk = proc.stk /\ n.end = proc.end
    BY <2>2 DEF Keeps, Shaped, Fields
  <2> QED BY <2>1, <2>2, <2>3, KeepsSame
<1>7. CASE i.op = "ret"
  BY <1>3, <1>7 DEF CheckedFlow
<1>8. CASE i.op = "retn"
  <2>1. CheckedFlow(m, i) = IF Running(back) THEN CHKSTACK([back EXCEPT !.stk = Cell(back.stk + _R(m, back.stk) + CELL)]) ELSE back
    BY <1>8 DEF CheckedFlow
  <2>2. ASSUME Running(back) PROVE Keeps(CHKSTACK(dropped))
    <3>1. Running(freed) /\ back = JumpTo(framed, _R(m, m.stk + CELL))
      BY <2>2
    <3>2. back = [framed EXCEPT !.cip = _R(m, m.stk + CELL)]
      <4> HIDE DEF framed, back
      <4> QED BY <1>2, <2>2, <3>1, JumpChecked
    <3>3. back.stk = m.stk + (2 * CELL) /\ back.hea = m.hea
      <4> HIDE DEF freed, back
      <4>1. back.stk = framed.stk /\ back.hea = framed.hea
        <5> HIDE DEF framed
        <5> QED BY <1>2, <3>2 DEF Shaped, Fields
      <4> QED BY <1>1, <1>2, <4>1
    <3> DEFINE n == _R(m, back.stk)
    <3>4. n \in Cells /\ n \in Int /\ n >= 0 /\ back.stk \in Int /\ back.stk <= Stp
      <4>1. back.stk \in Int
        BY <3>3, Places DEF CELL
      <4>2. n >= 0
        BY <1>8, <3>3 DEF Orderly
      <4>3. Laid(back)
        BY <1>3, <2>2 DEF Keeps
      <4> HIDE DEF back
      <4> QED BY <4>1, <4>2, <4>3, ReadCell DEF Laid
    <3> HIDE DEF back, n
    <3>5. m.stk + (3 * CELL) + n = back.stk + n + CELL /\ m.stk + (3 * CELL) + n \in Cells
      <4>1. m.stk + (3 * CELL) + n \in Cells
        BY <1>8, <3>3 DEF Orderly, n
      <4> QED BY <3>3, <3>4, <4>1, Places DEF CELL
    <3>6. Cell(back.stk + n + CELL) = back.stk + n + CELL
      BY <3>5, CellSame
    <3>7. Shaped(dropped) /\ dropped.hea = m.hea /\ dropped.stk = back.stk + n + CELL /\ dropped.stk >= m.stk
      BY <1>3, <3>3, <3>4, <3>6, Places DEF Shaped, Fields, CELL, n
    <3> HIDE DEF dropped
    <3>8. Running(CHKSTACK(dropped)) => Laid(CHKSTACK(dropped))
      BY <3>4, <3>7, StackChecked, MemoryAssumption, Places DEF Laid, CELL
    <3> QED BY <3>7, <3>8, ShapedChecks DEF Keeps
  <2> QED BY <2>1, <2>2, <1>3
<1>9. CASE i.op = "call"
  BY <1>4, <1>5, <1>9 DEF CheckedFlow
<1>10. CASE i.op = "call.pri"
  BY <1>1, <1>4, <1>5, <1>10, KeepsAbort DEF CheckedFlow, Unless, AMX_ERR_MEMACCESS, Keeps
<1>11. CASE i.op \in {"jump", "jump.pri", "jrel", "jzer", "jnz", "jump.if"}
  BY <1>1, <1>11, KeepsJump, KeepsNext DEF CheckedFlow
<1> QED BY <1>6, <1>7, <1>8, <1>9, <1>10, <1>11 DEF FlowOps

\* The groups that come after one in Checked and Classic.
AfterCompare == BlockOps \union HostOps
AfterFlow == {"switch"} \union AluOps \union CompareOps \union AfterCompare
AfterRegister == StackOps \union FlowOps \union AfterFlow

\* No instruction is in two groups.
LEMMA Apart ==
  ASSUME NEW op
  PROVE  /\ op \in LoadOps => op \notin StoreOps \union RegisterOps \union AfterRegister
         /\ op \in StoreOps => op \notin RegisterOps \union AfterRegister
         /\ op \in RegisterOps => op \notin AfterRegister
         /\ op \in StackOps => op \notin FlowOps \union AfterFlow
         /\ op \in FlowOps => op \notin AfterFlow
         /\ op \in {"switch"} => op \notin AluOps \union CompareOps \union AfterCompare
         /\ op \in AluOps => op \notin CompareOps \union AfterCompare
         /\ op \in CompareOps => op \notin AfterCompare
         /\ op \in BlockOps => op \notin HostOps
BY SMTT(30) DEF LoadOps, StoreOps, RegisterOps, StackOps, FlowOps, AluOps, ShiftOps, DivideOps, CompareOps, BlockOps, HostOps,
                AfterCompare, AfterFlow, AfterRegister

\* Which part of the core an instruction is in.
LEMMA Dispatched ==
  ASSUME NEW m, NEW i
  PROVE  /\ i.op \in LoadOps => Checked(m, i) = CheckedLoad(m, i) /\ Classic(m, i) = ClassicLoad(m, i)
         /\ i.op \in StoreOps => Checked(m, i) = CheckedStore(m, i) /\ Classic(m, i) = ClassicStore(m, i)
         /\ i.op \in RegisterOps => Checked(m, i) = CheckedRegister(m, i) /\ Classic(m, i) = ClassicRegister(m, i)
         /\ i.op \in StackOps => Checked(m, i) = CheckedStack(m, i) /\ Classic(m, i) = ClassicStack(m, i)
         /\ i.op \in FlowOps => Checked(m, i) = CheckedFlow(m, i) /\ Classic(m, i) = ClassicFlow(m, i)
         /\ i.op = "switch" => Checked(m, i) = CheckedSwitch(m, i) /\ Classic(m, i) = ClassicSwitch(m, i)
         /\ i.op \in AluOps => Checked(m, i) = CheckedAlu(m, i) /\ Classic(m, i) = ClassicAlu(m, i)
         /\ i.op \in CompareOps => Checked(m, i) = CheckedCompare(m, i) /\ Classic(m, i) = ClassicCompare(m, i)
         /\ i.op \in BlockOps => Checked(m, i) = CheckedBlock(m, i) /\ Classic(m, i) = ClassicBlock(m, i)
         /\ i.op \in HostOps => Checked(m, i) = CheckedHost(m, i) /\ Classic(m, i) = ClassicHost(m, i)
<1>1. CASE i.op \in LoadOps
  BY <1>1, Apart DEF Checked, Classic, AfterCompare, AfterFlow, AfterRegister
<1>2. CASE i.op \in StoreOps
  BY <1>2, Apart DEF Checked, Classic, AfterCompare, AfterFlow, AfterRegister
<1>3. CASE i.op \in RegisterOps
  BY <1>3, Apart DEF Checked, Classic, AfterCompare, AfterFlow, AfterRegister
<1>4. CASE i.op \in StackOps
  BY <1>4, Apart DEF Checked, Classic, AfterCompare, AfterFlow, AfterRegister
<1>5. CASE i.op \in FlowOps
  BY <1>5, Apart DEF Checked, Classic, AfterCompare, AfterFlow, AfterRegister
<1>6. CASE i.op = "switch"
  BY <1>6, Apart DEF Checked, Classic, AfterCompare, AfterFlow, AfterRegister
<1>7. CASE i.op \in AluOps
  BY <1>7, Apart DEF Checked, Classic, AfterCompare, AfterFlow, AfterRegister
<1>8. CASE i.op \in CompareOps
  BY <1>8, Apart DEF Checked, Classic, AfterCompare, AfterFlow, AfterRegister
<1>9. CASE i.op \in BlockOps
  BY <1>9, Apart DEF Checked, Classic, AfterCompare, AfterFlow, AfterRegister
<1>10. CASE i.op \in HostOps
  BY <1>10, Apart DEF Checked, Classic, AfterCompare, AfterFlow, AfterRegister
<1> QED BY <1>1, <1>2, <1>3, <1>4, <1>5, <1>6, <1>7, <1>8, <1>9, <1>10

\* Whatever the default core executes leaves stack and heap in order.
LEMMA CheckedKeeps ==
  ASSUME NEW m \in Machine, Laid(m), NEW i, Verified(i), Orderly(m, i)
  PROVE  Keeps(Checked(m, i))
<1>1. i.op \in LoadOps \union StoreOps \union RegisterOps \union StackOps \union FlowOps \union {"switch"} \union AluOps
             \union CompareOps \union BlockOps \union HostOps
  BY DEF Verified
<1>2. i.op \in LoadOps \union StoreOps \union RegisterOps => Keeps(Checked(m, i))
  BY Dispatched, LoadKeeps, StoreKeeps, RegisterKeeps
<1>3. i.op \in StackOps \union FlowOps \union {"switch"} => Keeps(Checked(m, i))
  BY Dispatched, StackKeeps, FlowKeeps, SwitchKeeps
<1>4. i.op \in AluOps \union CompareOps \union BlockOps \union HostOps => Keeps(Checked(m, i))
  BY Dispatched, AluKeeps, CompareKeeps, BlockKeeps, HostKeeps
<1> QED BY <1>1, <1>2, <1>3, <1>4

-----------------------------------------------------------------------------
(* One instruction from any machine that may run. *)
Fetched(m) == [m EXCEPT !.cip = m.cip + CELL]
Executed ==
  /\ machine \in Machines
  /\ executed = None => checked = machine
  /\ executed # None => /\ executed \in Instructions(machine)
                        /\ checked = Checked(Fetched(machine), executed)
                        /\ classic = Classic(Fetched(machine), executed)

\* What is there after a step is what the cores made of the machine before it.
LEMMA ExecutedAlways == Spec => []Executed
<1>1. Init => Executed
  BY DEF Init, Executed
<1>2. Executed /\ [Next]_coreVars => Executed'
  <2> SUFFICES ASSUME Executed, [Next]_coreVars PROVE Executed'
    OBVIOUS
  <2>1. ASSUME NEW i \in Instructions(machine), Execute(i) PROVE Executed'
    <3>1. executed' = i /\ machine' = machine /\ machine \in Machines
      BY <2>1 DEF Execute, Executed
    <3>2. i.op # "none"
      BY <2>1, InstructionsAssumption DEF Executed, Verified, LoadOps, StoreOps, RegisterOps, StackOps, FlowOps, AluOps, ShiftOps,
         DivideOps, CompareOps, BlockOps, HostOps
    <3>3. i # None
      BY <3>2 DEF None
    <3> QED BY <2>1, <3>1, <3>3 DEF Execute, Executed, Fetched
  <2>2. CASE UNCHANGED coreVars
    BY <2>2 DEF Executed, coreVars
  <2> QED BY <2>1, <2>2 DEF Next
<1> QED BY <1>1, <1>2, PTL DEF Spec

\* Fetching the opcode changes nothing that an instruction looks at but the place in the code.
LEMMA MayRun ==
  ASSUME NEW m \in Machines, NEW i \in Instructions(m)
  PROVE  /\ m \in Machine /\ Laid(m) /\ Verified(i) /\ Orderly(m, i)
         /\ Fetched(m) \in Machine /\ Laid(Fetched(m)) /\ Orderly(Fetched(m), i)
         /\ Fetched(m).pri = m.pri /\ Fetched(m).alt = m.alt /\ Fetched(m).frm = m.frm /\ Fetched(m).stk = m.stk
         /\ Fetched(m).hea = m.hea /\ Fetched(m).mem = m.mem /\ Fetched(m).end = m.end /\ Fetched(m).out = m.out
<1>1. m \in Machine /\ Laid(m)
  BY MachinesAssumption
<1>2. Verified(i) /\ Orderly(m, i)
  BY InstructionsAssumption
<1>3. /\ Fetched(m).pri = m.pri /\ Fetched(m).alt = m.alt /\ Fetched(m).frm = m.frm /\ Fetched(m).stk = m.stk
      /\ Fetched(m).hea = m.hea /\ Fetched(m).mem = m.mem /\ Fetched(m).end = m.end /\ Fetched(m).out = m.out
  BY <1>1 DEF Fetched, Machine
<1>4. Fetched(m) \in Machine
  BY <1>1 DEF Fetched, Machine, CELL
<1> HIDE DEF Fetched
<1>5. Laid(Fetched(m)) /\ Orderly(Fetched(m), i)
  BY <1>1, <1>2, <1>3 DEF Laid, Orderly, _R
<1> QED BY <1>1, <1>2, <1>3, <1>4, <1>5

\* After every instruction that the default core executes, the heap is above the globals, the stack
\* above the heap and inside the data.
THEOREM CoresLayoutKept == Spec => []LayoutKept
<1>1. Executed => LayoutKept
  <2> SUFFICES ASSUME Executed, Running(checked) PROVE Laid(checked)
    BY DEF LayoutKept, Laid
  <2>1. CASE executed = None
    BY <2>1, MachinesAssumption DEF Executed
  <2>2. CASE executed # None
    <3>1. machine \in Machines /\ executed \in Instructions(machine) /\ checked = Checked(Fetched(machine), executed)
      BY <2>2 DEF Executed
    <3>2. Keeps(checked)
      BY <3>1, MayRun, CheckedKeeps
    <3> QED BY <3>2 DEF Keeps
  <2> QED BY <2>1, <2>2
<1> QED BY <1>1, ExecutedAlways, PTL

-----------------------------------------------------------------------------
(* What an address that passes a check is. *)
Sound(m, x) == Through(x) \subseteq DOMAIN m.mem /\ x.first \in Accessible(m, x)

\* The data with the spare cell behind it.
LEMMA Domain == ASSUME NEW m \in Machine PROVE DOMAIN m.mem = 0 .. Stp + CELL - 1
BY DEF Machine

\* An address that passes the check of pointers is in the globals, the heap or the stack.
LEMMA PointerSound ==
  ASSUME NEW m \in Machine, Laid(m), NEW a \in Cells, NEW n \in 1 .. CELL, ~IS_INVALID_DATA_STACK_HEAP_OFFS(m, a)
  PROVE  Sound(m, Access(a, n, TRUE))
<1>1. a \in 0 .. Stp - 1 /\ ~(a >= m.hea /\ a < m.stk)
  <2>1. U(a) \in Int
    BY CellIn, WordFacts DEF Cells
  <2>2. U(a) < Stp /\ ~(a >= m.hea /\ a < m.stk)
    BY <2>1, MemoryAssumption DEF IS_INVALID_DATA_STACK_HEAP_OFFS
  <2> QED BY <2>2, Addressed
<1>2. a .. a + n - 1 \subseteq 0 .. Stp + CELL - 1
  BY <1>1, MemoryAssumption DEF CELL
<1>3. a \in (0 .. m.hea - 1) \union (m.stk .. Stp - 1)
  BY <1>1, Places, MemoryAssumption
<1> QED BY <1>2, <1>3, Domain DEF Sound, Access, Through, Accessible, Below, Stack

\* An offset that passes the check of frames is in the stack.
LEMMA FrameSound ==
  ASSUME NEW m \in Machine, Laid(m), NEW o \in Int, ~IS_INVALID_STACK_OFFS(m, o)
  PROVE  Sound(m, Access(Cell(m.frm + o), CELL, FALSE))
<1> DEFINE a == Cell(m.frm + o)
<1>1. a \in Int
  BY Places, CellIn, WordFacts DEF Cells
<1>2. ~(a >= Stp) /\ ~(a < m.stk)
  BY DEF IS_INVALID_STACK_OFFS
<1> HIDE DEF a
<1>3. a \in m.stk .. Stp - 1 /\ a .. a + CELL - 1 \subseteq 0 .. Stp + CELL - 1
  BY <1>1, <1>2, Places, MemoryAssumption DEF Laid, CELL
<1> QED BY <1>3, Domain DEF Sound, Access, Through, Accessible, Stack, a

\* A block whose ends are accessible is in the data as a whole: it is not larger than the addresses.
LEMMA BlockSound ==
  ASSUME NEW m \in Machine, Laid(m), NEW a \in Cells, NEW n \in Cells, n > 0, ~BadBlock(m, a, n)
  PROVE  Sound(m, Access(a, n, TRUE)) /\ a + n - 1 \in Accessible(m, Access(a, n, TRUE))
<1>1. ~IS_INVALID_DATA_STACK_HEAP_OFFS(m, a) /\ ~IS_INVALID_DATA_STACK_HEAP_OFFS(m, Cell(a + n - 1))
  BY DEF BadBlock
<1>2. a \in 0 .. Stp - 1 /\ a \in Accessible(m, Access(a, n, TRUE))
  <2>1. 1 \in 1 .. CELL
    BY DEF CELL
  <2>2. Sound(m, Access(a, 1, TRUE))
    BY <1>1, <2>1, PointerSound
  <2>3. Accessible(m, Access(a, 1, TRUE)) = Accessible(m, Access(a, n, TRUE)) /\ Access(a, 1, TRUE).first = a
    BY DEF Accessible, Access
  <2>4. a \in (0 .. m.hea - 1) \union (m.stk .. Stp - 1)
    BY <2>2, <2>3 DEF Sound, Accessible, Access, Below, Stack
  <2>5. a \in 0 .. Stp - 1
    BY <2>4, Places, MemoryAssumption DEF Laid
  <2>6. a \in Accessible(m, Access(a, n, TRUE))
    BY <2>2, <2>3 DEF Sound
  <2> QED BY <2>5, <2>6
<1>3. a + n - 1 \in Int /\ n \in Int
  BY <1>2, WordFacts DEF Cells
<1>4. Cell(a + n - 1) \in Cells
  BY <1>3, CellIn
<1>5. Cell(a + n - 1) \in 0 .. Stp - 1 /\ Cell(a + n - 1) \in (0 .. m.hea - 1) \union (m.stk .. Stp - 1)
  <2> DEFINE b == Cell(a + n - 1)
  <2>1. b \in Cells /\ ~IS_INVALID_DATA_STACK_HEAP_OFFS(m, b)
    BY <1>1, <1>4
  <2> HIDE DEF b
  <2>2. 1 \in 1 .. CELL
    BY DEF CELL
  <2>3. Sound(m, Access(b, 1, TRUE))
    BY <2>1, <2>2, PointerSound
  <2>4. b \in (0 .. m.hea - 1) \union (m.stk .. Stp - 1)
    BY <2>3 DEF Sound, Accessible, Access, Below, Stack
  <2> QED BY <2>4, Places, MemoryAssumption DEF Laid, b
<1>6. Cell(a + n - 1) = a + n - 1
  BY <1>2, <1>3, <1>5, WordFacts, MemoryAssumption DEF Cell, U, Cells, CELL
<1>7. a .. a + n - 1 \subseteq 0 .. Stp + CELL - 1
  BY <1>2, <1>3, <1>5, <1>6, MemoryAssumption DEF CELL
<1> QED BY <1>2, <1>5, <1>6, <1>7, Domain DEF Sound, Access, Through, Accessible, Below, Stack

\* The operands are numbers.
LEMMA OperandCells ==
  ASSUME NEW i, Verified(i), NEW k \in 1 .. Len(i.p)
  PROVE  i.p[k] \in Cells /\ i.p[k] \in Int
<1>1. i.p \in Seq(Cells)
  BY DEF Verified
<1> QED BY <1>1, WordFacts DEF Cells

\* What each instruction has tested when it is done.
LEMMA LoadTests ==
  ASSUME NEW m \in Machine, NEW i, Verified(i), i.op \in LoadOps, Running(CheckedLoad(m, i))
  PROVE  /\ i.op \in {"load.s", "lref.s", "load.s.both"} => ~IS_INVALID_STACK_OFFS(m, i.p[1])
         /\ i.op = "load.s.both" => ~IS_INVALID_STACK_OFFS(m, i.p[2])
         /\ i.op = "lref" => ~IS_INVALID_DATA_STACK_HEAP_OFFS(m, _R(m, i.p[1]))
         /\ i.op = "lref.s" => ~IS_INVALID_DATA_STACK_HEAP_OFFS(m, _R(m, m.frm + i.p[1]))
         /\ i.op \in {"load.i", "lodb.i"} => ~IS_INVALID_DATA_STACK_HEAP_OFFS(m, m.pri)
         /\ i.op = "lidx" => ~IS_INVALID_DATA_STACK_HEAP_OFFS(m, Cell((m.pri * CELL) + m.alt))
         /\ i.op = "lidx.b" => ~IS_INVALID_DATA_STACK_HEAP_OFFS(m, Cell((m.pri * (2 ^ i.p[1])) + m.alt))
BY DEF CheckedLoad, OPHND_NEXT, Unless, Abort, Machine, Running, RUNNING, AMX_ERR_MEMACCESS

\* What the stores have tested.
LEMMA StoreTests ==
  ASSUME NEW m \in Machine, NEW i, Verified(i), i.op \in StoreOps, Running(CheckedStore(m, i))
  PROVE  /\ i.op \in {"stor.s", "sref.s", "zero.s", "const.s"} => ~IS_INVALID_STACK_OFFS(m, i.p[1])
         /\ i.op = "sref" => ~IS_INVALID_DATA_STACK_HEAP_OFFS(m, _R(m, i.p[1]))
         /\ i.op = "sref.s" => ~IS_INVALID_DATA_STACK_HEAP_OFFS(m, _R(m, m.frm + i.p[1]))
         /\ i.op \in {"stor.i", "strb.i"} => ~IS_INVALID_DATA_STACK_HEAP_OFFS(m, m.alt)
BY DEF CheckedStore, OPHND_NEXT, Unless, Abort, Machine, Running, RUNNING, AMX_ERR_MEMACCESS

\* What INC and DEC have tested.
LEMMA CompareTests ==
  ASSUME NEW m \in Machine, NEW i, Verified(i), i.op \in CompareOps, Running(CheckedCompare(m, i))
  PROVE  /\ i.op = "inc.s" => ~IS_INVALID_STACK_OFFS(m, i.p[1])
         /\ i.op = "inc.i" => ~IS_INVALID_DATA_STACK_HEAP_OFFS(m, m.pri)
BY DEF CheckedCompare, OPHND_NEXT, Unless, Abort, Machine, Running, RUNNING, AMX_ERR_MEMACCESS

\* What the block instructions have tested.
LEMMA BlockTests ==
  ASSUME NEW m \in Machine, NEW i, Verified(i), i.op \in BlockOps, Running(CheckedBlock(m, i))
  PROVE  /\ i.op # "fill" => ~BadBlock(m, m.pri, i.p[1])
         /\ ~BadBlock(m, m.alt, i.p[1])
BY DEF CheckedBlock, OPHND_NEXT, Abort, Machine, Running, RUNNING, AMX_ERR_MEMACCESS

\* Each access is then sound.
SoundAccesses(m, i) == \A x \in Accesses(m, i) : Sound(m, x)

\* Loads read what is accessible.
LEMMA LoadSound ==
  ASSUME NEW m \in Machine, Laid(m), NEW i, Verified(i), Orderly(m, i), i.op \in LoadOps, Running(CheckedLoad(m, i))
  PROVE  SoundAccesses(m, i)
<1> DEFINE frame(x) == Access(Cell(m.frm + x), CELL, FALSE)
           pointer(a, size) == Access(a, size, TRUE)
<1>1. /\ i.op \in LoadOps \ {"load.i", "lidx"} => i.p[1] \in Int
      /\ i.op = "load.s.both" => i.p[2] \in Int /\ DOMAIN i.p = {1, 2}
      /\ i.op = "lodb.i" => i.p[1] \in 1 .. CELL
  <2>1. /\ i.op \in LoadOps \ {"load.i", "lidx"} => Len(i.p) \in {1, 2}
        /\ i.op = "load.s.both" => Len(i.p) = 2
    BY DEF Verified, Operands, LoadOps, PushOps, AluOps, ShiftOps, DivideOps
  <2>2. i.p \in Seq(Cells) /\ (i.op = "lodb.i" => i.p[1] \in {1, 2, CELL})
    BY DEF Verified
  <2> QED BY <2>1, <2>2, OperandCells DEF CELL
<1>2. \A x \in Int : ~IS_INVALID_STACK_OFFS(m, x) => Sound(m, frame(x))
  BY FrameSound
<1>3. \A a \in Cells, n \in 1 .. CELL : ~IS_INVALID_DATA_STACK_HEAP_OFFS(m, a) => Sound(m, pointer(a, n))
  BY PointerSound
<1>4. CELL \in 1 .. CELL /\ m.pri \in Cells
  BY DEF CELL, Machine
<1>5. \A a \in Int : Cell(a) \in Cells /\ _R(m, a) \in Cells
  BY CellIn, ReadCell
<1>6. m.frm \in Int /\ m.pri \in Int /\ m.alt \in Int
  BY Places
<1> HIDE DEF frame, pointer
<1>7. CASE i.op \in {"load", "load.both"}
  BY <1>7 DEF SoundAccesses, Accesses, BlockOps
<1>8. CASE i.op = "load.s"
  <2>1. Accesses(m, i) = {frame(i.p[1])}
    BY <1>8 DEF Accesses, frame
  <2> QED BY <1>1, <1>2, <1>8, <2>1, LoadTests DEF SoundAccesses, LoadOps
<1>9. CASE i.op = "lref"
  <2>1. Accesses(m, i) = {pointer(_R(m, i.p[1]), CELL)}
    BY <1>9 DEF Accesses, pointer
  <2> QED BY <1>1, <1>3, <1>4, <1>5, <1>9, <2>1, LoadTests DEF SoundAccesses, LoadOps
<1>10. CASE i.op = "lref.s"
  <2>1. Accesses(m, i) = {frame(i.p[1]), pointer(_R(m, m.frm + i.p[1]), CELL)}
    BY <1>10 DEF Accesses, frame, pointer
  <2> QED BY <1>1, <1>2, <1>3, <1>4, <1>5, <1>6, <1>10, <2>1, LoadTests DEF SoundAccesses, LoadOps
<1>11. CASE i.op = "load.i"
  <2>1. Accesses(m, i) = {pointer(m.pri, CELL)}
    BY <1>11 DEF Accesses, pointer
  <2> QED BY <1>3, <1>4, <1>11, <2>1, LoadTests DEF SoundAccesses
<1>12. CASE i.op = "lodb.i"
  <2>1. Accesses(m, i) = {pointer(m.pri, i.p[1])}
    BY <1>12 DEF Accesses, pointer
  <2> QED BY <1>1, <1>3, <1>4, <1>12, <2>1, LoadTests DEF SoundAccesses
<1>13. CASE i.op = "lidx"
  <2>1. Accesses(m, i) = {pointer(Cell((m.pri * CELL) + m.alt), CELL)}
    BY <1>13 DEF Accesses, pointer
  <2>2. (m.pri * CELL) + m.alt \in Int
    BY <1>6 DEF CELL
  <2> QED BY <1>3, <1>4, <1>5, <1>13, <2>1, <2>2, LoadTests DEF SoundAccesses
<1>14. CASE i.op = "lidx.b"
  <2>1. Accesses(m, i) = {pointer(Cell((m.pri * (2 ^ i.p[1])) + m.alt), CELL)}
    BY <1>14 DEF Accesses, pointer
  <2>2. (m.pri * (2 ^ i.p[1])) + m.alt \in Int
    <3>1. i.p[1] \in Nat
      BY <1>1, <1>14 DEF LoadOps, Orderly
    <3>2. 2 ^ i.p[1] \in Int
      BY <3>1
    <3> QED BY <1>6, <3>2
  <2> QED BY <1>3, <1>4, <1>5, <1>14, <2>1, <2>2, LoadTests DEF SoundAccesses
<1>15. CASE i.op = "load.s.both"
  <2>1. Accesses(m, i) = {frame(i.p[k]) : k \in DOMAIN i.p}
    BY <1>15 DEF Accesses, frame
  <2> QED BY <1>1, <1>2, <1>15, <2>1, LoadTests DEF SoundAccesses, LoadOps
<1> QED BY <1>7, <1>8, <1>9, <1>10, <1>11, <1>12, <1>13, <1>14, <1>15 DEF LoadOps

\* Stores write what is accessible.
LEMMA StoreSound ==
  ASSUME NEW m \in Machine, Laid(m), NEW i, Verified(i), i.op \in StoreOps, Running(CheckedStore(m, i))
  PROVE  SoundAccesses(m, i)
<1> DEFINE frame(x) == Access(Cell(m.frm + x), CELL, FALSE)
           pointer(a, size) == Access(a, size, TRUE)
<1>1. /\ i.op \in StoreOps \ {"stor.i"} => i.p[1] \in Int
      /\ i.op = "strb.i" => i.p[1] \in 1 .. CELL
  <2>1. i.op \in StoreOps \ {"stor.i"} => Len(i.p) \in {1, 2}
    BY DEF Verified, Operands, StoreOps, PushOps, AluOps, ShiftOps, DivideOps
  <2>2. i.p \in Seq(Cells) /\ (i.op = "strb.i" => i.p[1] \in {1, 2, CELL})
    BY DEF Verified
  <2> QED BY <2>1, <2>2, OperandCells DEF CELL
<1>2. \A x \in Int : ~IS_INVALID_STACK_OFFS(m, x) => Sound(m, frame(x))
  BY FrameSound
<1>3. \A a \in Cells, n \in 1 .. CELL : ~IS_INVALID_DATA_STACK_HEAP_OFFS(m, a) => Sound(m, pointer(a, n))
  BY PointerSound
<1>4. CELL \in 1 .. CELL /\ m.alt \in Cells
  BY DEF CELL, Machine
<1>5. \A a \in Int : _R(m, a) \in Cells
  BY ReadCell
<1>6. m.frm \in Int
  BY Places
<1> HIDE DEF frame, pointer
<1>7. CASE i.op \in {"stor", "zero", "const"}
  BY <1>7 DEF SoundAccesses, Accesses, BlockOps
<1>8. CASE i.op \in {"stor.s", "zero.s", "const.s"}
  <2>1. Accesses(m, i) = {frame(i.p[1])}
    BY <1>8 DEF Accesses, frame
  <2> QED BY <1>1, <1>2, <1>8, <2>1, StoreTests DEF SoundAccesses, StoreOps
<1>9. CASE i.op = "sref"
  <2>1. Accesses(m, i) = {pointer(_R(m, i.p[1]), CELL)}
    BY <1>9 DEF Accesses, pointer
  <2> QED BY <1>1, <1>3, <1>4, <1>5, <1>9, <2>1, StoreTests DEF SoundAccesses, StoreOps
<1>10. CASE i.op = "sref.s"
  <2>1. Accesses(m, i) = {frame(i.p[1]), pointer(_R(m, m.frm + i.p[1]), CELL)}
    BY <1>10 DEF Accesses, frame, pointer
  <2> QED BY <1>1, <1>2, <1>3, <1>4, <1>5, <1>6, <1>10, <2>1, StoreTests DEF SoundAccesses, StoreOps
<1>11. CASE i.op = "stor.i"
  <2>1. Accesses(m, i) = {pointer(m.alt, CELL)}
    BY <1>11 DEF Accesses, pointer
  <2> QED BY <1>3, <1>4, <1>11, <2>1, StoreTests DEF SoundAccesses
<1>12. CASE i.op = "strb.i"
  <2>1. Accesses(m, i) = {pointer(m.alt, i.p[1])}
    BY <1>12 DEF Accesses, pointer
  <2> QED BY <1>1, <1>3, <1>4, <1>12, <2>1, StoreTests DEF SoundAccesses
<1> QED BY <1>7, <1>8, <1>9, <1>10, <1>11, <1>12 DEF StoreOps

\* INC and DEC change what is accessible.
LEMMA CompareSound ==
  ASSUME NEW m \in Machine, Laid(m), NEW i, Verified(i), i.op \in CompareOps, Running(CheckedCompare(m, i))
  PROVE  SoundAccesses(m, i)
<1> DEFINE frame(x) == Access(Cell(m.frm + x), CELL, FALSE)
           pointer(a, size) == Access(a, size, TRUE)
<1>1. i.op = "inc.s" => i.p[1] \in Int
  <2>1. i.op = "inc.s" => Len(i.p) = 1
    BY DEF Verified, Operands, PushOps, AluOps, ShiftOps, DivideOps
  <2> QED BY <2>1, OperandCells
<1>2. \A x \in Int : ~IS_INVALID_STACK_OFFS(m, x) => Sound(m, frame(x))
  BY FrameSound
<1>3. \A a \in Cells, n \in 1 .. CELL : ~IS_INVALID_DATA_STACK_HEAP_OFFS(m, a) => Sound(m, pointer(a, n))
  BY PointerSound
<1>4. CELL \in 1 .. CELL /\ m.pri \in Cells
  BY DEF CELL, Machine
<1> HIDE DEF frame, pointer
<1>5. CASE i.op \in {"test", "eq.c", "inc.reg", "inc"}
  BY <1>5 DEF SoundAccesses, Accesses, BlockOps
<1>6. CASE i.op = "inc.s"
  <2>1. Accesses(m, i) = {frame(i.p[1])}
    BY <1>6 DEF Accesses, frame
  <2> QED BY <1>1, <1>2, <1>6, <2>1, CompareTests DEF SoundAccesses
<1>7. CASE i.op = "inc.i"
  <2>1. Accesses(m, i) = {pointer(m.pri, CELL)}
    BY <1>7 DEF Accesses, pointer
  <2> QED BY <1>3, <1>4, <1>7, <2>1, CompareTests DEF SoundAccesses
<1> QED BY <1>5, <1>6, <1>7 DEF CompareOps

\* Blocks begin and end in what is accessible.
LEMMA BlocksSound ==
  ASSUME NEW m \in Machine, Laid(m), NEW i, Verified(i), Orderly(m, i), i.op \in BlockOps, Running(CheckedBlock(m, i))
  PROVE  \A x \in Accesses(m, i) : Sound(m, x) /\ x.first + x.size - 1 \in Accessible(m, x)
<1> DEFINE n == i.p[1]
           pointer(a) == Access(a, n, TRUE)
           sound(x) == Sound(m, x) /\ x.first + x.size - 1 \in Accessible(m, x)
<1>1. n \in Cells /\ n > 0
  <2>1. Len(i.p) = 1
    BY DEF Verified, Operands, BlockOps, PushOps, AluOps, ShiftOps, DivideOps
  <2> QED BY <2>1, OperandCells DEF Orderly
<1>2. m.pri \in Cells /\ m.alt \in Cells
  BY DEF Machine
<1>3. \A a : pointer(a).first = a /\ pointer(a).size = n
  BY DEF Access
<1>4. sound(pointer(m.alt)) /\ (i.op # "fill" => sound(pointer(m.pri)))
  BY <1>1, <1>2, <1>3, BlockTests, BlockSound
<1>5. Accesses(m, i) = IF i.op = "fill" THEN {pointer(m.alt)} ELSE {pointer(m.pri), pointer(m.alt)}
  BY DEF Accesses, BlockOps
<1> HIDE DEF sound, pointer
<1>6. \A x \in Accesses(m, i) : sound(x)
  BY <1>4, <1>5
<1> QED BY <1>6 DEF sound

\* Cells that are pushed together: each has been tested against the room.
Framed(n, i, x) == i.op = "push.s" => ~(Cell(n.frm + x) >= Stp \/ Cell(n.frm + x) < n.stk)

\* A cell has been pushed only if the ones before it were, and its operand was a cell of the frame.
LEMMA CellTested ==
  ASSUME NEW n, Shaped(n), NEW m, NEW i, NEW k
  PROVE  LET c == PushCell(n, m, i, k)
         IN /\ Shaped(c) /\ c.stk = n.stk /\ c.frm = n.frm
            /\ Running(c) => Running(n) /\ (~(k > Len(i.p)) => Framed(n, i, i.p[k]))
<1> DEFINE x == _W(n, m.stk - (k * CELL), Operand(n, i, i.p[k]))
           b == Abort(n, AMX_ERR_MEMACCESS)
           c == PushCell(n, m, i, k)
<1>1. Shaped(x) /\ x.stk = n.stk /\ x.frm = n.frm /\ x.end = n.end
  BY DEF _W, Shaped, Fields
<1>2. Shaped(b) /\ ~Running(b) /\ b.stk = n.stk /\ b.frm = n.frm
  BY DEF Abort, Shaped, Fields, Running, RUNNING, AMX_ERR_MEMACCESS
<1>3. c = IF k > Len(i.p) \/ ~Running(n) THEN n ELSE IF Unframed(n, i, i.p[k]) THEN b ELSE x
  BY DEF PushCell, Unless
<1>4. ~Unframed(n, i, i.p[k]) => Framed(n, i, i.p[k])
  BY DEF Unframed, Framed, IS_INVALID_STACK_OFFS
<1> HIDE DEF x, b, c
<1>5. Shaped(c) /\ c.stk = n.stk /\ c.frm = n.frm
  BY <1>1, <1>2, <1>3
<1>6. Running(c) => Running(n) /\ (~(k > Len(i.p)) => Framed(n, i, i.p[k]))
  BY <1>1, <1>2, <1>3, <1>4 DEF Running
<1> QED BY <1>5, <1>6 DEF c

\* So have all of them.
LEMMA TogetherTested ==
  ASSUME NEW m \in Machine, NEW i, Len(i.p) \in 1 .. 5, Running(PushTogether(m, i))
  PROVE  LET l == Len(i.p)
         IN /\ PushTogether(m, i).stk = m.stk - (l * CELL) /\ m.hea <= m.stk - (l * CELL)
            /\ \A k \in 1 .. l : Framed([m EXCEPT !.stk = m.stk - (l * CELL)], i, i.p[k])
<1> DEFINE l == Len(i.p)
           n == ALLOCSTACK(m, l)
           n1 == PushCell(n, m, i, 1)
           n2 == PushCell(n1, m, i, 2)
           n3 == PushCell(n2, m, i, 3)
           n4 == PushCell(n3, m, i, 4)
           n5 == PushCell(n4, m, i, 5)
           s == m.stk - (l * CELL)
           At(x) == Shaped(x) /\ x.stk = s /\ x.frm = m.frm
<1>1. At(n)
  BY DEF ALLOCSTACK, CHKPUSH, Unless, Abort, Machine, Shaped, Fields
<1>2. PushTogether(m, i) = n5
  BY DEF PushTogether
<1>3. Running(n5)
  BY <1>2
<1> HIDE DEF n
<1>4. At(n1) /\ (Running(n1) => Running(n) /\ (~(1 > l) => Framed(n, i, i.p[1])))
  BY <1>1, CellTested
<1> HIDE DEF n1
<1>5. At(n2) /\ (Running(n2) => Running(n1) /\ (~(2 > l) => Framed(n1, i, i.p[2])))
  BY <1>4, CellTested
<1> HIDE DEF n2
<1>6. At(n3) /\ (Running(n3) => Running(n2) /\ (~(3 > l) => Framed(n2, i, i.p[3])))
  BY <1>5, CellTested
<1> HIDE DEF n3
<1>7. At(n4) /\ (Running(n4) => Running(n3) /\ (~(4 > l) => Framed(n3, i, i.p[4])))
  BY <1>6, CellTested
<1> HIDE DEF n4
<1>8. At(n5) /\ (Running(n5) => Running(n4) /\ (~(5 > l) => Framed(n4, i, i.p[5])))
  BY <1>7, CellTested
<1> HIDE DEF n5
<1>9. \A x : \A y : At(x) /\ Framed(x, i, y) => Framed([m EXCEPT !.stk = s], i, y)
  BY DEF Framed, Machine
<1>10. Running(n)
  BY <1>3, <1>4, <1>5, <1>6, <1>7, <1>8
<1>11. m.hea <= s
  BY <1>10, RoomMade DEF n
<1> HIDE DEF At, s
<1>12. ASSUME NEW k \in 1 .. l PROVE Framed([m EXCEPT !.stk = s], i, i.p[k])
  <2>1. l \in 1 .. 5
    OBVIOUS
  <2> HIDE DEF l
  <2>2. k \in {1, 2, 3, 4, 5} /\ ~(k > l)
    BY <1>12, <2>1
  <2> QED BY <2>2, <1>1, <1>3, <1>4, <1>5, <1>6, <1>7, <1>8, <1>9
<1> QED BY <1>2, <1>8, <1>11, <1>12 DEF At, s

\* Where the room is where the stack was before.
LEMMA ReachedPlainly ==
  ASSUME NEW m, NEW i, NEW c, Reached(m, i, m), HasRoom(m, i), ~(i.op = "push.s" /\ Pushed(i) > 1)
  PROVE  Reached(m, i, IF i.op = "push.s" /\ Pushed(i) > 1 THEN c ELSE m) /\ HasRoom(m, i)
OBVIOUS

\* Instructions without an access to data reach nothing.
LEMMA NothingReached == ASSUME NEW m, NEW i, Accesses(m, i) = {} PROVE Reached(m, i, m)
BY DEF Reached

\* Sound accesses are what Contained asks of instructions that are about cells.
LEMMA ReachedSoundly ==
  ASSUME NEW m, NEW i, SoundAccesses(m, i), i.op \notin BlockOps
  PROVE  Reached(m, i, m)
BY DEF Reached, SoundAccesses, Sound

\* The instructions about the stack stay within it and the room they make.
LEMMA StackReaches ==
  ASSUME NEW m \in Machine, Laid(m), NEW i, Verified(i), Orderly(m, i), i.op \in StackOps, Running(CheckedStack(m, i))
  PROVE  /\ Reached(m, i, IF i.op = "push.s" /\ Pushed(i) > 1 THEN CheckedStack(m, i) ELSE m)
         /\ HasRoom(m, i)
<1> DEFINE c == CheckedStack(m, i)
           o == i.p[1]
<1>1. i.op \in PushOps => Len(i.p) \in 1 .. 5
  BY DEF Verified, Operands, PushOps, AluOps, ShiftOps, DivideOps
<1>2. CASE i.op \in {"stack", "heap"}
  <2>1. Accesses(m, i) = {} /\ Pushed(i) = 0
    BY <1>2 DEF Accesses, Pushed, PushOps
  <2> QED BY <1>2, <2>1, NothingReached, ReachedPlainly DEF HasRoom
<1>3. CASE i.op = "push.reg"
  <2>1. c = OPHND_NEXT(PUSH(m, m[i.reg]), Len(i.p))
    BY <1>3 DEF CheckedStack, PushOps
  <2>2. Running(PUSH(m, m[i.reg]))
    BY <2>1, KeepsPush, NextKeeps DEF Running, Keeps
  <2>3. Accesses(m, i) = {} /\ Pushed(i) = 1
    BY <1>3 DEF Accesses, Pushed, PushOps
  <2>4. HasRoom(m, i)
    <3>1. m.hea <= m.stk - CELL
      BY <2>2, Pushes
    <3> QED BY <2>3, <3>1, Places DEF HasRoom, CELL
  <2> QED BY <1>3, <2>3, <2>4, NothingReached, ReachedPlainly
<1>4. CASE i.op = "push.r"
  <2> DEFINE r == ALLOCSTACK(m, o)
             filled == [r EXCEPT !.mem = Filled(r.mem, r.stk, m.pri, o * CELL)]
             n == IF Running(r) THEN filled ELSE r
  <2>1. c = OPHND_NEXT(n, Len(i.p))
    BY <1>4 DEF CheckedStack, PushOps
  <2>2. o \in Nat
    <3>1. Len(i.p) = 1
      BY <1>4 DEF Verified, Operands, PushOps, AluOps, ShiftOps, DivideOps
    <3> QED BY <1>4, <3>1, OperandCells DEF Orderly
  <2>3. Running(r)
    <3>1. Shaped(r)
      BY <2>2, KeepsRoom DEF Keeps
    <3> HIDE DEF r
    <3>2. Shaped(n) /\ (Running(n) => Running(r))
      BY <3>1 DEF Shaped, Fields, Running
    <3> HIDE DEF n
    <3> QED BY <2>1, <3>2, NextKeeps DEF Running
  <2>4. m.hea <= m.stk - (o * CELL)
    BY <2>2, <2>3, RoomMade
  <2>5. Accesses(m, i) = {} /\ Pushed(i) = o
    BY <1>4 DEF Accesses, Pushed, PushOps
  <2>6. m.hea \in Int /\ m.stk - (o * CELL) \in Int
    BY <2>2, Places DEF CELL
  <2>7. HasRoom(m, i)
    BY <2>4, <2>5, <2>6 DEF HasRoom
  <2> QED BY <1>4, <2>5, <2>7, NothingReached, ReachedPlainly
<1>5. CASE i.op \in PushOps /\ Len(i.p) = 1
  <2> DEFINE n == Unless(Unframed(m, i, o), AMX_ERR_MEMACCESS, m, PUSH(m, Operand(m, i, o)))
  <2>1. c = OPHND_NEXT(n, Len(i.p))
    BY <1>5 DEF CheckedStack, PushOps
  <2>2. ~Running(Abort(m, AMX_ERR_MEMACCESS)) /\ Shaped(Abort(m, AMX_ERR_MEMACCESS)) /\ Shaped(PUSH(m, Operand(m, i, o)))
    BY Aborts, MachineShaped, KeepsPush DEF AMX_ERR_MEMACCESS, Keeps
  <2>3. Shaped(n)
    BY <2>2 DEF Unless
  <2>4. Running(n)
    <3> HIDE DEF n
    <3> QED BY <2>1, <2>3, NextKeeps DEF Running
  <2>5. ~Unframed(m, i, o) /\ Running(PUSH(m, Operand(m, i, o)))
    BY <2>2, <2>4 DEF Unless
  <2>6. m.hea <= m.stk - CELL
    BY <2>5, Pushes
  <2>7. Pushed(i) = 1
    BY <1>5 DEF Pushed, PushOps
  <2>8. HasRoom(m, i)
    BY <2>6, <2>7, Places DEF HasRoom, CELL
  <2>9. o \in Int
    BY <1>5, OperandCells
  <2>10. i.op # "push.s" => Accesses(m, i) = {}
    BY <1>5 DEF Accesses, PushOps, BlockOps
  <2>11. i.op = "push.s" => Accesses(m, i) = {Access(Cell(m.frm + o), CELL, FALSE)}
    <3>1. DOMAIN i.p = {1}
      <4>1. i.p \in Seq(Cells)
        BY DEF Verified
      <4> QED BY <1>5, <4>1
    <3>2. i.op = "push.s" => Accesses(m, i) = {Access(Cell(m.frm + i.p[k]), CELL, FALSE) : k \in DOMAIN i.p}
      BY DEF Accesses
    <3> QED BY <3>1, <3>2
  <2>12. i.op = "push.s" => Sound(m, Access(Cell(m.frm + o), CELL, FALSE))
    BY <2>5, <2>9, FrameSound DEF Unframed
  <2>13. SoundAccesses(m, i)
    BY <2>10, <2>11, <2>12 DEF SoundAccesses
  <2> QED BY <1>5, <2>7, <2>8, <2>13, ReachedSoundly, ReachedPlainly DEF PushOps, BlockOps
<1>6. CASE i.op \in PushOps /\ Len(i.p) > 1
  <2> DEFINE n == PushTogether(m, i)
             l == Len(i.p)
             s == m.stk - (l * CELL)
  <2>1. c = OPHND_NEXT(n, l)
    BY <1>6 DEF CheckedStack, PushOps
  <2>2. Shaped(n)
    <3>1. Keeps(ALLOCSTACK(m, Len(i.p)))
      BY <1>1, <1>6, KeepsRoom
    <3>2. Keeps(n)
      BY <3>1, KeepsCell DEF PushTogether
    <3> QED BY <3>2 DEF Keeps
  <2>3. Running(n) /\ c.stk = n.stk
    <3> HIDE DEF n, l
    <3> QED BY <2>1, <2>2, NextKeeps DEF Running
  <2>4. n.stk = s /\ m.hea <= s /\ \A k \in 1 .. l : Framed([m EXCEPT !.stk = s], i, i.p[k])
    BY <1>1, <1>6, <2>3, TogetherTested
  <2>5. Pushed(i) = l /\ l \in 1 .. 5
    BY <1>1, <1>6 DEF Pushed, PushOps
  <2>6. s \in Int /\ s <= m.stk
    <3> HIDE DEF l
    <3> QED BY <2>5, Places DEF CELL
  <2>7. HasRoom(m, i)
    BY <2>4, <2>5, <2>6, Places DEF HasRoom
  <2>8. i.op # "push.s" => Accesses(m, i) = {}
    BY <1>6 DEF Accesses, PushOps, BlockOps
  <2>9. ASSUME i.op = "push.s", NEW k \in 1 .. l
        PROVE  LET a == Cell(m.frm + i.p[k]) IN a .. a + CELL - 1 \subseteq DOMAIN m.mem /\ a \in s .. Stp - 1
    <3> DEFINE a == Cell(m.frm + i.p[k])
    <3>1. a \in Int
      <4>1. i.p[k] \in Int
        BY OperandCells
      <4>2. m.frm + i.p[k] \in Int
        BY <4>1, Places
      <4> QED BY <4>2, CellIn, WordFacts DEF Cells
    <3>2. ~(a >= Stp \/ a < s)
      BY <2>4, <2>9 DEF Framed, Machine
    <3> HIDE DEF a, s
    <3>3. a \in s .. Stp - 1 /\ s >= 0
      BY <2>4, <2>6, <3>1, <3>2, Places, MemoryAssumption DEF Laid
    <3>4. a .. a + CELL - 1 \subseteq 0 .. Stp + CELL - 1
      BY <2>6, <3>3, MemoryAssumption DEF CELL
    <3> QED BY <3>3, <3>4, Domain DEF a
  <2>10. ASSUME i.op = "push.s", NEW x \in Accesses(m, i)
         PROVE  Through(x) \subseteq DOMAIN m.mem /\ x.first \in Accessible(c, x)
    <3>1. \E k \in DOMAIN i.p : x = Access(Cell(m.frm + i.p[k]), CELL, FALSE)
      BY <2>10 DEF Accesses
    <3>2. DOMAIN i.p = 1 .. l
      <4>1. i.p \in Seq(Cells)
        BY DEF Verified
      <4> QED BY <4>1
    <3>3. c.stk = s
      BY <2>3, <2>4
    <3> HIDE DEF c, s
    <3>4. PICK k \in 1 .. l : x = Access(Cell(m.frm + i.p[k]), CELL, FALSE)
      BY <3>1, <3>2
    <3>5. Through(x) = Cell(m.frm + i.p[k]) .. Cell(m.frm + i.p[k]) + CELL - 1 /\ x.first = Cell(m.frm + i.p[k])
          /\ Accessible(c, x) = s .. Stp - 1
      BY <3>3, <3>4 DEF Through, Access, Accessible, Stack
    <3> QED BY <2>9, <2>10, <3>5
  <2>11. i.op \notin BlockOps
    BY <1>6 DEF PushOps, BlockOps
  <2>12. CASE i.op = "push.s"
    <3>1. Pushed(i) > 1
      BY <1>6, <2>5
    <3> HIDE DEF c
    <3>2. Reached(m, i, c)
      BY <2>10, <2>11, <2>12 DEF Reached
    <3> QED BY <2>7, <2>12, <3>1, <3>2 DEF c
  <2>13. CASE i.op # "push.s"
    BY <2>7, <2>8, <2>13, NothingReached, ReachedPlainly
  <2> QED BY <2>12, <2>13
<1>7. CASE i.op = "pop"
  <2>1. c = OPHND_NEXT(POP(m, i.reg), Len(i.p))
    BY <1>7 DEF CheckedStack, PushOps
  <2>2. i.reg \in {"pri", "alt"}
    BY <1>7 DEF Verified, RegOps
  <2> DEFINE v == _R(m, m.stk)
             n == Set(m, i.reg, v)
  <2>3. n \in Machine /\ n.stk = m.stk
    <3>1. v \in Cells
      BY ReadCell, Places
    <3> HIDE DEF v
    <3> QED BY <2>2, <3>1 DEF Set, Machine
  <2>4. POP(m, i.reg) = FREESTACK(n, 1) /\ Running(POP(m, i.reg))
    BY <2>1, <2>2, KeepsPop, NextKeeps DEF POP, Keeps, Running
  <2> HIDE DEF n
  <2>5. m.stk + CELL <= Stp
    BY <2>3, <2>4, RoomFreed DEF CELL
  <2>6. Accesses(m, i) = {Access(m.stk, CELL, FALSE)} /\ Pushed(i) = 0
    BY <1>7 DEF Accesses, Pushed, PushOps
  <2>7. m.stk \in m.stk .. Stp - 1 /\ m.stk .. m.stk + CELL - 1 \subseteq 0 .. Stp + CELL - 1
    BY <2>5, Places, MemoryAssumption DEF Laid, CELL
  <2> DEFINE x == Access(m.stk, CELL, FALSE)
  <2>8. SoundAccesses(m, i)
    <3>1. Through(x) = m.stk .. m.stk + CELL - 1 /\ x.first = m.stk /\ Accessible(m, x) = m.stk .. Stp - 1
      BY DEF Through, Access, Accessible, Stack
    <3> HIDE DEF x
    <3>2. Sound(m, x)
      BY <2>7, <3>1, Domain DEF Sound
    <3>3. Accesses(m, i) = {x}
      BY <2>6 DEF x
    <3> QED BY <3>2, <3>3 DEF SoundAccesses
  <2>9. HasRoom(m, i)
    BY <2>6 DEF HasRoom
  <2> QED BY <1>7, <2>6, <2>8, <2>9, ReachedSoundly, ReachedPlainly DEF BlockOps
<1>8. CASE i.op = "swap"
  <2>1. Accesses(m, i) = {Access(m.stk, CELL, FALSE)} /\ Pushed(i) = 0
    BY <1>8 DEF Accesses, Pushed, PushOps
  <2>2. m.stk .. m.stk + CELL - 1 \subseteq 0 .. Stp + CELL - 1
    BY Places, MemoryAssumption DEF Laid, CELL
  <2> DEFINE x == Access(m.stk, CELL, FALSE)
  <2>3. Reached(m, i, m)
    <3>1. Through(x) = m.stk .. m.stk + CELL - 1
      BY DEF Through, Access
    <3> HIDE DEF x
    <3>2. Accesses(m, i) = {x} /\ i.op \notin BlockOps
      BY <1>8, <2>1 DEF x, BlockOps
    <3> QED BY <1>8, <2>2, <3>1, <3>2, Domain DEF Reached
  <2>4. HasRoom(m, i)
    BY <2>1 DEF HasRoom
  <2> QED BY <1>8, <2>3, <2>4, ReachedPlainly
<1>9. i.op \in PushOps => Len(i.p) = 1 \/ Len(i.p) > 1
  <2> DEFINE l == Len(i.p)
  <2> SUFFICES ASSUME l \in 1 .. 5 PROVE l = 1 \/ l > 1
    BY <1>1
  <2> HIDE DEF l
  <2> QED OBVIOUS
<1> QED BY <1>2, <1>3, <1>4, <1>5, <1>6, <1>7, <1>8, <1>9 DEF StackOps, PushOps

\* Calls push above the heap; returns read what is on the stack and go to an instruction.
LEMMA FlowReaches ==
  ASSUME NEW m \in Machine, Laid(m), NEW i, Verified(i), i.op \in FlowOps, Running(CheckedFlow(m, i))
  PROVE  /\ Reached(m, i, m) /\ HasRoom(m, i)
         /\ i.op \in {"ret", "retn", "jump.pri"} => CheckedFlow(m, i).cip \in Starts
<1> DEFINE c == CheckedFlow(m, i)
<1>1. i.op \notin BlockOps /\ i.op \notin PushOps
  BY DEF FlowOps, BlockOps, PushOps
<1>2. CASE i.op \in {"jump", "jrel", "jzer", "jnz", "jump.if"}
  <2>1. Accesses(m, i) = {} /\ Pushed(i) = 0
    BY <1>2 DEF Accesses, Pushed, PushOps
  <2> QED BY <1>2, <2>1, NothingReached DEF HasRoom
<1>3. CASE i.op = "jump.pri"
  <2>1. Accesses(m, i) = {} /\ Pushed(i) = 0
    BY <1>3 DEF Accesses, Pushed, PushOps
  <2>2. c = JumpTo(m, m.pri)
    BY <1>3 DEF CheckedFlow
  <2> HIDE DEF c
  <2>3. c = [m EXCEPT !.cip = m.pri] /\ m.pri \in Starts
    BY <2>2, JumpChecked, MachineShaped DEF c
  <2>4. c.cip \in Starts
    BY <2>3 DEF Machine
  <2> QED BY <2>1, <2>4, NothingReached DEF HasRoom, c
<1>4. CASE i.op \in {"proc", "call", "call.pri"}
  <2> DEFINE v == CASE i.op = "proc" -> m.frm [] i.op = "call" -> m.cip + CELL [] i.op = "call.pri" -> m.cip
  <2>1. Accesses(m, i) = {} /\ Pushed(i) = 1
    BY <1>4 DEF Accesses, Pushed, PushOps
  <2>2. Running(PUSH(m, v))
    <3>1. i.op = "proc" => c = IF Running(PUSH(m, v)) THEN [PUSH(m, v) EXCEPT !.frm = PUSH(m, v).stk] ELSE PUSH(m, v)
      BY DEF CheckedFlow
    <3>2. i.op = "call" => c = IF Running(PUSH(m, v)) THEN JUMP(PUSH(m, v), i.p[1]) ELSE PUSH(m, v)
      BY DEF CheckedFlow
    <3>3. i.op = "call.pri" => c = Unless(IS_INVALID_CODE_OFFS(m.pri), AMX_ERR_MEMACCESS, m,
                                          IF Running(PUSH(m, v)) THEN JUMP(PUSH(m, v), m.pri) ELSE PUSH(m, v))
      BY DEF CheckedFlow
    <3>4. ~Running(Abort(m, AMX_ERR_MEMACCESS))
      BY Aborts, MachineShaped DEF AMX_ERR_MEMACCESS
    <3> HIDE DEF v
    <3> QED BY <1>4, <3>1, <3>2, <3>3, <3>4 DEF Unless
  <2>3. m.hea <= m.stk - CELL
    BY <2>2, Pushes
  <2>4. HasRoom(m, i)
    BY <2>1, <2>3, Places DEF HasRoom, CELL
  <2> QED BY <1>4, <2>1, <2>4, NothingReached
<1>5. CASE i.op \in {"ret", "retn"}
  <2> DEFINE freed == FREESTACK(m, 2)
             framed == [freed EXCEPT !.frm = _R(m, m.stk)]
             back == IF Running(freed) THEN JumpTo(framed, _R(m, m.stk + CELL)) ELSE freed
             dropped == [back EXCEPT !.stk = Cell(back.stk + _R(m, back.stk) + CELL)]
             x == Access(m.stk, 2 * CELL, FALSE)
  <2>1. /\ i.op = "ret" => c = back
        /\ i.op = "retn" => c = IF Running(back) THEN CHKSTACK(dropped) ELSE back
    BY DEF CheckedFlow
  <2>2. Shaped(freed)
    BY KeepsRoom DEF Keeps
  <2>3. Running(back)
    <3> HIDE DEF back
    <3> QED BY <1>5, <2>1
  <2>4. Running(freed) /\ back = JumpTo(framed, _R(m, m.stk + CELL))
    BY <2>3
  <2>5. m.stk + (2 * CELL) <= Stp
    BY <2>4, RoomFreed
  <2>6. Shaped(framed)
    <3> HIDE DEF freed
    <3> QED BY <2>2 DEF Shaped, Fields
  <2>7. back = [framed EXCEPT !.cip = _R(m, m.stk + CELL)] /\ _R(m, m.stk + CELL) \in Starts
    <3> HIDE DEF framed, back
    <3> QED BY <2>3, <2>4, <2>6, JumpChecked
  <2>8. back.cip \in Starts /\ Shaped(back)
    <3> HIDE DEF framed, back
    <3> QED BY <2>6, <2>7 DEF Shaped, Fields
  <2>9. Shaped(dropped) /\ dropped.cip = back.cip
    <3> HIDE DEF back
    <3> QED BY <2>8 DEF Shaped, Fields
  <2>10. c.cip \in Starts
    <3> HIDE DEF back, dropped
    <3>1. i.op = "retn" => c = dropped
      <4>1. i.op = "retn" => c = CHKSTACK(dropped)
        BY <2>1, <2>3
      <4>2. i.op = "retn" => Running(CHKSTACK(dropped))
        BY <4>1
      <4> HIDE DEF c
      <4> QED BY <2>9, <4>1, <4>2, StackChecked
    <3> HIDE DEF c
    <3> QED BY <1>5, <2>1, <2>8, <2>9, <3>1
  <2>11. Through(x) = m.stk .. m.stk + (2 * CELL) - 1 /\ x.first = m.stk /\ Accessible(m, x) = m.stk .. Stp - 1
    BY DEF Through, Access, Accessible, Stack
  <2>12. Accesses(m, i) = {x} /\ Pushed(i) = 0
    BY <1>5 DEF Accesses, Pushed, PushOps
  <2> HIDE DEF x
  <2>13. m.stk \in m.stk .. Stp - 1 /\ m.stk .. m.stk + (2 * CELL) - 1 \subseteq 0 .. Stp + CELL - 1
    BY <2>5, Places, MemoryAssumption DEF Laid, CELL
  <2>14. Sound(m, x)
    BY <2>11, <2>13, Domain DEF Sound
  <2>15. SoundAccesses(m, i)
    BY <2>12, <2>14 DEF SoundAccesses
  <2> HIDE DEF c
  <2> QED BY <1>1, <2>10, <2>12, <2>15, ReachedSoundly DEF HasRoom, c
<1> QED BY <1>2, <1>3, <1>4, <1>5 DEF FlowOps

\* Calls of natives push above the heap.
LEMMA HostReaches ==
  ASSUME NEW m \in Machine, Laid(m), NEW i, i.op \in HostOps, Running(CheckedHost(m, i))
  PROVE  Reached(m, i, m) /\ HasRoom(m, i)
<1>1. Accesses(m, i) = {}
  BY DEF HostOps, Accesses
<1>2. CASE i.op # "sysreq.n"
  BY <1>1, <1>2, NothingReached DEF HasRoom, HostOps, Pushed, PushOps
<1>3. CASE i.op = "sysreq.n"
  <2>1. Running(PUSH(m, i.p[2]))
    BY <1>3 DEF CheckedHost
  <2>2. m.hea <= m.stk - CELL
    BY <2>1, Pushes
  <2>3. Pushed(i) = 1
    BY <1>3 DEF Pushed, PushOps
  <2>4. HasRoom(m, i)
    BY <2>2, <2>3, Places DEF HasRoom, CELL
  <2> QED BY <1>1, <2>4, NothingReached
<1> QED BY <1>2, <1>3

\* The instructions of the remaining parts work in the registers.
LEMMA RestReaches ==
  ASSUME NEW m, NEW i, i.op \in RegisterOps \union AluOps \union {"switch"}
  PROVE  Reached(m, i, m) /\ HasRoom(m, i)
<1>1. CASE i.op \in RegisterOps \union {"switch"}
  <2>1. Accesses(m, i) = {} /\ Pushed(i) = 0
    BY <1>1 DEF Accesses, Pushed, PushOps, RegisterOps
  <2> QED BY <2>1, NothingReached DEF HasRoom
<1>2. CASE i.op \in AluOps
  <2>1. Accesses(m, i) = {} /\ Pushed(i) = 0
    BY <1>2 DEF Accesses, Pushed, PushOps, AluOps, ShiftOps, DivideOps
  <2> QED BY <2>1, NothingReached DEF HasRoom
<1> QED BY <1>1, <1>2

\* Whatever the default core executes stays in the data.
LEMMA CheckedReaches ==
  ASSUME NEW m \in Machine, Laid(m), NEW i, Verified(i), Orderly(m, i), Running(Checked(m, i))
  PROVE  /\ Reached(m, i, IF i.op = "push.s" /\ Pushed(i) > 1 THEN Checked(m, i) ELSE m)
         /\ HasRoom(m, i)
         /\ i.op \in {"ret", "retn", "jump.pri"} => Checked(m, i).cip \in Starts
<1>1. i.op \in LoadOps \union StoreOps \union RegisterOps \union StackOps \union FlowOps \union {"switch"} \union AluOps
             \union CompareOps \union BlockOps \union HostOps
  BY DEF Verified
<1>2. i.op \notin FlowOps => i.op \notin {"ret", "retn", "jump.pri"}
  BY DEF FlowOps
<1>3. i.op # "push.s" => ~(i.op = "push.s" /\ Pushed(i) > 1)
  OBVIOUS
<1>4. CASE i.op \in LoadOps \union StoreOps \union CompareOps
  <2>1. SoundAccesses(m, i)
    BY <1>4, Dispatched, LoadSound, StoreSound, CompareSound
  <2>2. i.op \notin BlockOps \union FlowOps /\ i.op # "push.s" /\ Pushed(i) = 0
    BY <1>4 DEF LoadOps, StoreOps, CompareOps, BlockOps, FlowOps, Pushed, PushOps
  <2> QED BY <1>2, <2>1, <2>2, ReachedSoundly, ReachedPlainly DEF HasRoom
<1>5. CASE i.op \in RegisterOps \union AluOps \union {"switch"}
  <2>1. i.op \notin FlowOps /\ i.op # "push.s"
    BY <1>5 DEF RegisterOps, AluOps, ShiftOps, DivideOps, FlowOps
  <2> QED BY <1>2, <1>5, <2>1, RestReaches, ReachedPlainly
<1>6. CASE i.op \in StackOps
  <2>1. i.op \notin FlowOps
    BY <1>6 DEF StackOps, FlowOps
  <2>2. Checked(m, i) = CheckedStack(m, i)
    BY <1>6, Dispatched
  <2> QED BY <1>2, <1>6, <2>1, <2>2, StackReaches
<1>7. CASE i.op \in FlowOps
  <2>1. i.op # "push.s"
    BY <1>7 DEF FlowOps
  <2>2. Checked(m, i) = CheckedFlow(m, i)
    BY <1>7, Dispatched
  <2> QED BY <1>7, <2>1, <2>2, FlowReaches, ReachedPlainly
<1>8. CASE i.op \in BlockOps
  <2>1. i.op \notin FlowOps /\ i.op # "push.s" /\ Pushed(i) = 0
    BY <1>8 DEF FlowOps, BlockOps, Pushed, PushOps
  <2>2. Checked(m, i) = CheckedBlock(m, i)
    BY <1>8, Dispatched
  <2>3. \A x \in Accesses(m, i) : Sound(m, x) /\ x.first + x.size - 1 \in Accessible(m, x)
    BY <1>8, <2>2, BlocksSound
  <2>4. Reached(m, i, m)
    BY <2>3 DEF Reached, Sound
  <2> QED BY <1>2, <2>1, <2>4, ReachedPlainly DEF HasRoom
<1>9. CASE i.op \in HostOps
  <2>1. i.op \notin FlowOps /\ i.op # "push.s"
    BY <1>9 DEF FlowOps, HostOps
  <2>2. Checked(m, i) = CheckedHost(m, i)
    BY <1>9, Dispatched
  <2> QED BY <1>2, <1>9, <2>1, <2>2, HostReaches, ReachedPlainly
<1> QED BY <1>1, <1>4, <1>5, <1>6, <1>7, <1>8, <1>9

\* An instruction is about the same memory before and after its opcode is fetched.
LEMMA FetchedSame ==
  ASSUME NEW m \in Machine, NEW i
  PROVE  /\ Accesses(Fetched(m), i) = Accesses(m, i)
         /\ \A room : Reached(Fetched(m), i, room) = Reached(m, i, room)
         /\ HasRoom(Fetched(m), i) = HasRoom(m, i)
         /\ Reached(m, i, Fetched(m)) = Reached(m, i, m)
<1> DEFINE n == Fetched(m)
<1>1. n.pri = m.pri /\ n.alt = m.alt /\ n.frm = m.frm /\ n.stk = m.stk /\ n.hea = m.hea /\ n.mem = m.mem
  BY DEF Fetched, Machine
<1> HIDE DEF n
<1>2. \A a : _R(n, a) = _R(m, a)
  BY <1>1 DEF _R
<1>3. Accesses(n, i) = Accesses(m, i)
  BY <1>1, <1>2 DEF Accesses
<1>4. \A x : Accessible(n, x) = Accessible(m, x)
  BY <1>1 DEF Accessible, Below, Stack
<1>5. (\A room : Reached(n, i, room) = Reached(m, i, room)) /\ Reached(m, i, n) = Reached(m, i, m)
  BY <1>1, <1>3, <1>4 DEF Reached
<1>6. HasRoom(n, i) = HasRoom(m, i)
  BY <1>1 DEF HasRoom
<1> QED BY <1>3, <1>5, <1>6 DEF n

\* No instruction that the default core executes reaches memory outside the data of the program or
\* starts in the free memory, pushes below the heap, or returns or jumps by a register to what is no instruction.
THEOREM CoresContained == Spec => []Contained
<1>1. Executed => Contained
  <2> SUFFICES ASSUME Executed, executed # None, Running(checked)
               PROVE  /\ Reached(machine, executed, IF executed.op = "push.s" /\ Pushed(executed) > 1 THEN checked ELSE machine)
                      /\ HasRoom(machine, executed)
                      /\ executed.op \in {"ret", "retn", "jump.pri"} => checked.cip \in Starts
    BY DEF Contained
  <2> DEFINE m == Fetched(machine)
  <2>1. machine \in Machines /\ executed \in Instructions(machine) /\ checked = Checked(m, executed)
    BY DEF Executed
  <2>2. machine \in Machine /\ m \in Machine /\ Laid(m) /\ Verified(executed) /\ Orderly(m, executed)
    BY <2>1, MayRun
  <2> HIDE DEF m
  <2>3. /\ Reached(m, executed, IF executed.op = "push.s" /\ Pushed(executed) > 1 THEN checked ELSE m)
        /\ HasRoom(m, executed)
        /\ executed.op \in {"ret", "retn", "jump.pri"} => checked.cip \in Starts
    BY <2>1, <2>2, CheckedReaches
  <2>4. /\ \A room : Reached(m, executed, room) = Reached(machine, executed, room)
        /\ HasRoom(m, executed) = HasRoom(machine, executed)
        /\ Reached(machine, executed, m) = Reached(machine, executed, machine)
    BY <2>2, FetchedSame DEF m
  <2> QED BY <2>3, <2>4
<1> QED BY <1>1, ExecutedAlways, PTL

-----------------------------------------------------------------------------
(* What is accessible passes the check. *)
Within(m, x) == Through(x) \subseteq Stack(m) \/ (x.anywhere /\ Through(x) \subseteq Below(m))

\* A cell of the frame that is in the stack is not refused.
LEMMA FramePasses ==
  ASSUME NEW m \in Machine, Laid(m), NEW o \in Int, Within(m, Access(Cell(m.frm + o), CELL, FALSE))
  PROVE  ~IS_INVALID_STACK_OFFS(m, o)
<1> DEFINE a == Cell(m.frm + o)
<1>1. a \in Int
  BY Places, CellIn, WordFacts DEF Cells
<1>2. a .. a + CELL - 1 \subseteq m.stk .. Stp - 1
  BY DEF Within, Through, Access, Stack
<1>3. IS_INVALID_STACK_OFFS(m, o) <=> (a >= Stp \/ a < m.stk)
  BY DEF IS_INVALID_STACK_OFFS
<1> HIDE DEF a
<1>4. a \in a .. a + CELL - 1
  BY <1>1 DEF CELL
<1>5. a \in m.stk .. Stp - 1
  BY <1>2, <1>4
<1> QED BY <1>1, <1>3, <1>5, Places, MemoryAssumption

\* Where a piece of accessible memory begins and ends.
LEMMA Ends ==
  ASSUME NEW m \in Machine, Laid(m), NEW a \in Int, NEW n \in Int, n > 0, Within(m, Access(a, n, TRUE))
  PROVE  \/ m.stk <= a /\ a + n <= Stp
         \/ 0 <= a /\ a + n <= m.hea
<1>1. a .. a + n - 1 \subseteq m.stk .. Stp - 1 \/ a .. a + n - 1 \subseteq 0 .. m.hea - 1
  BY DEF Within, Through, Access, Stack, Below
<1>2. a \in a .. a + n - 1 /\ a + n - 1 \in a .. a + n - 1
  OBVIOUS
<1>3. CASE a .. a + n - 1 \subseteq m.stk .. Stp - 1
  <2>1. a \in m.stk .. Stp - 1 /\ a + n - 1 \in m.stk .. Stp - 1
    BY <1>2, <1>3
  <2> QED BY <2>1, Places, MemoryAssumption
<1>4. CASE a .. a + n - 1 \subseteq 0 .. m.hea - 1
  <2>1. a \in 0 .. m.hea - 1 /\ a + n - 1 \in 0 .. m.hea - 1
    BY <1>2, <1>4
  <2> QED BY <2>1, Places
<1> QED BY <1>1, <1>3, <1>4

\* An address in the globals, the heap or the stack is not refused.
LEMMA AddressPasses ==
  ASSUME NEW m \in Machine, Laid(m), NEW a \in Int, (m.stk <= a /\ a < Stp) \/ (0 <= a /\ a < m.hea)
  PROVE  ~IS_INVALID_DATA_STACK_HEAP_OFFS(m, a) /\ Cell(a) = a
<1>1. 0 <= a /\ a < Stp /\ ~(a >= m.hea /\ a < m.stk)
  BY Places, MemoryAssumption DEF Laid
<1>2. U(a) = a /\ Cell(a) = a
  BY <1>1, WordFacts, MemoryAssumption DEF U, Cell, CELL
<1> QED BY <1>1, <1>2, MemoryAssumption DEF IS_INVALID_DATA_STACK_HEAP_OFFS

\* A pointer to accessible memory is not refused.
LEMMA PointerPasses ==
  ASSUME NEW m \in Machine, Laid(m), NEW a \in Int, NEW n \in 1 .. CELL, Within(m, Access(a, n, TRUE))
  PROVE  ~IS_INVALID_DATA_STACK_HEAP_OFFS(m, a)
<1>1. n \in Int /\ n > 0
  BY DEF CELL
<1>2. (m.stk <= a /\ a + n <= Stp) \/ (0 <= a /\ a + n <= m.hea)
  BY <1>1, Ends
<1> QED BY <1>1, <1>2, AddressPasses, Places, MemoryAssumption

\* Nor a block, unless it is all of the globals and the heap or begins at the stack pointer and is larger than its address.
LEMMA BlockPasses ==
  ASSUME NEW m \in Machine, Laid(m), NEW a \in Int, NEW n \in Int, n > 0,
         Within(m, Access(a, n, TRUE)), ~WholeMemory(m, Access(a, n, TRUE))
  PROVE  ~BadBlock(m, a, n)
<1>1. (m.stk <= a /\ a + n <= Stp) \/ (0 <= a /\ a + n <= m.hea)
  BY Ends
<1>2. ~IS_INVALID_DATA_STACK_HEAP_OFFS(m, a)
  BY <1>1, AddressPasses, Places, MemoryAssumption
<1>3. ~IS_INVALID_DATA_STACK_HEAP_OFFS(m, Cell(a + n - 1))
  <2> DEFINE b == a + n - 1
  <2>1. b \in Int /\ ((m.stk <= b /\ b < Stp) \/ (0 <= b /\ b < m.hea))
    BY <1>1, Places, MemoryAssumption DEF Laid
  <2> HIDE DEF b
  <2>2. ~IS_INVALID_DATA_STACK_HEAP_OFFS(m, b) /\ Cell(b) = b
    BY <2>1, AddressPasses
  <2>3. ~IS_INVALID_DATA_STACK_HEAP_OFFS(m, Cell(b))
    BY <2>2
  <2> QED BY <2>3 DEF b
<1>4. ~((a = 0 /\ n = m.hea) \/ (a = m.stk /\ n >= m.stk))
  BY DEF WholeMemory, Access
<1>5. ~(a <= m.hea /\ m.hea <= n) /\ ~(a <= m.stk /\ m.stk <= n)
  BY <1>1, <1>4, Places, MemoryAssumption DEF Laid
<1> QED BY <1>2, <1>3, <1>5 DEF BadBlock

\* To go on, to divide by zero, to exceed bounds and to sleep are no refusals.
LEMMA RunningIsNoRefusal == RUNNING \notin Refusals /\ UNDEFINED \notin Refusals /\ AMX_ERR_DIVIDE \notin Refusals
                            /\ AMX_ERR_BOUNDS \notin Refusals /\ AMX_ERR_SLEEP \notin Refusals
BY DEF RUNNING, UNDEFINED, Refusals, AMX_ERR_DIVIDE, AMX_ERR_BOUNDS, AMX_ERR_SLEEP, AMX_ERR_MEMACCESS, AMX_ERR_STACKERR, AMX_ERR_STACKLOW,
       AMX_ERR_HEAPLOW

\* What an instruction tests, said the other way round: with nothing to refuse it goes on.
LEMMA LoadGoes ==
  ASSUME NEW m \in Machine, NEW i, Verified(i), i.op \in LoadOps,
         i.op \in {"load.s", "lref.s", "load.s.both"} => ~IS_INVALID_STACK_OFFS(m, i.p[1]),
         i.op = "load.s.both" => ~IS_INVALID_STACK_OFFS(m, i.p[2]),
         i.op = "lref" => ~IS_INVALID_DATA_STACK_HEAP_OFFS(m, _R(m, i.p[1])),
         i.op = "lref.s" => ~IS_INVALID_DATA_STACK_HEAP_OFFS(m, _R(m, m.frm + i.p[1])),
         i.op \in {"load.i", "lodb.i"} => ~IS_INVALID_DATA_STACK_HEAP_OFFS(m, m.pri),
         i.op = "lidx" => ~IS_INVALID_DATA_STACK_HEAP_OFFS(m, Cell((m.pri * CELL) + m.alt)),
         i.op = "lidx.b" => ~IS_INVALID_DATA_STACK_HEAP_OFFS(m, Cell((m.pri * (2 ^ i.p[1])) + m.alt))
  PROVE  CheckedLoad(m, i).end = RUNNING
<1>1. i.reg \in {"pri", "alt"} \/ i.op \in {"load.both", "load.s.both"}
  BY DEF Verified, RegOps, PriOps, LoadOps
<1> QED BY <1>1 DEF CheckedLoad, LoadOps, OPHND_NEXT, Unless, Set, Both, Machine, Running

\* The same of stores.
LEMMA StoreGoes ==
  ASSUME NEW m \in Machine, NEW i, Verified(i), i.op \in StoreOps,
         i.op \in {"stor.s", "sref.s", "zero.s", "const.s"} => ~IS_INVALID_STACK_OFFS(m, i.p[1]),
         i.op = "sref" => ~IS_INVALID_DATA_STACK_HEAP_OFFS(m, _R(m, i.p[1])),
         i.op = "sref.s" => ~IS_INVALID_DATA_STACK_HEAP_OFFS(m, _R(m, m.frm + i.p[1])),
         i.op \in {"stor.i", "strb.i"} => ~IS_INVALID_DATA_STACK_HEAP_OFFS(m, m.alt)
  PROVE  CheckedStore(m, i).end = RUNNING
BY DEF CheckedStore, StoreOps, OPHND_NEXT, Unless, _W, Machine, Running

\* The same of INC and DEC.
LEMMA CompareGoes ==
  ASSUME NEW m \in Machine, NEW i, Verified(i), i.op \in CompareOps,
         i.op = "inc.s" => ~IS_INVALID_STACK_OFFS(m, i.p[1]),
         i.op = "inc.i" => ~IS_INVALID_DATA_STACK_HEAP_OFFS(m, m.pri)
  PROVE  CheckedCompare(m, i).end = RUNNING
<1>1. i.op \in {"eq.c", "inc.reg"} => i.reg \in {"pri", "alt"}
  BY DEF Verified, RegOps
<1> QED BY <1>1 DEF CheckedCompare, CompareOps, OPHND_NEXT, Unless, Set, _W, Machine, Running

\* The instructions about registers refuse nothing, but for SCTRL.
LEMMA RegisterGoes ==
  ASSUME NEW m \in Machine, NEW i, Verified(i), i.op \in RegisterOps, i.op # "sctrl"
  PROVE  CheckedRegister(m, i).end = RUNNING
<1>1. i.op \in RegOps => i.reg \in {"pri", "alt"}
  BY DEF Verified
<1> QED BY <1>1 DEF CheckedRegister, RegisterOps, RegOps, OPHND_NEXT, Set, Both, Machine, Running

\* Arithmetic refuses nothing but to divide by zero.
LEMMA AluGoes ==
  ASSUME NEW m \in Machine, NEW i, Verified(i), i.op \in AluOps
  PROVE  CheckedAlu(m, i).end \in {RUNNING, UNDEFINED, AMX_ERR_DIVIDE}
<1>1. i.op \in {"shl.c", "shr.c"} => i.reg \in {"pri", "alt"}
  BY DEF Verified, RegOps
<1> QED BY <1>1 DEF CheckedAlu, AluOps, ShiftOps, DivideOps, OPHND_NEXT, Set, Both, Ended, Abort, Machine, Running

\* Blocks with good ends go on.
LEMMA BlockGoes ==
  ASSUME NEW m \in Machine, NEW i, Verified(i), i.op \in BlockOps,
         i.op # "fill" => ~BadBlock(m, m.pri, i.p[1]), ~BadBlock(m, m.alt, i.p[1])
  PROVE  CheckedBlock(m, i).end \in {RUNNING, UNDEFINED}
BY DEF CheckedBlock, BlockOps, OPHND_NEXT, Set, Ended, Machine, Running

\* Each access is to what is accessible.
Clear(m, i) == \A x \in Accesses(m, i) : Within(m, x)

\* Of an instruction that accesses what it may, no offset in the frame is refused.
LEMMA FramesPass ==
  ASSUME NEW m \in Machine, Laid(m), NEW i, Clear(m, i), NEW o \in Int,
         Access(Cell(m.frm + o), CELL, FALSE) \in Accesses(m, i)
  PROVE  ~IS_INVALID_STACK_OFFS(m, o)
BY FramePasses DEF Clear

\* A load of what is accessible goes on.
LEMMA LoadClear ==
  ASSUME NEW m \in Machine, Laid(m), NEW i, Verified(i), Orderly(m, i), i.op \in LoadOps, Clear(m, i)
  PROVE  CheckedLoad(m, i).end = RUNNING
<1> DEFINE frame(x) == Access(Cell(m.frm + x), CELL, FALSE)
           pointer(a, size) == Access(a, size, TRUE)
<1>1. /\ i.op \in {"load.s", "lref", "lref.s", "lodb.i", "lidx.b"} => i.p[1] \in Int
      /\ i.op = "load.s.both" => i.p[1] \in Int /\ i.p[2] \in Int /\ DOMAIN i.p = {1, 2}
      /\ i.op = "lodb.i" => i.p[1] \in 1 .. CELL
  <2>1. /\ i.op \in {"load.s", "lref", "lref.s", "lodb.i", "lidx.b"} => Len(i.p) = 1
        /\ i.op = "load.s.both" => Len(i.p) = 2
    BY DEF Verified, Operands, PushOps, AluOps, ShiftOps, DivideOps
  <2>2. i.p \in Seq(Cells) /\ (i.op = "lodb.i" => i.p[1] \in {1, 2, CELL})
    BY DEF Verified
  <2> QED BY <2>1, <2>2, OperandCells DEF CELL
<1>2. \A o \in Int : frame(o) \in Accesses(m, i) => ~IS_INVALID_STACK_OFFS(m, o)
  BY FramesPass
<1>3. \A a \in Int : \A n \in 1 .. CELL : pointer(a, n) \in Accesses(m, i) => ~IS_INVALID_DATA_STACK_HEAP_OFFS(m, a)
  BY PointerPasses DEF Clear
<1>4. /\ i.op \in {"load.s", "lref.s"} => frame(i.p[1]) \in Accesses(m, i)
      /\ i.op = "load.s.both" => frame(i.p[1]) \in Accesses(m, i) /\ frame(i.p[2]) \in Accesses(m, i)
      /\ i.op = "lref" => pointer(_R(m, i.p[1]), CELL) \in Accesses(m, i)
      /\ i.op = "lref.s" => pointer(_R(m, m.frm + i.p[1]), CELL) \in Accesses(m, i)
      /\ i.op = "load.i" => pointer(m.pri, CELL) \in Accesses(m, i)
      /\ i.op = "lodb.i" => pointer(m.pri, i.p[1]) \in Accesses(m, i)
      /\ i.op = "lidx" => pointer(Cell((m.pri * CELL) + m.alt), CELL) \in Accesses(m, i)
      /\ i.op = "lidx.b" => pointer(Cell((m.pri * (2 ^ i.p[1])) + m.alt), CELL) \in Accesses(m, i)
  BY <1>1 DEF Accesses
<1>5. /\ i.op = "lref" => _R(m, i.p[1]) \in Int
      /\ i.op = "lref.s" => _R(m, m.frm + i.p[1]) \in Int
      /\ m.pri \in Int /\ Cell((m.pri * CELL) + m.alt) \in Int
      /\ i.op = "lidx.b" => Cell((m.pri * (2 ^ i.p[1])) + m.alt) \in Int
  <2>1. i.op = "lref.s" => m.frm + i.p[1] \in Int
    BY <1>1, Places
  <2>2. \A a \in Int : Cell(a) \in Int
    BY CellIn, WordFacts DEF Cells
  <2>3. (m.pri * CELL) + m.alt \in Int
    BY Places DEF CELL
  <2>4. i.op = "lidx.b" => (m.pri * (2 ^ i.p[1])) + m.alt \in Int
    <3>1. i.op = "lidx.b" => i.p[1] \in Nat
      BY <1>1 DEF Orderly
    <3>2. i.op = "lidx.b" => 2 ^ i.p[1] \in Int
      BY <3>1
    <3> QED BY <3>2, Places
  <2> QED BY <1>1, <2>1, <2>2, <2>3, <2>4, ReadCell, Places
<1>6. CELL \in 1 .. CELL
  BY DEF CELL
<1> HIDE DEF frame, pointer
<1>7. /\ i.op \in {"load.s", "lref.s", "load.s.both"} => ~IS_INVALID_STACK_OFFS(m, i.p[1])
      /\ i.op = "load.s.both" => ~IS_INVALID_STACK_OFFS(m, i.p[2])
  BY <1>1, <1>2, <1>4
<1>8. /\ i.op = "lref" => ~IS_INVALID_DATA_STACK_HEAP_OFFS(m, _R(m, i.p[1]))
      /\ i.op = "lref.s" => ~IS_INVALID_DATA_STACK_HEAP_OFFS(m, _R(m, m.frm + i.p[1]))
      /\ i.op \in {"load.i", "lodb.i"} => ~IS_INVALID_DATA_STACK_HEAP_OFFS(m, m.pri)
      /\ i.op = "lidx" => ~IS_INVALID_DATA_STACK_HEAP_OFFS(m, Cell((m.pri * CELL) + m.alt))
      /\ i.op = "lidx.b" => ~IS_INVALID_DATA_STACK_HEAP_OFFS(m, Cell((m.pri * (2 ^ i.p[1])) + m.alt))
  BY <1>1, <1>3, <1>4, <1>5, <1>6
<1> QED BY <1>7, <1>8, LoadGoes

\* So does a store.
LEMMA StoreClear ==
  ASSUME NEW m \in Machine, Laid(m), NEW i, Verified(i), i.op \in StoreOps, Clear(m, i)
  PROVE  CheckedStore(m, i).end = RUNNING
<1> DEFINE frame(x) == Access(Cell(m.frm + x), CELL, FALSE)
           pointer(a, size) == Access(a, size, TRUE)
<1>1. /\ i.op \in StoreOps \ {"stor.i"} => i.p[1] \in Int
      /\ i.op = "strb.i" => i.p[1] \in 1 .. CELL
  <2>1. i.op \in StoreOps \ {"stor.i"} => Len(i.p) \in {1, 2}
    BY DEF Verified, Operands, StoreOps, PushOps, AluOps, ShiftOps, DivideOps
  <2>2. i.op = "strb.i" => i.p[1] \in {1, 2, CELL}
    BY DEF Verified
  <2> QED BY <2>1, <2>2, OperandCells DEF CELL
<1>2. \A o \in Int : frame(o) \in Accesses(m, i) => ~IS_INVALID_STACK_OFFS(m, o)
  BY FramesPass
<1>3. \A a \in Int : \A n \in 1 .. CELL : pointer(a, n) \in Accesses(m, i) => ~IS_INVALID_DATA_STACK_HEAP_OFFS(m, a)
  BY PointerPasses DEF Clear
<1>4. /\ i.op \in {"stor.s", "sref.s", "zero.s", "const.s"} => frame(i.p[1]) \in Accesses(m, i)
      /\ i.op = "sref" => pointer(_R(m, i.p[1]), CELL) \in Accesses(m, i)
      /\ i.op = "sref.s" => pointer(_R(m, m.frm + i.p[1]), CELL) \in Accesses(m, i)
      /\ i.op = "stor.i" => pointer(m.alt, CELL) \in Accesses(m, i)
      /\ i.op = "strb.i" => pointer(m.alt, i.p[1]) \in Accesses(m, i)
  BY DEF Accesses
<1>5. /\ i.op = "sref" => _R(m, i.p[1]) \in Int
      /\ i.op = "sref.s" => _R(m, m.frm + i.p[1]) \in Int
      /\ m.alt \in Int
  <2>1. i.op = "sref.s" => m.frm + i.p[1] \in Int
    BY <1>1, Places DEF StoreOps
  <2> QED BY <1>1, <2>1, ReadCell, Places DEF StoreOps
<1>6. CELL \in 1 .. CELL
  BY DEF CELL
<1> HIDE DEF frame, pointer
<1>7. i.op \in {"stor.s", "sref.s", "zero.s", "const.s"} => ~IS_INVALID_STACK_OFFS(m, i.p[1])
  BY <1>1, <1>2, <1>4 DEF StoreOps
<1>8. /\ i.op = "sref" => ~IS_INVALID_DATA_STACK_HEAP_OFFS(m, _R(m, i.p[1]))
      /\ i.op = "sref.s" => ~IS_INVALID_DATA_STACK_HEAP_OFFS(m, _R(m, m.frm + i.p[1]))
      /\ i.op \in {"stor.i", "strb.i"} => ~IS_INVALID_DATA_STACK_HEAP_OFFS(m, m.alt)
  BY <1>1, <1>3, <1>4, <1>5, <1>6
<1> QED BY <1>7, <1>8, StoreGoes

\* So do INC and DEC.
LEMMA CompareClear ==
  ASSUME NEW m \in Machine, Laid(m), NEW i, Verified(i), i.op \in CompareOps, Clear(m, i)
  PROVE  CheckedCompare(m, i).end = RUNNING
<1>1. i.op = "inc.s" => i.p[1] \in Int
  <2>1. i.op = "inc.s" => Len(i.p) = 1
    BY DEF Verified, Operands, PushOps, AluOps, ShiftOps, DivideOps
  <2> QED BY <2>1, OperandCells
<1>2. i.op = "inc.s" => Access(Cell(m.frm + i.p[1]), CELL, FALSE) \in Accesses(m, i)
  BY DEF Accesses
<1>3. i.op = "inc.s" => ~IS_INVALID_STACK_OFFS(m, i.p[1])
  BY <1>1, <1>2, FramesPass
<1>4. i.op = "inc.i" => Within(m, Access(m.pri, CELL, TRUE))
  BY DEF Accesses, Clear
<1>5. CELL \in 1 .. CELL
  BY DEF CELL
<1>6. i.op = "inc.i" => ~IS_INVALID_DATA_STACK_HEAP_OFFS(m, m.pri)
  BY <1>4, <1>5, PointerPasses, Places
<1> QED BY <1>3, <1>6, CompareGoes

\* So do MOVS, CMPS and FILL.
LEMMA BlockClear ==
  ASSUME NEW m \in Machine, Laid(m), NEW i, Verified(i), Orderly(m, i), i.op \in BlockOps, Clear(m, i),
         \A x \in Accesses(m, i) : ~WholeMemory(m, x)
  PROVE  CheckedBlock(m, i).end \in {RUNNING, UNDEFINED}
<1>1. i.p[1] \in Int /\ i.p[1] > 0
  <2>1. Len(i.p) = 1
    BY DEF Verified, Operands, BlockOps, PushOps, AluOps, ShiftOps, DivideOps
  <2> QED BY <2>1, OperandCells DEF Orderly
<1>2. /\ i.op # "fill" => Access(m.pri, i.p[1], TRUE) \in Accesses(m, i)
      /\ Access(m.alt, i.p[1], TRUE) \in Accesses(m, i)
  BY DEF Accesses, BlockOps
<1>3. (i.op # "fill" => ~BadBlock(m, m.pri, i.p[1])) /\ ~BadBlock(m, m.alt, i.p[1])
  BY <1>1, <1>2, BlockPasses, Places DEF Clear
<1> QED BY <1>3, BlockGoes

\* Where there is room it is made, and where there are cells they are freed.
LEMMA RoomGoes ==
  ASSUME NEW m \in Machine, NEW k \in Int, m.hea <= m.stk - (k * CELL)
  PROVE  ALLOCSTACK(m, k).end = RUNNING
<1> DEFINE n == [m EXCEPT !.stk = m.stk - (k * CELL)]
<1>1. n.hea = m.hea /\ n.stk = m.stk - (k * CELL) /\ n.end = RUNNING /\ m.hea \in Int /\ n.stk \in Int
  BY WordFacts DEF Machine, CELL, Cells
<1>2. ALLOCSTACK(m, k) = CHKPUSH(n)
  BY DEF ALLOCSTACK
<1> HIDE DEF n
<1> QED BY <1>1, <1>2 DEF CHKPUSH, Unless

\* What is on the stack can be taken off it.
LEMMA FreeGoes ==
  ASSUME NEW m \in Machine, NEW k \in Int, m.stk + (k * CELL) <= Stp
  PROVE  FREESTACK(m, k) = [m EXCEPT !.stk = m.stk + (k * CELL)] /\ FREESTACK(m, k).end = RUNNING
<1> DEFINE n == [m EXCEPT !.stk = m.stk + (k * CELL)]
<1>1. n.stk = m.stk + (k * CELL) /\ n.end = RUNNING /\ n.stk \in Int
  BY WordFacts DEF Machine, CELL, Cells
<1>2. FREESTACK(m, k) = CHKSTACK(n)
  BY DEF FREESTACK
<1> HIDE DEF n
<1>3. CHKSTACK(n) = n
  BY <1>1, MemoryAssumption DEF CHKSTACK, Unless
<1> QED BY <1>1, <1>2, <1>3 DEF n

\* What fits can be pushed.
LEMMA PushGoes ==
  ASSUME NEW m \in Machine, NEW v, m.stk - CELL >= m.hea
  PROVE  PUSH(m, v).end = RUNNING
<1>1. m.hea <= m.stk - (1 * CELL)
  BY Places DEF CELL
<1>2. ALLOCSTACK(m, 1).end = RUNNING
  BY <1>1, RoomGoes
<1> DEFINE n == ALLOCSTACK(m, 1)
<1>3. Shaped(n)
  BY DEF ALLOCSTACK, CHKPUSH, Unless, Abort, Machine, Shaped, Fields
<1> HIDE DEF n
<1>4. _W(n, n.stk, v).end = n.end
  BY <1>3 DEF _W, Shaped, Fields
<1> QED BY <1>2, <1>4 DEF PUSH, Running, n

\* Where an instruction starts is code.
LEMMA TargetPasses == ASSUME NEW a \in Starts PROVE ~IS_INVALID_CODE_OFFS(a)
<1>1. a \in 0 .. CodeSize - 1 /\ a % CELL = 0
  BY MemoryAssumption
<1>2. U(a) = a
  BY <1>1, MemoryAssumption, WordFacts DEF U
<1> QED BY <1>1, <1>2, MemoryAssumption DEF IS_INVALID_CODE_OFFS

\* A computed jump to an instruction goes on.
LEMMA JumpGoes == ASSUME NEW n, Shaped(n), NEW a \in Starts PROVE JumpTo(n, a).end = n.end
BY TargetPasses DEF JumpTo, JUMP, Unless, Shaped, Fields

\* A cell of several goes on if it is in the frame.
LEMMA CellGoes ==
  ASSUME NEW n, Shaped(n), NEW m, NEW i, NEW k, Running(n), k > Len(i.p) \/ Framed(n, i, i.p[k])
  PROVE  Running(PushCell(n, m, i, k))
<1> DEFINE x == _W(n, m.stk - (k * CELL), Operand(n, i, i.p[k]))
<1>1. x.end = n.end
  BY DEF _W, Shaped, Fields
<1>2. Framed(n, i, i.p[k]) => ~Unframed(n, i, i.p[k])
  BY DEF Unframed, Framed, IS_INVALID_STACK_OFFS
<1>3. PushCell(n, m, i, k) = IF k > Len(i.p) \/ ~Running(n) THEN n
                             ELSE IF Unframed(n, i, i.p[k]) THEN Abort(n, AMX_ERR_MEMACCESS) ELSE x
  BY DEF PushCell, Unless
<1> HIDE DEF x
<1> QED BY <1>1, <1>2, <1>3 DEF Running

\* All of them do, if there is room.
LEMMA TogetherGoes ==
  ASSUME NEW m \in Machine, NEW i, Len(i.p) \in 1 .. 5, m.hea <= m.stk - (Len(i.p) * CELL),
         \A k \in 1 .. Len(i.p) : Framed([m EXCEPT !.stk = m.stk - (Len(i.p) * CELL)], i, i.p[k])
  PROVE  Running(PushTogether(m, i)) /\ Shaped(PushTogether(m, i))
<1> DEFINE l == Len(i.p)
           n == ALLOCSTACK(m, l)
           n1 == PushCell(n, m, i, 1)
           n2 == PushCell(n1, m, i, 2)
           n3 == PushCell(n2, m, i, 3)
           n4 == PushCell(n3, m, i, 4)
           n5 == PushCell(n4, m, i, 5)
           s == m.stk - (l * CELL)
           At(x) == Shaped(x) /\ x.stk = s /\ x.frm = m.frm
<1>1. At(n)
  BY DEF ALLOCSTACK, CHKPUSH, Unless, Abort, Machine, Shaped, Fields
<1>2. Running(n)
  <2>1. l \in Int
    OBVIOUS
  <2> HIDE DEF l
  <2>2. m.hea <= s
    BY DEF l
  <2> QED BY <2>1, <2>2, RoomGoes DEF Running
<1>3. PushTogether(m, i) = n5
  BY DEF PushTogether
<1>4. \A x : \A k \in 1 .. 5 : At(x) => k > l \/ Framed(x, i, i.p[k])
  <2> SUFFICES ASSUME NEW x, NEW k \in 1 .. 5, At(x) PROVE k > l \/ Framed(x, i, i.p[k])
    OBVIOUS
  <2>1. k > l \/ k \in 1 .. l
    <3>1. l \in 1 .. 5
      OBVIOUS
    <3> HIDE DEF l
    <3> QED BY <3>1
  <2>2. k \in 1 .. l => Framed([m EXCEPT !.stk = s], i, i.p[k])
    OBVIOUS
  <2>3. Framed([m EXCEPT !.stk = s], i, i.p[k]) => Framed(x, i, i.p[k])
    BY DEF Framed, Machine
  <2> QED BY <2>1, <2>2, <2>3
<1> HIDE DEF n, s
<1>5. At(n1) /\ Running(n1)
  BY <1>1, <1>2, <1>4, CellTested, CellGoes
<1> HIDE DEF n1
<1>6. At(n2) /\ Running(n2)
  BY <1>4, <1>5, CellTested, CellGoes
<1> HIDE DEF n2
<1>7. At(n3) /\ Running(n3)
  BY <1>4, <1>6, CellTested, CellGoes
<1> HIDE DEF n3
<1>8. At(n4) /\ Running(n4)
  BY <1>4, <1>7, CellTested, CellGoes
<1> HIDE DEF n4
<1>9. At(n5) /\ Running(n5)
  BY <1>4, <1>8, CellTested, CellGoes
<1> QED BY <1>3, <1>9

\* Passing the operands ends nothing.
LEMMA NextGoes == ASSUME NEW n, Shaped(n), NEW k PROVE OPHND_NEXT(n, k).end = n.end
BY NextKeeps

\* The instructions about the stack go on where there is room and what they read is there.
LEMMA StackClear ==
  ASSUME NEW m \in Machine, Laid(m), NEW i, Verified(i), Orderly(m, i), i.op \in StackOps \ {"stack", "heap"}, Clear(m, i),
         m.stk - (Pushed(i) * CELL) >= m.hea
  PROVE  CheckedStack(m, i).end = RUNNING
<1> DEFINE c == CheckedStack(m, i)
           o == i.p[1]
<1>1. i.op \in PushOps => Len(i.p) \in 1 .. 5
  BY DEF Verified, Operands, PushOps, AluOps, ShiftOps, DivideOps
<1>2. CASE i.op = "push.reg"
  <2>1. c = OPHND_NEXT(PUSH(m, m[i.reg]), Len(i.p))
    BY <1>2 DEF CheckedStack, PushOps
  <2>2. m.stk - CELL >= m.hea
    BY <1>2 DEF Pushed, PushOps, CELL
  <2>3. PUSH(m, m[i.reg]).end = RUNNING /\ Shaped(PUSH(m, m[i.reg]))
    BY <2>2, PushGoes, KeepsPush DEF Keeps
  <2> QED BY <2>1, <2>3, NextGoes
<1>3. CASE i.op = "push.r"
  <2> DEFINE r == ALLOCSTACK(m, o)
             filled == [r EXCEPT !.mem = Filled(r.mem, r.stk, m.pri, o * CELL)]
             n == IF Running(r) THEN filled ELSE r
  <2>1. c = OPHND_NEXT(n, Len(i.p))
    BY <1>3 DEF CheckedStack, PushOps
  <2>2. o \in Nat
    <3>1. Len(i.p) = 1
      BY <1>3 DEF Verified, Operands, PushOps, AluOps, ShiftOps, DivideOps
    <3> QED BY <1>3, <3>1, OperandCells DEF Orderly
  <2>3. m.stk - (o * CELL) >= m.hea
    BY <1>3 DEF Pushed, PushOps
  <2>4. r.end = RUNNING /\ Shaped(r)
    <3>1. m.hea <= m.stk - (o * CELL)
      BY <2>2, <2>3, Places DEF CELL
    <3> QED BY <2>2, <3>1, RoomGoes, KeepsRoom DEF Keeps
  <2> HIDE DEF r
  <2>5. Shaped(n) /\ n.end = RUNNING
    BY <2>4 DEF Shaped, Fields
  <2> HIDE DEF n
  <2> QED BY <2>1, <2>5, NextGoes
<1>4. CASE i.op \in PushOps /\ Len(i.p) = 1
  <2> DEFINE v == Operand(m, i, o)
             n == Unless(Unframed(m, i, o), AMX_ERR_MEMACCESS, m, PUSH(m, v))
  <2>1. c = OPHND_NEXT(n, Len(i.p))
    BY <1>4 DEF CheckedStack, PushOps
  <2>2. o \in Int
    BY <1>4, OperandCells
  <2>3. i.op = "push.s" => Access(Cell(m.frm + o), CELL, FALSE) \in Accesses(m, i)
    <3>1. 1 \in DOMAIN i.p
      <4>1. i.p \in Seq(Cells)
        BY DEF Verified
      <4> QED BY <1>4, <4>1
    <3>2. i.op = "push.s" => Accesses(m, i) = {Access(Cell(m.frm + i.p[k]), CELL, FALSE) : k \in DOMAIN i.p}
      BY DEF Accesses
    <3> QED BY <3>1, <3>2
  <2>4. ~Unframed(m, i, o)
    BY <2>2, <2>3, FramesPass DEF Unframed
  <2>5. m.stk - CELL >= m.hea
    BY <1>4 DEF Pushed, PushOps, CELL
  <2>6. PUSH(m, v).end = RUNNING /\ Shaped(PUSH(m, v))
    BY <2>5, PushGoes, KeepsPush DEF Keeps
  <2>7. n = PUSH(m, v)
    BY <2>4 DEF Unless
  <2> QED BY <2>1, <2>6, <2>7, NextGoes
<1>5. CASE i.op \in PushOps /\ Len(i.p) > 1
  <2> DEFINE n == PushTogether(m, i)
             l == Len(i.p)
             s == m.stk - (l * CELL)
  <2>1. c = OPHND_NEXT(n, l)
    BY <1>5 DEF CheckedStack, PushOps
  <2>2. Pushed(i) = l /\ l \in 1 .. 5
    BY <1>1, <1>5 DEF Pushed, PushOps
  <2>3. s \in Int /\ s <= m.stk /\ m.hea <= s
    <3>1. m.stk - (l * CELL) >= m.hea
      BY <2>2
    <3> HIDE DEF l
    <3> QED BY <2>2, <3>1, Places DEF CELL
  <2>4. ASSUME NEW k \in 1 .. l PROVE Framed([m EXCEPT !.stk = s], i, i.p[k])
    <3> DEFINE a == Cell(m.frm + i.p[k])
    <3>1. i.p[k] \in Int
      BY OperandCells
    <3>2. i.op = "push.s" => Access(a, CELL, FALSE) \in Accesses(m, i)
      <4>1. k \in DOMAIN i.p
        <5>1. i.p \in Seq(Cells)
          BY DEF Verified
        <5> QED BY <5>1
      <4>2. i.op = "push.s" => Accesses(m, i) = {Access(Cell(m.frm + i.p[x]), CELL, FALSE) : x \in DOMAIN i.p}
        BY DEF Accesses
      <4> QED BY <4>1, <4>2
    <3>3. i.op = "push.s" => ~IS_INVALID_STACK_OFFS(m, i.p[k])
      BY <3>1, <3>2, FramesPass
    <3>4. i.op = "push.s" => ~(a >= Stp) /\ ~(a < m.stk)
      BY <3>3 DEF IS_INVALID_STACK_OFFS
    <3>5. a \in Int
      <4>1. m.frm + i.p[k] \in Int
        BY <3>1, Places
      <4> QED BY <4>1, CellIn, WordFacts DEF Cells
    <3>6. [m EXCEPT !.stk = s].stk = s /\ [m EXCEPT !.stk = s].frm = m.frm
      BY DEF Machine
    <3>7. (i.op = "push.s" => ~(a >= Stp \/ a < s)) => Framed([m EXCEPT !.stk = s], i, i.p[k])
      BY <3>6 DEF Framed
    <3> HIDE DEF a, s
    <3>8. i.op = "push.s" => ~(a >= Stp \/ a < s)
      BY <2>3, <3>4, <3>5, Places
    <3> QED BY <3>7, <3>8
  <2>5. Running(n) /\ Shaped(n)
    BY <2>2, <2>3, <2>4, TogetherGoes
  <2> HIDE DEF n
  <2> QED BY <2>1, <2>5, NextGoes DEF Running
<1>6. CASE i.op = "pop"
  <2> DEFINE v == _R(m, m.stk)
             n == Set(m, i.reg, v)
  <2>1. c = OPHND_NEXT(POP(m, i.reg), Len(i.p)) /\ POP(m, i.reg) = FREESTACK(n, 1)
    BY <1>6 DEF CheckedStack, PushOps, POP
  <2>2. i.reg \in {"pri", "alt"}
    BY <1>6 DEF Verified, RegOps
  <2>3. n \in Machine /\ n.stk = m.stk
    <3>1. v \in Cells
      BY ReadCell, Places
    <3> HIDE DEF v
    <3> QED BY <2>2, <3>1 DEF Set, Machine
  <2>4. m.stk + CELL <= Stp
    <3>1. Within(m, Access(m.stk, CELL, FALSE))
      BY <1>6 DEF Accesses, Clear
    <3>2. m.stk .. m.stk + CELL - 1 \subseteq m.stk .. Stp - 1
      BY <3>1 DEF Within, Through, Access, Stack
    <3>3. m.stk + CELL - 1 \in m.stk .. m.stk + CELL - 1
      BY Places DEF CELL
    <3> QED BY <3>2, <3>3, Places, MemoryAssumption DEF CELL
  <2> HIDE DEF n
  <2>5. FREESTACK(n, 1).end = RUNNING
    <3>1. n.stk + (1 * CELL) <= Stp
      BY <2>3, <2>4 DEF CELL
    <3> QED BY <2>3, <3>1, FreeGoes
  <2>6. Shaped(POP(m, i.reg))
    BY <2>2, KeepsPop DEF Keeps
  <2> QED BY <2>1, <2>5, <2>6, NextGoes
<1>7. CASE i.op = "swap"
  <2>1. i.reg \in {"pri", "alt"}
    BY <1>7 DEF Verified, RegOps
  <2> QED BY <1>7, <2>1 DEF CheckedStack, PushOps, Set, _W, OPHND_NEXT, Machine
<1>8. i.op \in PushOps => Len(i.p) = 1 \/ Len(i.p) > 1
  <2> DEFINE l == Len(i.p)
  <2> SUFFICES ASSUME l \in 1 .. 5 PROVE l = 1 \/ l > 1
    BY <1>1
  <2> HIDE DEF l
  <2> QED OBVIOUS
<1> QED BY <1>2, <1>3, <1>4, <1>5, <1>6, <1>7, <1>8 DEF StackOps, PushOps

\* So do calls, and returns and jumps to instructions.
LEMMA FlowClear ==
  ASSUME NEW m \in Machine, Laid(m), NEW i, Verified(i), i.op \in FlowOps \ {"retn"}, Clear(m, i),
         m.stk - (Pushed(i) * CELL) >= m.hea,
         i.op \in {"ret", "call.pri", "jump.pri"} => Target(m, i) \in Starts
  PROVE  CheckedFlow(m, i).end = RUNNING
<1> DEFINE c == CheckedFlow(m, i)
<1>1. CASE i.op \in {"jump", "jrel", "jzer", "jnz", "jump.if"}
  BY <1>1 DEF CheckedFlow, JUMP, OPHND_NEXT, Machine
<1>2. CASE i.op = "jump.pri"
  <2>1. c = JumpTo(m, m.pri) /\ m.pri \in Starts
    BY <1>2 DEF CheckedFlow, Target
  <2> QED BY <2>1, JumpGoes, MachineShaped DEF Running
<1>3. CASE i.op \in {"proc", "call", "call.pri"}
  <2> DEFINE v == CASE i.op = "proc" -> m.frm [] i.op = "call" -> m.cip + CELL [] i.op = "call.pri" -> m.cip
             n == PUSH(m, v)
  <2>1. m.stk - CELL >= m.hea
    BY <1>3 DEF Pushed, PushOps, CELL
  <2>2. n.end = RUNNING /\ Shaped(n)
    BY <2>1, PushGoes, KeepsPush DEF Keeps
  <2>3. i.op = "call.pri" => ~IS_INVALID_CODE_OFFS(m.pri)
    BY TargetPasses DEF Target
  <2>4. i.op = "proc" => c = IF Running(n) THEN [n EXCEPT !.frm = n.stk] ELSE n
    BY DEF CheckedFlow
  <2>5. i.op = "call" => c = IF Running(n) THEN JUMP(n, i.p[1]) ELSE n
    BY DEF CheckedFlow
  <2>6. i.op = "call.pri" => c = IF Running(n) THEN JUMP(n, m.pri) ELSE n
    BY <2>3 DEF CheckedFlow, Unless
  <2> HIDE DEF n, c
  <2>7. c.end = RUNNING
    BY <1>3, <2>2, <2>4, <2>5, <2>6 DEF JUMP, Shaped, Fields
  <2> QED BY <2>7 DEF c
<1>4. CASE i.op = "ret"
  <2> DEFINE freed == FREESTACK(m, 2)
             framed == [freed EXCEPT !.frm = _R(m, m.stk)]
  <2>1. c = IF Running(freed) THEN JumpTo(framed, _R(m, m.stk + CELL)) ELSE freed
    BY <1>4 DEF CheckedFlow
  <2>2. _R(m, m.stk + CELL) \in Starts
    BY <1>4 DEF Target
  <2>3. m.stk + (2 * CELL) <= Stp
    <3>1. Within(m, Access(m.stk, 2 * CELL, FALSE))
      BY <1>4 DEF Accesses, Clear
    <3>2. m.stk .. m.stk + (2 * CELL) - 1 \subseteq m.stk .. Stp - 1
      BY <3>1 DEF Within, Through, Access, Stack
    <3>3. m.stk + (2 * CELL) - 1 \in m.stk .. m.stk + (2 * CELL) - 1
      BY Places DEF CELL
    <3> QED BY <3>2, <3>3, Places, MemoryAssumption DEF CELL
  <2>4. freed.end = RUNNING /\ Shaped(freed)
    BY <2>3, FreeGoes, KeepsRoom DEF Keeps
  <2> HIDE DEF freed
  <2>5. Shaped(framed) /\ framed.end = RUNNING
    BY <2>4 DEF Shaped, Fields
  <2> HIDE DEF framed, c
  <2>6. c.end = RUNNING
    BY <2>1, <2>2, <2>4, <2>5, JumpGoes DEF Running
  <2> QED BY <2>6 DEF c
<1> QED BY <1>1, <1>2, <1>3, <1>4 DEF FlowOps

\* A native that reports no such error is no refusal.
LEMMA HostClear ==
  ASSUME NEW m \in Machine, Laid(m), NEW i, Verified(i), i.op \in HostOps,
         m.stk - (Pushed(i) * CELL) >= m.hea,
         i.op = "halt" => i.p[1] \notin Refusals,
         i.op \in {"sysreq", "sysreq.n", "break"} => i.error \notin Refusals
  PROVE  CheckedHost(m, i).end \notin Refusals
<1>1. CASE i.op \in {"halt", "bounds"}
  <2>1. CheckedHost(m, i).end \in {i.p[1], RUNNING, AMX_ERR_BOUNDS}
    BY <1>1 DEF CheckedHost, Unless, Abort, OPHND_NEXT, Machine
  <2>2. i.op = "bounds" => CheckedHost(m, i).end \in {RUNNING, AMX_ERR_BOUNDS}
    BY DEF CheckedHost, Unless, Abort, OPHND_NEXT, Machine
  <2> QED BY <1>1, <2>1, <2>2, RunningIsNoRefusal
<1>2. CASE i.op \in {"sysreq", "sysreq.n", "break"}
  <2> DEFINE n == PUSH(m, i.p[2])
             pushed == IF i.op = "sysreq.n" THEN n ELSE m
             seen == [pushed EXCEPT !.out.hea = pushed.hea, !.out.frm = pushed.frm, !.out.stk = pushed.stk]
             value == IF i.op = "break" THEN seen ELSE [seen EXCEPT !.pri = i.answer]
             after == IF i.op = "sysreq.n" THEN [value EXCEPT !.stk = value.stk + i.p[2] + CELL] ELSE value
             slept == [after EXCEPT !.end = AMX_ERR_SLEEP, !.out.pri = after.pri, !.out.alt = after.alt]
  <2>1. i.op = "sysreq.n" => m.stk - CELL >= m.hea
    BY DEF Pushed, PushOps, CELL
  <2>2. i.op = "sysreq.n" => n.end = RUNNING /\ Shaped(n)
    BY <2>1, PushGoes, KeepsPush DEF Keeps
  <2> HIDE DEF n
  <2>3. Shaped(pushed) /\ pushed.end = RUNNING
    BY <2>2, MachineShaped DEF Running
  <2>4. CheckedHost(m, i) = IF ~Running(pushed) THEN pushed
                            ELSE IF i.error = AMX_ERR_SLEEP THEN slept
                            ELSE IF i.error # 0 THEN Abort(after, i.error)
                            ELSE OPHND_NEXT(after, Len(i.p))
    BY <1>2 DEF CheckedHost, n
  <2> HIDE DEF pushed
  <2>5. Shaped(seen) /\ seen.end = RUNNING
    BY <2>3 DEF Shaped, Fields
  <2> HIDE DEF seen
  <2>6. Shaped(value) /\ value.end = RUNNING
    BY <2>5 DEF Shaped, Fields
  <2> HIDE DEF value
  <2>7. Shaped(after) /\ after.end = RUNNING
    BY <2>6 DEF Shaped, Fields
  <2> HIDE DEF after
  <2>8. slept.end = AMX_ERR_SLEEP
    BY <2>7 DEF Shaped, Fields
  <2>9. Abort(after, i.error).end = i.error
    BY <2>7 DEF Abort, Shaped, Fields
  <2>10. OPHND_NEXT(after, Len(i.p)).end = RUNNING
    BY <2>7, NextGoes
  <2> HIDE DEF slept
  <2> QED BY <1>2, <2>3, <2>4, <2>8, <2>9, <2>10, RunningIsNoRefusal
<1> QED BY <1>1, <1>2 DEF HostOps

\* Whatever a program may do, the default core does not refuse.
LEMMA CheckedClear ==
  ASSUME NEW m \in Machine, Laid(m), NEW i, Verified(i), Orderly(m, i), i.op \notin {"stack", "heap", "sctrl", "retn"},
         Clear(m, i), i.op \in BlockOps => \A x \in Accesses(m, i) : ~WholeMemory(m, x),
         m.stk - (Pushed(i) * CELL) >= m.hea,
         i.op \in {"ret", "call.pri", "jump.pri"} => Target(m, i) \in Starts,
         i.op = "halt" => i.p[1] \notin Refusals,
         i.op \in {"sysreq", "sysreq.n", "break"} => i.error \notin Refusals
  PROVE  Checked(m, i).end \notin Refusals
<1>1. i.op \in LoadOps \union StoreOps \union RegisterOps \union StackOps \union FlowOps \union {"switch"} \union AluOps
             \union CompareOps \union BlockOps \union HostOps
  BY DEF Verified
<1>2. CASE i.op \in LoadOps \union StoreOps
  BY <1>2, Dispatched, LoadClear, StoreClear, RunningIsNoRefusal
<1>3. CASE i.op \in RegisterOps \union CompareOps
  BY <1>3, Dispatched, RegisterGoes, CompareClear, RunningIsNoRefusal
<1>4. CASE i.op \in StackOps
  BY <1>4, Dispatched, StackClear, RunningIsNoRefusal
<1>5. CASE i.op \in FlowOps
  BY <1>5, Dispatched, FlowClear, RunningIsNoRefusal
<1>6. CASE i.op = "switch"
  <2>1. Checked(m, i) = JUMP(m, Searched(i.table, m.pri))
    BY <1>6, Dispatched DEF CheckedSwitch
  <2> QED BY <2>1, RunningIsNoRefusal DEF JUMP, Machine
<1>7. CASE i.op \in AluOps
  BY <1>7, Dispatched, AluGoes, RunningIsNoRefusal
<1>8. CASE i.op \in BlockOps
  BY <1>8, Dispatched, BlockClear, RunningIsNoRefusal
<1>9. CASE i.op \in HostOps
  BY <1>9, Dispatched, HostClear
<1> QED BY <1>1, <1>2, <1>3, <1>4, <1>5, <1>6, <1>7, <1>8, <1>9

\* The default core refuses nothing that a program may do: what reads, writes, pushes and jumps where
\* it may is not stopped with an error of memory, stack or heap.
THEOREM CoresNoFalseAlarm == Spec => []NoFalseAlarm
<1>1. Executed => NoFalseAlarm
  <2> DEFINE n == Fetched(machine)
             i == executed
             near(x) == Through(x) \subseteq Stack(machine) \/ (x.anywhere /\ Through(x) \subseteq Below(machine))
             legal == /\ \A x \in Accesses(machine, i) : near(x) /\ ~(i.op \in BlockOps /\ WholeMemory(machine, x))
                      /\ machine.stk - (Pushed(i) * CELL) >= machine.hea
                      /\ i.op \in {"ret", "call.pri", "jump.pri"} => Target(machine, i) \in Starts
                      /\ i.op = "halt" => i.p[1] \notin Refusals
                      /\ i.op \in {"sysreq", "sysreq.n", "break"} => i.error \notin Refusals
  <2> SUFFICES ASSUME Executed, i # None, i.op \notin {"stack", "heap", "sctrl", "retn"}, legal
               PROVE  checked.end \notin Refusals
    BY DEF NoFalseAlarm
  <2>1. machine \in Machines /\ i \in Instructions(machine) /\ checked = Checked(n, i)
    BY DEF Executed
  <2>2. machine \in Machine /\ n \in Machine /\ Laid(n) /\ Verified(i) /\ Orderly(n, i)
        /\ n.pri = machine.pri /\ n.stk = machine.stk /\ n.hea = machine.hea /\ n.mem = machine.mem
    BY <2>1, MayRun
  <2>3. Accesses(n, i) = Accesses(machine, i)
    BY <2>2, FetchedSame
  <2> HIDE DEF n
  <2>4. Clear(n, i)
    BY <2>2, <2>3 DEF Clear, Within, Stack, Below
  <2>5. i.op \in BlockOps => \A x \in Accesses(n, i) : ~WholeMemory(n, x)
    BY <2>2, <2>3 DEF WholeMemory
  <2>6. Target(n, i) = Target(machine, i)
    BY <2>2 DEF Target, _R
  <2> QED BY <2>1, <2>2, <2>4, <2>5, <2>6, CheckedClear
<1> QED BY <1>1, ExecutedAlways, PTL

-----------------------------------------------------------------------------
(* What neither core refuses, both do alike. *)
LEMMA NextSkips == ASSUME NEW n, NEW k PROVE OPHND_NEXT(n, k) = SKIPPARAM(n, k)
BY DEF OPHND_NEXT, SKIPPARAM

\* A machine that a check has stopped was not served.
LEMMA NotServed ==
  ASSUME NEW n, Shaped(n)
  PROVE  /\ ~Served(Abort(n, AMX_ERR_MEMACCESS)) /\ ~Served(Abort(n, AMX_ERR_STACKERR)) /\ ~Served(Abort(n, AMX_ERR_STACKLOW))
         /\ ~Served(Abort(n, AMX_ERR_HEAPLOW)) /\ ~Served(Ended(n, UNDEFINED))
         /\ ~Served(ABORT(n, AMX_ERR_MEMACCESS)) /\ ~Served(Ended(n, AMX_ERR_STACKERR)) /\ ~Served(Ended(n, AMX_ERR_STACKLOW))
         /\ ~Served(Ended(n, AMX_ERR_HEAPLOW))
<1>1. \A e : Abort(n, e).end = e /\ ABORT(n, e).end = e /\ Ended(n, e).end = e
  BY DEF Abort, ABORT, Ended, Shaped, Fields
<1> QED BY <1>1 DEF Served, Refusals

\* Passing the operands does not change that.
LEMMA ServedNext == ASSUME NEW n, Shaped(n), NEW k PROVE Served(OPHND_NEXT(n, k)) = Served(n)
BY NextKeeps DEF Served

\* Not even behind a refusal.
LEMMA RefusedNext ==
  ASSUME NEW m \in Machine, NEW k
  PROVE  ~Served(OPHND_NEXT(Abort(m, AMX_ERR_MEMACCESS), k)) /\ ~Served(OPHND_NEXT(ABORT(m, AMX_ERR_MEMACCESS), k))
<1>1. Shaped(Abort(m, AMX_ERR_MEMACCESS)) /\ Shaped(ABORT(m, AMX_ERR_MEMACCESS))
  BY DEF Abort, ABORT, Shaped, Fields, Machine
<1> QED BY <1>1, NotServed, ServedNext, MachineShaped

\* A register set and the operands passed, in either order.
LEMMA SetNext ==
  ASSUME NEW m \in Machine, NEW k, NEW v
  PROVE  /\ OPHND_NEXT(Set(m, "pri", v), k) = Set(SKIPPARAM(m, k), "pri", v)
         /\ OPHND_NEXT(Set(m, "alt", v), k) = Set(SKIPPARAM(m, k), "alt", v)
BY DEF OPHND_NEXT, SKIPPARAM, Set, Machine, Running

\* To pass no operand changes nothing.
LEMMA NothingSkipped ==
  ASSUME NEW m \in Machine, NEW v
  PROVE  SKIPPARAM(Set(m, "pri", v), 0) = Set(m, "pri", v) /\ SKIPPARAM(Set(m, "alt", v), 0) = Set(m, "alt", v)
<1>1. SKIPPARAM(m, 0) = m
  <2>1. m.cip + (0 * CELL) = m.cip
    BY DEF Machine, CELL
  <2>2. [m EXCEPT !.cip = m.cip] = m
    BY DEF Machine
  <2> QED BY <2>1, <2>2 DEF SKIPPARAM
<1> QED BY <1>1, NextSkips, SetNext

\* Loads that neither core refuses.
LEMMA LoadAlike ==
  ASSUME NEW m \in Machine, NEW i, Verified(i), i.op \in LoadOps, Served(CheckedLoad(m, i)), Served(ClassicLoad(m, i))
  PROVE  CheckedLoad(m, i) = ClassicLoad(m, i)
<1>1. ~Served(OPHND_NEXT(Abort(m, AMX_ERR_MEMACCESS), Len(i.p))) /\ ~Served(OPHND_NEXT(ABORT(m, AMX_ERR_MEMACCESS), Len(i.p)))
  BY RefusedNext
<1>2. \A n : OPHND_NEXT(n, Len(i.p)) = SKIPPARAM(n, Len(i.p))
  BY NextSkips
<1>3. i.op \in PriOps => i.reg = "pri"
  BY DEF Verified
<1>4. \A a : Refused(m, a) <=> IS_INVALID_DATA_STACK_HEAP_OFFS(m, a)
  BY DEF Refused, IS_INVALID_DATA_STACK_HEAP_OFFS
<1> QED BY <1>1, <1>2, <1>3, <1>4 DEF CheckedLoad, ClassicLoad, LoadOps, PriOps, Unless, If, _R, Set, Both

\* Stores that neither core refuses.
LEMMA StoreAlike ==
  ASSUME NEW m \in Machine, NEW i, Verified(i), i.op \in StoreOps, Served(CheckedStore(m, i)), Served(ClassicStore(m, i))
  PROVE  CheckedStore(m, i) = ClassicStore(m, i)
<1>1. ~Served(OPHND_NEXT(Abort(m, AMX_ERR_MEMACCESS), Len(i.p))) /\ ~Served(OPHND_NEXT(ABORT(m, AMX_ERR_MEMACCESS), Len(i.p)))
  BY RefusedNext
<1>2. \A n : OPHND_NEXT(n, Len(i.p)) = SKIPPARAM(n, Len(i.p))
  BY NextSkips
<1>3. i.op \in PriOps => i.reg = "pri"
  BY DEF Verified
<1>4. \A a : Refused(m, a) <=> IS_INVALID_DATA_STACK_HEAP_OFFS(m, a)
  BY DEF Refused, IS_INVALID_DATA_STACK_HEAP_OFFS
<1> QED BY <1>1, <1>2, <1>3, <1>4 DEF CheckedStore, ClassicStore, StoreOps, PriOps, Unless, If, _W

\* Comparing and counting; INC_I is not among them.
LEMMA CompareAlike ==
  ASSUME NEW m \in Machine, NEW i, Verified(i), i.op \in CompareOps \ {"inc.i"}, Served(CheckedCompare(m, i))
  PROVE  CheckedCompare(m, i) = ClassicCompare(m, i)
<1>1. ~Served(OPHND_NEXT(Abort(m, AMX_ERR_MEMACCESS), 1))
  BY RefusedNext
<1>2. \A n : OPHND_NEXT(n, 1) = SKIPPARAM(n, 1)
  BY NextSkips
<1>3. /\ i.op \in {"test", "inc.reg"} => Len(i.p) = 0
      /\ i.op \in {"eq.c", "inc", "inc.s"} => Len(i.p) = 1
  BY DEF Verified, Operands, PushOps, AluOps, ShiftOps, DivideOps
<1>4. i.op = "inc.reg" => i.reg \in {"pri", "alt"}
  BY DEF Verified, RegOps
<1>5. \A v : SKIPPARAM(Set(m, "pri", v), 0) = Set(m, "pri", v) /\ SKIPPARAM(Set(m, "alt", v), 0) = Set(m, "alt", v)
  BY NothingSkipped
<1>6. CASE i.op = "test"
  BY <1>3, <1>5, <1>6 DEF CheckedCompare, ClassicCompare
<1>7. CASE i.op = "inc.reg"
  BY <1>3, <1>4, <1>5, <1>7 DEF CheckedCompare, ClassicCompare
<1>8. CASE i.op \in {"eq.c", "inc", "inc.s"}
  BY <1>1, <1>2, <1>3, <1>8 DEF CheckedCompare, ClassicCompare, Unless
<1> QED BY <1>6, <1>7, <1>8 DEF CompareOps

\* Blocks that neither core refuses.
LEMMA BlockAlike ==
  ASSUME NEW m \in Machine, NEW i, Verified(i), i.op \in BlockOps, Served(CheckedBlock(m, i)), Served(ClassicBlock(m, i))
  PROVE  CheckedBlock(m, i) = ClassicBlock(m, i)
<1>1. ~Served(Abort(m, AMX_ERR_MEMACCESS)) /\ ~Served(ABORT(m, AMX_ERR_MEMACCESS)) /\ ~Served(Ended(m, UNDEFINED))
  BY NotServed, MachineShaped
<1>2. \A n : OPHND_NEXT(n, 1) = SKIPPARAM(n, 1)
  BY NextSkips
<1> QED BY <1>1, <1>2 DEF CheckedBlock, ClassicBlock, BlockOps

\* A division by zero stops both, with the caller's stack and heap.
Stopped(n, e) == n.end = e /\ n.out.stk = ResetStk /\ n.out.hea = ResetHea

\* Both ways to abort give the caller its stack and heap back.
LEMMA Stops == ASSUME NEW m \in Machine, NEW e PROVE Stopped(Abort(m, e), e) /\ Stopped(ABORT(m, e), e)
BY DEF Stopped, Abort, ABORT, Machine, Host

\* Arithmetic is the same, and both stop at a division by zero.
LEMMA AluAlike ==
  ASSUME NEW m \in Machine, NEW i, i.op \in AluOps
  PROVE  \/ CheckedAlu(m, i) = ClassicAlu(m, i)
         \/ Stopped(CheckedAlu(m, i), AMX_ERR_DIVIDE) /\ Stopped(ClassicAlu(m, i), AMX_ERR_DIVIDE)
<1>1. \A n : OPHND_NEXT(n, Len(i.p)) = SKIPPARAM(n, Len(i.p))
  BY NextSkips
<1>2. Stopped(Abort(m, AMX_ERR_DIVIDE), AMX_ERR_DIVIDE) /\ Stopped(ABORT(m, AMX_ERR_DIVIDE), AMX_ERR_DIVIDE)
  BY Stops
<1>3. CASE i.op \in DivideOps /\ Divisor(m, i) = 0
  BY <1>2, <1>3 DEF CheckedAlu, ClassicAlu
<1>4. CASE ~(i.op \in DivideOps /\ Divisor(m, i) = 0)
  BY <1>1, <1>4 DEF CheckedAlu, ClassicAlu, AluOps, ShiftOps, DivideOps
<1> QED BY <1>3, <1>4

\* A check that refuses nothing changes nothing.
LEMMA ServedChecks ==
  ASSUME NEW n, Shaped(n)
  PROVE  /\ Served(CHKHEAP(CHKMARGIN(n))) => n = CHKHEAP(CHKMARGIN(n))
         /\ Served(CHKSTACK(CHKMARGIN(n))) => n = CHKSTACK(CHKMARGIN(n))
         /\ Served(CHKSTACK(n)) => n = CHKSTACK(n)
         /\ Served(CHKPUSH(n)) => n = CHKPUSH(n)
         /\ Served(CSTACK(CMARGIN(n))) => n = CSTACK(CMARGIN(n))
         /\ Served(CHEAP(CMARGIN(n))) => n = CHEAP(CMARGIN(n))
         /\ Served(CMARGIN(n)) => n = CMARGIN(n)
<1>1. /\ ~Served(Abort(n, AMX_ERR_STACKERR)) /\ ~Served(Abort(n, AMX_ERR_STACKLOW)) /\ ~Served(Abort(n, AMX_ERR_HEAPLOW))
      /\ ~Served(Ended(n, UNDEFINED)) /\ ~Served(Ended(n, AMX_ERR_STACKERR)) /\ ~Served(Ended(n, AMX_ERR_STACKLOW))
      /\ ~Served(Ended(n, AMX_ERR_HEAPLOW))
  BY NotServed
<1>2. /\ ~Running(Abort(n, AMX_ERR_STACKERR)) /\ ~Running(Ended(n, UNDEFINED)) /\ ~Running(Ended(n, AMX_ERR_STACKERR))
  BY DEF Abort, Ended, Shaped, Fields, Running, RUNNING, UNDEFINED, AMX_ERR_STACKERR
<1>3. CHKMARGIN(n) \in {n, Abort(n, AMX_ERR_STACKERR), Ended(n, UNDEFINED)} /\ CMARGIN(n) \in {n, Ended(n, AMX_ERR_STACKERR), Ended(n, UNDEFINED)}
  BY DEF CHKMARGIN, CMARGIN, Unless
<1>4. \A x : ~Running(x) => CHKHEAP(x) = x /\ CHKSTACK(x) = x /\ CSTACK(x) = x /\ CHEAP(x) = x
  BY DEF CHKHEAP, CHKSTACK, CSTACK, CHEAP
<1>5. /\ CHKHEAP(n) \in {n, Abort(n, AMX_ERR_HEAPLOW)} /\ CHKSTACK(n) \in {n, Abort(n, AMX_ERR_STACKLOW)}
      /\ CHKPUSH(n) \in {n, Abort(n, AMX_ERR_STACKERR)}
      /\ CSTACK(n) \in {n, Ended(n, AMX_ERR_STACKLOW)} /\ CHEAP(n) \in {n, Ended(n, AMX_ERR_HEAPLOW)}
  BY DEF CHKHEAP, CHKSTACK, CHKPUSH, CSTACK, CHEAP, Unless
<1> QED BY <1>1, <1>2, <1>3, <1>4, <1>5

\* The registers are set alike; LCTRL and SCTRL of the instruction pointer are not among them.
LEMMA RegisterAlike ==
  ASSUME NEW m \in Machine, NEW i, Verified(i), Orderly(m, i), i.op \in RegisterOps,
         ~(i.op \in {"lctrl", "sctrl"} /\ i.p[1] \in {6, 8}), Served(CheckedRegister(m, i))
  PROVE  CheckedRegister(m, i) = ClassicRegister(m, i)
<1>1. i.op = "align" => U(i.p[1]) = i.p[1]
  <2>1. i.op = "align" => Len(i.p) = 1
    BY DEF Verified, Operands, PushOps, AluOps, ShiftOps, DivideOps
  <2>2. i.op = "align" => i.p[1] \in Cells /\ i.p[1] >= 0
    BY <2>1, OperandCells DEF Orderly
  <2> QED BY <2>2, WordFacts DEF Cells, U
<1>2. i.op \in RegOps => i.reg \in {"pri", "alt"}
  BY DEF Verified
<1> DEFINE c == CheckedRegister(m, i)
           k == Len(i.p)
           n == SKIPPARAM(m, k)
<1>3. \A v : OPHND_NEXT(Set(m, "pri", v), k) = Set(n, "pri", v) /\ OPHND_NEXT(Set(m, "alt", v), k) = Set(n, "alt", v)
  BY SetNext
<1>4. CASE i.op \notin {"sctrl", "lctrl", "xchg", "nop"}
  <2>1. i.op \in {"const.reg", "addr", "align", "move", "zero.reg", "sign"} => i.reg \in {"pri", "alt"}
    BY <1>2 DEF RegOps
  <2>2. CASE i.op \in {"idxaddr", "idxaddr.b"}
    BY <1>3, <2>2 DEF CheckedRegister, ClassicRegister
  <2>3. CASE i.op \in {"const.reg", "addr", "align"}
    <3>1. i.op = "addr" => m.frm + i.p[1] = i.p[1] + m.frm
      <4>1. i.op = "addr" => Len(i.p) = 1
        BY DEF Verified, Operands, PushOps, AluOps, ShiftOps, DivideOps
      <4> QED BY <4>1, OperandCells, Places
    <3> QED BY <1>1, <1>3, <2>1, <2>3, <3>1 DEF CheckedRegister, ClassicRegister
  <2>4. CASE i.op \in {"move", "zero.reg", "sign"}
    BY <1>3, <2>1, <2>4 DEF CheckedRegister, ClassicRegister
  <2> QED BY <1>4, <2>2, <2>3, <2>4 DEF RegisterOps
<1>5. CASE i.op = "lctrl"
  <2>1. i.p[1] \notin {6, 8}
    BY <1>5
  <2> QED BY <1>3, <1>5, <2>1 DEF CheckedRegister, ClassicRegister
<1>6. CASE i.op = "xchg"
  <2>1. OPHND_NEXT(Both(m, [pri |-> m.alt, alt |-> m.pri]), k) = [n EXCEPT !.pri = m.alt, !.alt = m.pri]
    BY DEF OPHND_NEXT, SKIPPARAM, Both, Machine, Running
  <2> QED BY <1>6, <2>1 DEF CheckedRegister, ClassicRegister
<1>7. CASE i.op = "nop"
  BY <1>7, NextSkips DEF CheckedRegister, ClassicRegister
<1>8. CASE i.op = "sctrl"
  <2> DEFINE o == i.p[1]
             s == CASE o = 2 -> CHKHEAP(CHKMARGIN([m EXCEPT !.hea = m.pri]))
                    [] o = 4 -> CHKSTACK(CHKMARGIN([m EXCEPT !.stk = m.pri]))
                    [] o = 5 -> Unless(m.pri < m.hea + STKMARGIN \/ U(m.pri) >= Stp, AMX_ERR_STACKERR, m, [m EXCEPT !.frm = m.pri])
                    [] o \in {6, 8} -> JumpTo(m, m.pri)
                    [] OTHER -> m
  <2>1. o \notin {6, 8}
    BY <1>8
  <2>2. c = OPHND_NEXT(s, k)
    BY <1>8 DEF CheckedRegister
  <2>3. ClassicRegister(m, i) = CASE o = 2 -> Set(n, "hea", m.pri) [] o = 4 -> Set(n, "stk", m.pri) [] o = 5 -> Set(n, "frm", m.pri)
                                  [] OTHER -> n
    BY <1>8, <2>1 DEF ClassicRegister
  <2>4. Shaped(s) /\ Served(s)
    <3>1. Shaped([m EXCEPT !.hea = m.pri]) /\ Shaped([m EXCEPT !.stk = m.pri]) /\ Shaped([m EXCEPT !.frm = m.pri]) /\ Shaped(m)
          /\ Shaped(Abort(m, AMX_ERR_STACKERR))
      BY DEF Shaped, Fields, Machine, Abort
    <3>2. Shaped(s)
      BY <2>1, <3>1, ShapedChecks DEF Unless
    <3> HIDE DEF s
    <3> QED BY <2>2, <3>2, ServedNext
  <2>5. \A x : Shaped(x) /\ Served(CHKHEAP(CHKMARGIN(x))) => x = CHKHEAP(CHKMARGIN(x))
    BY ServedChecks
  <2>6. \A x : Shaped(x) /\ Served(CHKSTACK(CHKMARGIN(x))) => x = CHKSTACK(CHKMARGIN(x))
    BY ServedChecks
  <2>7. s = CASE o = 2 -> [m EXCEPT !.hea = m.pri] [] o = 4 -> [m EXCEPT !.stk = m.pri] [] o = 5 -> [m EXCEPT !.frm = m.pri]
              [] OTHER -> m
    <3>1. Shaped([m EXCEPT !.hea = m.pri]) /\ Shaped([m EXCEPT !.stk = m.pri])
      BY DEF Shaped, Fields, Machine
    <3>2. ~Served(Abort(m, AMX_ERR_STACKERR))
      BY NotServed, MachineShaped
    <3> QED BY <2>1, <2>4, <2>5, <2>6, <3>1, <3>2 DEF Unless
  <2>8. /\ OPHND_NEXT([m EXCEPT !.hea = m.pri], k) = Set(n, "hea", m.pri)
        /\ OPHND_NEXT([m EXCEPT !.stk = m.pri], k) = Set(n, "stk", m.pri)
        /\ OPHND_NEXT([m EXCEPT !.frm = m.pri], k) = Set(n, "frm", m.pri)
    BY DEF OPHND_NEXT, SKIPPARAM, Set, Machine, Running
  <2>9. OPHND_NEXT(m, k) = n
    BY NextSkips
  <2> HIDE DEF s, n, c
  <2>10. c = ClassicRegister(m, i)
    BY <2>1, <2>2, <2>3, <2>7, <2>8, <2>9
  <2> QED BY <2>10 DEF c
<1> QED BY <1>4, <1>5, <1>6, <1>7, <1>8

\* The checks of earlier releases take no part of the machine away.
LEMMA ShapedOld == ASSUME NEW n, Shaped(n) PROVE Shaped(CSTACK(CMARGIN(n))) /\ Shaped(CHEAP(CMARGIN(n))) /\ Shaped(CMARGIN(n))
<1>1. \A x : \A e : Shaped(x) => Shaped(Ended(x, e))
  BY DEF Ended, Shaped, Fields
<1> QED BY <1>1 DEF CSTACK, CHEAP, CMARGIN

\* A cell is pushed, or the machine does not go on.
LEMMA PushAlike ==
  ASSUME NEW m \in Machine, NEW v
  PROVE  /\ ~Running(PUSH(m, v)) => ~Served(PUSH(m, v))
         /\ Running(PUSH(m, v)) => PUSH(m, v) = Push(m, v)
<1> DEFINE n == [m EXCEPT !.stk = m.stk - (1 * CELL)]
<1>1. Shaped(n) /\ Running(n)
  BY DEF Shaped, Fields, Machine, Running
<1>2. ALLOCSTACK(m, 1) = CHKPUSH(n)
  BY DEF ALLOCSTACK
<1> HIDE DEF n
<1>3. ASSUME ~Running(PUSH(m, v)) PROVE ~Served(PUSH(m, v))
  <2>1. ALLOCSTACK(m, 1) \in {n, Abort(n, AMX_ERR_STACKERR)}
    BY <1>2 DEF CHKPUSH, Unless
  <2>2. ALLOCSTACK(m, 1) = n => PUSH(m, v) = _W(n, n.stk, v) /\ _W(n, n.stk, v).end = n.end
    BY <1>1 DEF PUSH, _W, Shaped, Fields
  <2>3. ~Running(Abort(n, AMX_ERR_STACKERR)) /\ ~Served(Abort(n, AMX_ERR_STACKERR))
    BY <1>1, Aborts, NotServed DEF AMX_ERR_STACKERR
  <2>4. ALLOCSTACK(m, 1) = Abort(n, AMX_ERR_STACKERR)
    BY <1>1, <1>3, <2>1, <2>2 DEF Running
  <2> QED BY <2>3, <2>4 DEF PUSH
<1>4. Running(PUSH(m, v)) => PUSH(m, v) = Push(m, v)
  BY Pushes DEF Push
<1> QED BY <1>3, <1>4

\* Several cells: both cores have written the same, the default one with the stack pointer where it ends.
Abreast(x, y, m, s, k) ==
  \E mem : x = [m EXCEPT !.stk = s, !.mem = mem] /\ y = [m EXCEPT !.stk = m.stk - (k * CELL), !.mem = mem]

\* One more cell.
LEMMA AbreastNext ==
  ASSUME NEW m \in Machine, NEW i, NEW s, NEW k \in 1 .. 5, NEW x, NEW y, Abreast(x, y, m, s, k - 1), ~(k > Len(i.p)),
         Running(PushCell(x, m, i, k))
  PROVE  Abreast(PushCell(x, m, i, k), PushNext(y, i, k), m, s, k)
<1>1. PICK mem : x = [m EXCEPT !.stk = s, !.mem = mem] /\ y = [m EXCEPT !.stk = m.stk - ((k - 1) * CELL), !.mem = mem]
  BY DEF Abreast
<1> DEFINE a == m.stk - (k * CELL)
           v == Operand(x, i, i.p[k])
           new == Store(mem, a, v, CELL)
<1>2. x.mem = mem /\ y.mem = mem /\ x.frm = m.frm /\ y.frm = m.frm /\ y.stk = m.stk - ((k - 1) * CELL) /\ Running(x) /\ Shaped(x)
  BY <1>1 DEF Machine, Running, Shaped, Fields
<1>3. y.stk - CELL = a
  BY <1>2, Places DEF CELL
<1>4. Operand(y, i, i.p[k]) = v
  BY <1>2 DEF Operand, _R
<1>5. PushCell(x, m, i, k) = _W(x, a, v)
  <2>1. ~Running(Abort(x, AMX_ERR_MEMACCESS))
    BY <1>2, Aborts DEF AMX_ERR_MEMACCESS
  <2> QED BY <1>2, <2>1 DEF PushCell, Unless
<1>6. PushNext(y, i, k) = _W([y EXCEPT !.stk = a], a, v)
  BY <1>3, <1>4 DEF PushNext, Push
<1> HIDE DEF a, v
<1>7. _W(x, a, v) = [m EXCEPT !.stk = s, !.mem = new]
  BY <1>1 DEF _W, Machine
<1>8. _W([y EXCEPT !.stk = a], a, v) = [m EXCEPT !.stk = a, !.mem = new]
  BY <1>1 DEF _W, Machine
<1> QED BY <1>5, <1>6, <1>7, <1>8 DEF Abreast, a

\* All the cells are where pushing them one by one puts them.
LEMMA TogetherAlike ==
  ASSUME NEW m \in Machine, NEW i, Len(i.p) \in 2 .. 5, Running(PushTogether(m, i))
  PROVE  PushTogether(m, i) = PushEach(m, i)
<1> DEFINE l == Len(i.p)
           s == m.stk - (l * CELL)
           n == ALLOCSTACK(m, l)
           n1 == PushCell(n, m, i, 1)
           n2 == PushCell(n1, m, i, 2)
           n3 == PushCell(n2, m, i, 3)
           n4 == PushCell(n3, m, i, 4)
           n5 == PushCell(n4, m, i, 5)
           c1 == PushNext(m, i, 1)
           c2 == PushNext(c1, i, 2)
           c3 == PushNext(c2, i, 3)
           c4 == PushNext(c3, i, 4)
           c5 == PushNext(c4, i, 5)
<1>1. PushTogether(m, i) = n5 /\ PushEach(m, i) = c5
  BY DEF PushTogether, PushEach
<1>2. \A x : \A y : \A k \in 1 .. 5 : k > l => PushCell(x, m, i, k) = x /\ PushNext(y, i, k) = y
  BY DEF PushCell, PushNext
<1>3. \A x : \A y : \A k \in 1 .. 5 : Abreast(x, y, m, s, k - 1) /\ ~(k > l) /\ Running(PushCell(x, m, i, k))
                                     => Abreast(PushCell(x, m, i, k), PushNext(y, i, k), m, s, k)
  BY AbreastNext
<1>4. Shaped(n)
  BY DEF ALLOCSTACK, CHKPUSH, Unless, Abort, Machine, Shaped, Fields
<1>5. Running(n5) /\ Running(n4) /\ Running(n3) /\ Running(n2) /\ Running(n1) /\ Running(n)
  <2>1. \A x : \A k \in 1 .. 5 : Shaped(x) => Shaped(PushCell(x, m, i, k)) /\ (Running(PushCell(x, m, i, k)) => Running(x))
    BY CellTested
  <2> HIDE DEF n
  <2>2. Shaped(n1)
    BY <1>4, <2>1
  <2> HIDE DEF n1
  <2>3. Shaped(n2)
    BY <2>1, <2>2
  <2> HIDE DEF n2
  <2>4. Shaped(n3)
    BY <2>1, <2>3
  <2> HIDE DEF n3
  <2>5. Shaped(n4)
    BY <2>1, <2>4
  <2> HIDE DEF n4
  <2>6. Running(n5)
    BY <1>1
  <2> HIDE DEF n5
  <2>7. Running(n4)
    BY <2>1, <2>5, <2>6 DEF n5
  <2>8. Running(n3)
    BY <2>1, <2>4, <2>7 DEF n4
  <2>9. Running(n2)
    BY <2>1, <2>3, <2>8 DEF n3
  <2>10. Running(n1)
    BY <2>1, <2>2, <2>9 DEF n2
  <2>11. Running(n)
    BY <1>4, <2>1, <2>10 DEF n1
  <2> QED BY <2>6, <2>7, <2>8, <2>9, <2>10, <2>11
<1>6. Abreast(n, m, m, s, 0)
  <2>1. l \in Int
    OBVIOUS
  <2> HIDE DEF l
  <2>2. n = [m EXCEPT !.stk = s]
    BY <1>5, <2>1, RoomMade
  <2>3. m.stk - (0 * CELL) = m.stk
    BY Places DEF CELL
  <2> HIDE DEF s, n
  <2>4. [m EXCEPT !.stk = s] = [m EXCEPT !.stk = s, !.mem = m.mem] /\ m = [m EXCEPT !.stk = m.stk, !.mem = m.mem]
    BY DEF Machine
  <2> QED BY <2>2, <2>3, <2>4 DEF Abreast
<1>7. l \in {2, 3, 4, 5}
  <2>1. l \in 2 .. 5
    OBVIOUS
  <2> HIDE DEF l
  <2> QED BY <2>1
<1>8. ~(1 > l) /\ ~(2 > l)
  <2> HIDE DEF l
  <2> QED BY <1>7
<1>9. Abreast(n5, c5, m, s, l)
  <2> HIDE DEF s, l, n
  <2>1. Abreast(n1, c1, m, s, 1)
    BY <1>3, <1>5, <1>6, <1>8
  <2> HIDE DEF n1, c1
  <2>2. Abreast(n2, c2, m, s, 2)
    BY <1>3, <1>5, <1>8, <2>1
  <2> HIDE DEF n2, c2
  <2>3. IF 3 > l THEN n3 = n2 /\ c3 = c2 ELSE Abreast(n3, c3, m, s, 3)
    BY <1>2, <1>3, <1>5, <2>2
  <2> HIDE DEF n3, c3
  <2>4. IF 4 > l THEN n4 = n3 /\ c4 = c3 ELSE (~(3 > l) => Abreast(n4, c4, m, s, 4))
    BY <1>2, <1>3, <1>5, <2>3
  <2> HIDE DEF n4, c4
  <2>5. IF 5 > l THEN n5 = n4 /\ c5 = c4 ELSE (~(3 > l) /\ ~(4 > l) => Abreast(n5, c5, m, s, 5))
    BY <1>2, <1>3, <1>5, <2>4
  <2> HIDE DEF n5, c5
  <2> QED BY <1>7, <2>2, <2>3, <2>4, <2>5
<1> QED BY <1>1, <1>9 DEF Abreast

\* Cells that do not fit, or are no cells of the frame, are refused.
LEMMA TogetherEnds ==
  ASSUME NEW m \in Machine, NEW i, Len(i.p) \in 1 .. 5
  PROVE  Shaped(PushTogether(m, i)) /\ (~Running(PushTogether(m, i)) => ~Served(PushTogether(m, i)))
<1> DEFINE Fine(x) == Shaped(x) /\ (Running(x) \/ ~Served(x))
           n == ALLOCSTACK(m, Len(i.p))
           s == [m EXCEPT !.stk = m.stk - (Len(i.p) * CELL)]
<1>1. Fine(n)
  <2>1. Shaped(s) /\ Running(s) /\ n \in {s, Abort(s, AMX_ERR_STACKERR)}
    BY DEF ALLOCSTACK, CHKPUSH, Unless, Machine, Shaped, Fields, Running
  <2> HIDE DEF s
  <2>2. Shaped(Abort(s, AMX_ERR_STACKERR)) /\ ~Served(Abort(s, AMX_ERR_STACKERR))
    BY <2>1, Aborts, NotServed DEF AMX_ERR_STACKERR
  <2> QED BY <2>1, <2>2
<1>2. ASSUME NEW x, NEW k \in 1 .. 5, Fine(x) PROVE Fine(PushCell(x, m, i, k))
  <2> DEFINE w == _W(x, m.stk - (k * CELL), Operand(x, i, i.p[k]))
             a == Abort(x, AMX_ERR_MEMACCESS)
  <2>1. Shaped(w) /\ w.end = x.end
    BY <1>2 DEF _W, Shaped, Fields
  <2>2. Shaped(a) /\ ~Served(a)
    BY <1>2, Aborts, NotServed DEF AMX_ERR_MEMACCESS
  <2>3. PushCell(x, m, i, k) \in {x, w, a} /\ (~Running(x) => PushCell(x, m, i, k) = x)
    BY DEF PushCell, Unless
  <2> HIDE DEF w, a
  <2> QED BY <1>2, <2>1, <2>2, <2>3 DEF Running
<1>3. Fine(PushTogether(m, i))
  <2> HIDE DEF Fine
  <2> QED BY <1>1, <1>2 DEF PushTogether
<1> QED BY <1>3

\* The instructions about the stack leave the same stack.
LEMMA StackAlike ==
  ASSUME NEW m \in Machine, NEW i, Verified(i), Orderly(m, i), i.op \in StackOps, Served(CheckedStack(m, i)), Served(ClassicStack(m, i))
  PROVE  CheckedStack(m, i) = ClassicStack(m, i)
<1> DEFINE c == CheckedStack(m, i)
           d == ClassicStack(m, i)
           o == i.p[1]
           k == Len(i.p)
<1>1. \A n : OPHND_NEXT(n, k) = SKIPPARAM(n, k)
  BY NextSkips
<1>2. \A n : Shaped(n) => Served(OPHND_NEXT(n, k)) = Served(n)
  BY ServedNext
<1>3. i.op \in RegOps => i.reg \in {"pri", "alt"}
  BY DEF Verified
<1>4. i.op \in PushOps => k \in 1 .. 5
  BY DEF Verified, Operands, PushOps, AluOps, ShiftOps, DivideOps
<1>5. \A v : Shaped(PUSH(m, v))
  <2>1. Shaped(ALLOCSTACK(m, 1))
    BY DEF ALLOCSTACK, CHKPUSH, Unless, Abort, Machine, Shaped, Fields
  <2> QED BY <2>1 DEF PUSH, _W, Shaped, Fields
<1>6. CASE i.op = "push.reg"
  <2>1. c = OPHND_NEXT(PUSH(m, m[i.reg]), k) /\ d = SKIPPARAM(Push(m, m[i.reg]), k)
    BY <1>6 DEF CheckedStack, ClassicStack, PushOps
  <2>2. Running(PUSH(m, m[i.reg]))
    BY <1>2, <1>5, <2>1, PushAlike
  <2> QED BY <1>1, <2>1, <2>2, PushAlike
<1>7. CASE i.op = "push.r"
  <2> DEFINE r == ALLOCSTACK(m, o)
             s == m.stk - (o * CELL)
             filled == [r EXCEPT !.mem = Filled(r.mem, r.stk, m.pri, o * CELL)]
             n == IF Running(r) THEN filled ELSE r
             x == [m EXCEPT !.stk = s]
  <2>1. c = OPHND_NEXT(n, k) /\ d = SKIPPARAM([m EXCEPT !.stk = s, !.mem = Filled(m.mem, s, m.pri, o * CELL)], k)
    BY <1>7 DEF CheckedStack, ClassicStack, PushOps
  <2>2. Shaped(x) /\ Running(x) /\ r \in {x, Abort(x, AMX_ERR_STACKERR)}
    BY DEF ALLOCSTACK, CHKPUSH, Unless, Machine, Shaped, Fields, Running
  <2>3. ~Running(Abort(x, AMX_ERR_STACKERR)) /\ ~Served(Abort(x, AMX_ERR_STACKERR)) /\ Shaped(Abort(x, AMX_ERR_STACKERR))
    BY <2>2, Aborts, NotServed DEF AMX_ERR_STACKERR
  <2>4. r = x
    <3> HIDE DEF x
    <3>1. r = Abort(x, AMX_ERR_STACKERR) => n = r
      BY <2>3
    <3> HIDE DEF n, r
    <3> QED BY <1>2, <2>1, <2>2, <2>3, <3>1
  <2>5. n = [x EXCEPT !.mem = Filled(m.mem, s, m.pri, o * CELL)]
    <3>1. x.mem = m.mem /\ x.stk = s
      BY DEF Machine
    <3> HIDE DEF x, r
    <3> QED BY <2>2, <2>4, <3>1
  <2>6. [x EXCEPT !.mem = Filled(m.mem, s, m.pri, o * CELL)] = [m EXCEPT !.stk = s, !.mem = Filled(m.mem, s, m.pri, o * CELL)]
    BY DEF Machine
  <2> HIDE DEF n
  <2> QED BY <1>1, <2>1, <2>5, <2>6
<1>8. CASE i.op \in PushOps /\ k = 1
  <2> DEFINE v == Operand(m, i, o)
  <2>1. c = OPHND_NEXT(Unless(Unframed(m, i, o), AMX_ERR_MEMACCESS, m, PUSH(m, v)), k) /\ d = SKIPPARAM(PushEach(m, i), k)
    BY <1>8 DEF CheckedStack, ClassicStack, PushOps
  <2>2. PushEach(m, i) = Push(m, v)
    BY <1>8 DEF PushEach, PushNext
  <2>3. ~Served(OPHND_NEXT(Abort(m, AMX_ERR_MEMACCESS), k))
    BY RefusedNext
  <2>4. c = OPHND_NEXT(PUSH(m, v), k)
    BY <2>1, <2>3 DEF Unless
  <2>5. Running(PUSH(m, v))
    BY <1>2, <1>5, <2>4, PushAlike
  <2> QED BY <1>1, <2>1, <2>2, <2>4, <2>5, PushAlike
<1>9. CASE i.op \in PushOps /\ k > 1
  <2> DEFINE n == PushTogether(m, i)
  <2>1. c = OPHND_NEXT(n, k) /\ d = SKIPPARAM(PushEach(m, i), k)
    BY <1>9 DEF CheckedStack, ClassicStack, PushOps
  <2>2. k \in 2 .. 5
    <3>1. k \in 1 .. 5 /\ k > 1
      BY <1>4, <1>9
    <3> HIDE DEF k
    <3> QED BY <3>1
  <2>3. Shaped(n) /\ (~Running(n) => ~Served(n))
    BY <1>4, <1>9, TogetherEnds
  <2>4. Running(n)
    BY <1>2, <2>1, <2>3
  <2> QED BY <1>1, <2>1, <2>2, <2>4, TogetherAlike
<1>10. CASE i.op = "pop"
  <2> DEFINE v == _R(m, m.stk)
             n == [Set(m, i.reg, v) EXCEPT !.stk = m.stk + CELL]
  <2>1. i.reg \in {"pri", "alt"}
    BY <1>3, <1>10 DEF RegOps
  <2>2. c = OPHND_NEXT(POP(m, i.reg), k) /\ d = SKIPPARAM(n, k)
    BY <1>10 DEF CheckedStack, ClassicStack, PushOps, Pop
  <2>3. POP(m, i.reg) = CHKSTACK(n)
    <3>1. Set(m, i.reg, v).stk = m.stk /\ 1 * CELL = CELL
      BY <2>1 DEF Set, Machine, CELL
    <3> QED BY <3>1 DEF POP, FREESTACK
  <2>4. Shaped(n)
    BY <2>1 DEF Set, Machine, Shaped, Fields
  <2> HIDE DEF n
  <2>5. Shaped(CHKSTACK(n))
    BY <2>4, ShapedChecks
  <2> QED BY <1>1, <1>2, <2>2, <2>3, <2>4, <2>5, ServedChecks
<1>11. CASE i.op \in {"stack", "heap"}
  <2> DEFINE x == [m EXCEPT !.alt = m.stk, !.stk = Cell(m.stk + o)]
             y == [m EXCEPT !.alt = m.hea, !.hea = Cell(m.hea + o)]
  <2>1. Shaped(x) /\ Shaped(y)
    BY DEF Machine, Shaped, Fields
  <2>2. /\ i.op = "stack" => c = OPHND_NEXT(CHKSTACK(CHKMARGIN(x)), k) /\ d = SKIPPARAM(CSTACK(CMARGIN(x)), k)
        /\ i.op = "heap" => c = OPHND_NEXT(CHKHEAP(CHKMARGIN(y)), k) /\ d = SKIPPARAM(CHEAP(CMARGIN(y)), k)
    BY DEF CheckedStack, ClassicStack, PushOps
  <2> HIDE DEF x, y
  <2>3. /\ Shaped(CHKSTACK(CHKMARGIN(x))) /\ Shaped(CHKHEAP(CHKMARGIN(y)))
        /\ Shaped(CSTACK(CMARGIN(x))) /\ Shaped(CHEAP(CMARGIN(y)))
    BY <2>1, ShapedChecks, ShapedOld
  <2> QED BY <1>1, <1>2, <1>11, <2>1, <2>2, <2>3, ServedChecks
<1>12. CASE i.op = "swap"
  BY <1>1, <1>12 DEF CheckedStack, ClassicStack, PushOps
<1>13. i.op \in PushOps => k = 1 \/ k > 1
  <2> SUFFICES ASSUME k \in 1 .. 5 PROVE k = 1 \/ k > 1
    BY <1>4
  <2> HIDE DEF k
  <2> QED OBVIOUS
<1> QED BY <1>6, <1>7, <1>8, <1>9, <1>10, <1>11, <1>12, <1>13 DEF StackOps, PushOps

\* A return, too, leaves the same; what it tells the host of the stack is not compared.
LEMMA FlowAlike ==
  ASSUME NEW m \in Machine, NEW i, Verified(i), i.op \in FlowOps, Served(CheckedFlow(m, i)), Served(ClassicFlow(m, i))
  PROVE  /\ i.op # "retn" => CheckedFlow(m, i) = ClassicFlow(m, i)
         /\ i.op = "retn" => /\ Running(CheckedFlow(m, i)) /\ Running(ClassicFlow(m, i))
                             /\ \A x : [CheckedFlow(m, i) EXCEPT !.out = x] = [ClassicFlow(m, i) EXCEPT !.out = x]
<1> DEFINE c == CheckedFlow(m, i)
           d == ClassicFlow(m, i)
           o == i.p[1]
<1>1. ~Served(Abort(m, AMX_ERR_MEMACCESS)) /\ \A n : OPHND_NEXT(n, 1) = SKIPPARAM(n, 1)
  BY NotServed, MachineShaped, NextSkips
<1>2. CASE i.op \in {"jump", "jrel", "jzer", "jnz", "jump.if"}
  BY <1>1, <1>2 DEF CheckedFlow, ClassicFlow
<1>3. CASE i.op = "jump.pri"
  <2>1. c = JumpTo(m, m.pri) /\ d = JUMP(m, m.pri)
    BY <1>3 DEF CheckedFlow, ClassicFlow
  <2> QED BY <1>1, <1>3, <2>1 DEF JumpTo, Unless
<1>4. CASE i.op \in {"call", "call.pri"}
  <2> DEFINE v == IF i.op = "call" THEN m.cip + CELL ELSE m.cip
             a == IF i.op = "call" THEN o ELSE m.pri
             n == PUSH(m, v)
  <2>1. c = (IF Running(n) THEN JUMP(n, a) ELSE n) /\ d = JUMP(Push(m, v), a)
    <3>1. CASE i.op = "call"
      BY <3>1 DEF CheckedFlow, ClassicFlow
    <3>2. CASE i.op = "call.pri"
      BY <1>1, <3>2 DEF CheckedFlow, ClassicFlow, Unless
    <3> QED BY <1>4, <3>1, <3>2
  <2>2. Running(n)
    BY <2>1, PushAlike
  <2>3. n = Push(m, v)
    BY <2>2, PushAlike
  <2> QED BY <1>4, <2>1, <2>2, <2>3
<1>5. CASE i.op = "proc"
  <2> DEFINE n == PUSH(m, m.frm)
             p == Push(m, m.frm)
             x == [p EXCEPT !.frm = p.stk]
  <2>1. c = (IF Running(n) THEN [n EXCEPT !.frm = n.stk] ELSE n) /\ d = CMARGIN(x)
    BY <1>5 DEF CheckedFlow, ClassicFlow
  <2>2. Running(n) /\ n = p
    BY <2>1, PushAlike
  <2>3. Shaped(x)
    BY DEF Push, _W, Machine, Shaped, Fields
  <2> HIDE DEF n, p
  <2> QED BY <1>5, <2>1, <2>2, <2>3, ServedChecks
<1>6. CASE i.op \in {"ret", "retn"}
  <2> DEFINE a == _R(m, m.stk + CELL)
             x == [m EXCEPT !.stk = m.stk + (2 * CELL)]
             freed == FREESTACK(m, 2)
             framed == [freed EXCEPT !.frm = _R(m, m.stk)]
             back == IF Running(freed) THEN JumpTo(framed, a) ELSE freed
             popped == [m EXCEPT !.frm = _R(m, m.stk), !.stk = m.stk + (2 * CELL)]
             over == JUMP(popped, a)
             old == If(U(a) >= CodeSize, AMX_ERR_MEMACCESS, popped, over)
             gone(n) == Cell(n.stk + _R(m, n.stk) + CELL)
             dropped == [back EXCEPT !.stk = gone(back)]
             left == [old EXCEPT !.stk = gone(old), !.out.stk = gone(old)]
  <2>1. /\ i.op = "ret" => c = back /\ d = old
        /\ i.op = "retn" => c = (IF Running(back) THEN CHKSTACK(dropped) ELSE back) /\ d = (IF Running(old) THEN left ELSE old)
    <3>1. CASE i.op = "ret"
      BY <3>1 DEF CheckedFlow, ClassicFlow
    <3>2. CASE i.op = "retn"
      <4>1. c = (IF Running(back) THEN CHKSTACK(dropped) ELSE back)
        BY <3>2 DEF CheckedFlow
      <4>2. d = (IF Running(old) THEN left ELSE old)
        BY <3>2 DEF ClassicFlow
      <4> QED BY <3>2, <4>1, <4>2
    <3> QED BY <1>6, <3>1, <3>2
  <2>2. freed \in {x, Abort(x, AMX_ERR_STACKLOW)} /\ Shaped(x) /\ Running(x)
    BY DEF FREESTACK, CHKSTACK, Unless, Machine, Shaped, Fields, Running
  <2>3. ~Running(Abort(x, AMX_ERR_STACKLOW)) /\ ~Served(Abort(x, AMX_ERR_STACKLOW))
    BY <2>2, Aborts, NotServed DEF AMX_ERR_STACKLOW
  <2>4. [x EXCEPT !.frm = _R(m, m.stk)] = popped /\ Shaped(popped) /\ Running(popped)
    BY DEF Machine, Shaped, Fields, Running
  <2>5. Shaped(over) /\ Running(over)
    BY <2>4 DEF JUMP, Shaped, Fields, Running
  <2>6. ~Served(Abort(popped, AMX_ERR_MEMACCESS)) /\ ~Running(Abort(popped, AMX_ERR_MEMACCESS))
        /\ ~Served(ABORT(popped, AMX_ERR_MEMACCESS)) /\ ~Running(ABORT(popped, AMX_ERR_MEMACCESS))
    <3> HIDE DEF popped
    <3>1. ABORT(popped, AMX_ERR_MEMACCESS).end = AMX_ERR_MEMACCESS
      BY <2>4 DEF ABORT, Shaped, Fields
    <3> QED BY <2>4, <3>1, Aborts, NotServed DEF Running, RUNNING, AMX_ERR_MEMACCESS
  <2>7. JumpTo(popped, a) \in {over, Abort(popped, AMX_ERR_MEMACCESS)} /\ old \in {over, ABORT(popped, AMX_ERR_MEMACCESS)}
    BY DEF JumpTo, Unless, If
  <2>8. freed = x /\ Running(freed) => framed = popped /\ back = JumpTo(popped, a)
    BY <2>4
  <2> HIDE DEF x, freed, framed, popped, over, old
  <2>9. back = over /\ old = over
    <3>1. Running(freed)
      <4>1. ~Running(freed) => ~Served(back)
        BY <2>2, <2>3
      <4> HIDE DEF back, dropped, left, c, d
      <4>2. ~Running(back) => c = back
        BY <1>6, <2>1
      <4>3. ~Running(freed) => ~Running(back)
        BY DEF back
      <4> QED BY <4>1, <4>2, <4>3 DEF c
    <3>2. back = JumpTo(popped, a)
      BY <2>2, <2>3, <2>8, <3>1
    <3> HIDE DEF back, dropped, left
    <3>3. back = over
      BY <1>6, <2>1, <2>6, <2>7, <3>2
    <3>4. old = over
      BY <1>6, <2>1, <2>6, <2>7
    <3> QED BY <3>3, <3>4
  <2>10. CASE i.op = "ret"
    BY <2>1, <2>9, <2>10
  <2>11. CASE i.op = "retn"
    <3> HIDE DEF back
    <3>1. c = CHKSTACK(dropped) /\ d = left /\ dropped = [over EXCEPT !.stk = gone(over)]
          /\ left = [over EXCEPT !.stk = gone(over), !.out.stk = gone(over)]
      BY <2>1, <2>5, <2>9, <2>11
    <3> HIDE DEF gone, c, d, dropped, left
    <3>2. Shaped(dropped) /\ Running(dropped) /\ Running(left)
      BY <2>5, <3>1 DEF Shaped, Fields, Running
    <3>3. c = dropped
      BY <3>1, <3>2, ServedChecks DEF c
    <3>4. \A y : [dropped EXCEPT !.out = y] = [left EXCEPT !.out = y]
      BY <3>1
    <3> QED BY <2>11, <3>1, <3>2, <3>3, <3>4 DEF c, d
  <2> QED BY <1>6, <2>10, <2>11
<1> QED BY <1>2, <1>3, <1>4, <1>5, <1>6 DEF FlowOps

\* Where the frame has been stored, to store it again makes no difference.
LEMMA AbortsOnce ==
  ASSUME NEW n, Shaped(n), n.out.frm = n.frm, NEW e
  PROVE  Abort(n, e) = ABORT(n, e)
<1> DEFINE h == [n.out EXCEPT !.stk = ResetStk, !.hea = ResetHea, !.frm = n.frm]
           g == [n.out EXCEPT !.stk = ResetStk, !.hea = ResetHea]
<1>1. Abort(n, e) = [n EXCEPT !.end = e, !.out = h] /\ ABORT(n, e) = [n EXCEPT !.end = e, !.out = g]
  BY DEF Abort, ABORT, Shaped, Fields
<1>2. h = g
  OBVIOUS
<1> HIDE DEF h, g
<1> QED BY <1>1, <1>2

\* Natives find the same, and leave the same; only a halt to sleep is different.
LEMMA HostAlike ==
  ASSUME NEW m \in Machine, NEW i, Verified(i), i.op \in HostOps, ~(i.op = "halt" /\ i.p[1] = AMX_ERR_SLEEP),
         Served(CheckedHost(m, i))
  PROVE  \/ CheckedHost(m, i) = ClassicHost(m, i)
         \/ Stopped(CheckedHost(m, i), AMX_ERR_BOUNDS) /\ Stopped(ClassicHost(m, i), AMX_ERR_BOUNDS)
<1>1. CASE i.op = "halt"
  <2> DEFINE o == i.p[1]
             halted == [m EXCEPT !.out.ret = m.pri, !.out.pri = m.pri, !.out.alt = m.alt]
             said == [m EXCEPT !.out.ret = m.pri, !.out.frm = m.frm, !.out.pri = m.pri, !.out.alt = m.alt]
  <2>1. CheckedHost(m, i) = Abort(halted, o) /\ ClassicHost(m, i) = ABORT(said, o)
    BY <1>1 DEF CheckedHost, ClassicHost
  <2> DEFINE h == [m.out EXCEPT !.ret = m.pri, !.pri = m.pri, !.alt = m.alt, !.stk = ResetStk, !.hea = ResetHea, !.frm = m.frm]
             g == [m.out EXCEPT !.ret = m.pri, !.frm = m.frm, !.pri = m.pri, !.alt = m.alt, !.stk = ResetStk, !.hea = ResetHea]
             k == [m.out EXCEPT !.ret = m.pri, !.pri = m.pri, !.alt = m.alt]
             l == [m.out EXCEPT !.ret = m.pri, !.frm = m.frm, !.pri = m.pri, !.alt = m.alt]
  <2>2. halted = [m EXCEPT !.out = k] /\ said = [m EXCEPT !.out = l]
    BY DEF Machine
  <2>3. h = [k EXCEPT !.stk = ResetStk, !.hea = ResetHea, !.frm = m.frm] /\ g = [l EXCEPT !.stk = ResetStk, !.hea = ResetHea]
    OBVIOUS
  <2>4. \A x, y : Abort([m EXCEPT !.out = x], y) = [m EXCEPT !.end = y, !.out = [x EXCEPT !.stk = ResetStk, !.hea = ResetHea, !.frm = m.frm]]
    <3> TAKE x, y
    <3> DEFINE z == [m EXCEPT !.out = x]
    <3>1. z.frm = m.frm /\ z.out = x /\ Shaped(z)
      BY DEF Machine, Shaped, Fields
    <3>2. \A v : [z EXCEPT !.end = y, !.out = v] = [m EXCEPT !.end = y, !.out = v]
      BY DEF Machine
    <3> HIDE DEF z
    <3>3. Abort(z, y) = [z EXCEPT !.end = y, !.out = [z.out EXCEPT !.stk = ResetStk, !.hea = ResetHea, !.frm = z.frm]]
      BY <3>1 DEF Abort, Shaped, Fields
    <3> QED BY <3>1, <3>2, <3>3 DEF z
  <2>5. \A x, y : ABORT([m EXCEPT !.out = x], y) = [m EXCEPT !.end = y, !.out = [x EXCEPT !.stk = ResetStk, !.hea = ResetHea]]
    BY DEF ABORT, Machine
  <2> HIDE DEF h, g, k, l, halted, said, o
  <2>6. Abort(halted, o) = [m EXCEPT !.end = o, !.out = h]
    BY <2>2, <2>3, <2>4
  <2>7. ABORT(said, o) = [m EXCEPT !.end = o, !.out = g]
    BY <2>2, <2>3, <2>5
  <2>8. h = g
    BY DEF Machine, Host, h, g
  <2> QED BY <2>1, <2>6, <2>7, <2>8
<1>2. CASE i.op = "bounds"
  BY <1>2, Stops, NextSkips DEF CheckedHost, ClassicHost, Unless, If
<1>3. CASE i.op \in {"sysreq", "sysreq.n", "break"}
  <2> DEFINE n == PUSH(m, i.p[2])
             p == Push(m, i.p[2])
             Seen(x) == [x EXCEPT !.out.hea = x.hea, !.out.frm = x.frm, !.out.stk = x.stk]
             Value(x) == IF i.op = "break" THEN x ELSE [x EXCEPT !.pri = i.answer]
             After(x) == IF i.op = "sysreq.n" THEN [x EXCEPT !.stk = x.stk + i.p[2] + CELL] ELSE x
             Slept(x) == [x EXCEPT !.end = AMX_ERR_SLEEP, !.out.pri = x.pri, !.out.alt = x.alt]
             a == IF i.op = "sysreq.n" THEN n ELSE m
             b == IF i.op = "sysreq.n" THEN p ELSE m
             y == After(Value(Seen(b)))
  <2>1. CheckedHost(m, i) = IF ~Running(a) THEN a
                            ELSE IF i.error = AMX_ERR_SLEEP THEN Slept(After(Value(Seen(a))))
                            ELSE IF i.error # 0 THEN Abort(After(Value(Seen(a))), i.error)
                            ELSE OPHND_NEXT(After(Value(Seen(a))), Len(i.p))
    BY <1>3 DEF CheckedHost
  <2>2. ClassicHost(m, i) = IF i.error = AMX_ERR_SLEEP THEN Slept(y)
                            ELSE IF i.error # 0 THEN ABORT(y, i.error)
                            ELSE SKIPPARAM(y, Len(i.p))
    BY <1>3 DEF ClassicHost, CELL
  <2>3. Running(a) /\ a = b
    <3>1. i.op = "sysreq.n" /\ ~Running(a) => a = n /\ ~Served(a)
      BY PushAlike
    <3>2. i.op # "sysreq.n" => a = m /\ Running(a)
      BY MachineShaped
    <3> HIDE DEF a, n
    <3>3. Running(a)
      BY <2>1, <3>1, <3>2
    <3> QED BY <3>3, PushAlike DEF a, n
  <2>4. Abort(y, i.error) = ABORT(y, i.error)
    <3>1. Shaped(b) /\ b.out \in Host
      BY DEF Push, _W, Machine, Shaped, Fields
    <3> DEFINE s == Seen(b)
               v == Value(s)
    <3> HIDE DEF b
    <3>2. s.out.frm = s.frm /\ Shaped(s)
      BY <3>1 DEF Shaped, Fields, Host
    <3> HIDE DEF s
    <3>3. v.out.frm = v.frm /\ Shaped(v)
      BY <3>2 DEF Shaped, Fields
    <3> HIDE DEF v
    <3>4. After(v).out.frm = After(v).frm /\ Shaped(After(v))
      BY <3>3 DEF Shaped, Fields
    <3> HIDE DEF After
    <3>5. Abort(After(v), i.error) = ABORT(After(v), i.error)
      BY <3>4, AbortsOnce
    <3> QED BY <3>5 DEF v, s
  <2> HIDE DEF a, b, y, Seen, Value, After, Slept
  <2>5. y = After(Value(Seen(a)))
    BY <2>3 DEF y
  <2> QED BY <2>1, <2>2, <2>3, <2>4, <2>5, NextSkips
<1> QED BY <1>1, <1>2, <1>3 DEF HostOps

\* No case table is searched by halves.
ShortTables == \A m \in Machines : \A i \in Instructions(m) : i.op = "switch" => ~(Len(i.table.cases) > SWITCH_LINEAR)

\* What neither core refuses.
LEMMA BothAlike ==
  ASSUME NEW m \in Machine, NEW i, Verified(i), Orderly(m, i), i.op = "switch" => ~(Len(i.table.cases) > SWITCH_LINEAR),
         i.op # "inc.i", ~(i.op \in {"lctrl", "sctrl"} /\ i.p[1] \in {6, 8}), ~(i.op = "halt" /\ i.p[1] = AMX_ERR_SLEEP),
         Served(Checked(m, i)), Served(Classic(m, i))
  PROVE  LET c == Checked(m, i)
             d == Classic(m, i)
         IN \/ c = d
            \/ \E e \in {AMX_ERR_DIVIDE, AMX_ERR_BOUNDS} : Stopped(c, e) /\ Stopped(d, e)
            \/ /\ i.op = "retn" /\ Running(c) /\ Running(d)
               /\ \A x : [c EXCEPT !.out = x] = [d EXCEPT !.out = x]
<1>1. i.op \in LoadOps \union StoreOps \union RegisterOps \union StackOps \union FlowOps \union {"switch"} \union AluOps
             \union CompareOps \union BlockOps \union HostOps
  BY DEF Verified
<1>2. CASE i.op \in LoadOps \union StoreOps
  BY <1>2, Dispatched, LoadAlike, StoreAlike
<1>3. CASE i.op \in RegisterOps \union CompareOps
  BY <1>3, Dispatched, RegisterAlike, CompareAlike
<1>4. CASE i.op \in StackOps \union BlockOps
  BY <1>4, Dispatched, StackAlike, BlockAlike
<1>5. CASE i.op \in FlowOps
  <2>1. Checked(m, i) = CheckedFlow(m, i) /\ Classic(m, i) = ClassicFlow(m, i)
    BY <1>5, Dispatched
  <2>2. /\ i.op # "retn" => CheckedFlow(m, i) = ClassicFlow(m, i)
        /\ i.op = "retn" => /\ Running(CheckedFlow(m, i)) /\ Running(ClassicFlow(m, i))
                            /\ \A x : [CheckedFlow(m, i) EXCEPT !.out = x] = [ClassicFlow(m, i) EXCEPT !.out = x]
    BY <1>5, <2>1, FlowAlike
  <2> QED BY <2>1, <2>2
<1>6. CASE i.op = "switch"
  <2>1. Searched(i.table, m.pri) = LET found == {k \in DOMAIN i.table.cases : i.table.cases[k][1] = m.pri}
                                   IN IF found # {} THEN i.table.cases[Min(found)][2] ELSE i.table.none
    BY <1>6 DEF Searched
  <2>2. CheckedSwitch(m, i) = ClassicSwitch(m, i)
    BY <2>1 DEF CheckedSwitch, ClassicSwitch
  <2> QED BY <1>6, <2>2, Dispatched
<1>7. CASE i.op \in AluOps
  BY <1>7, Dispatched, AluAlike
<1>8. CASE i.op \in HostOps
  BY <1>8, Dispatched, HostAlike
<1> QED BY <1>1, <1>2, <1>3, <1>4, <1>5, <1>6, <1>7, <1>8

\* What neither core refuses, both execute alike, as long as no case table is long: CoresSwitch.cfg
\* is about the others.
THEOREM CoresDoAlike == ASSUME ShortTables PROVE Spec => []CoresAgree
<1>1. Executed => CoresAgree
  <2> SUFFICES ASSUME Executed, executed # None, ~Differ, Served(checked), Served(classic)
               PROVE  Observed(checked) = Observed(classic)
    BY DEF CoresAgree
  <2> DEFINE n == Fetched(machine)
             i == executed
  <2>1. machine \in Machines /\ i \in Instructions(machine) /\ checked = Checked(n, i) /\ classic = Classic(n, i)
    BY DEF Executed
  <2>2. n \in Machine /\ Verified(i) /\ Orderly(n, i)
    BY <2>1, MayRun
  <2>3. i.op = "switch" => ~(Len(i.table.cases) > SWITCH_LINEAR)
    BY <2>1 DEF ShortTables
  <2> HIDE DEF n
  <2>4. \/ checked = classic
        \/ \E e \in {AMX_ERR_DIVIDE, AMX_ERR_BOUNDS} : Stopped(checked, e) /\ Stopped(classic, e)
        \/ /\ i.op = "retn" /\ Running(checked) /\ Running(classic)
           /\ \A x : [checked EXCEPT !.out = x] = [classic EXCEPT !.out = x]
    BY <2>1, <2>2, <2>3, BothAlike DEF Differ
  <2>5. CASE checked = classic
    BY <2>5 DEF Observed
  <2>6. CASE \E e \in {AMX_ERR_DIVIDE, AMX_ERR_BOUNDS} : Stopped(checked, e) /\ Stopped(classic, e)
    <3>1. \A c : \A e \in {AMX_ERR_DIVIDE, AMX_ERR_BOUNDS} :
            Stopped(c, e) => Observed(c) = [end |-> e, stk |-> ResetStk, hea |-> ResetHea]
      BY DEF Observed, Stopped, Running, RUNNING, AMX_ERR_DIVIDE, AMX_ERR_BOUNDS
    <3> QED BY <2>6, <3>1
  <2>7. CASE /\ i.op = "retn" /\ Running(checked) /\ Running(classic)
             /\ \A x : [checked EXCEPT !.out = x] = [classic EXCEPT !.out = x]
    <3>1. \A c : Running(c) => c.end \notin {AMX_ERR_DIVIDE, AMX_ERR_BOUNDS}
      BY DEF Running, RUNNING, AMX_ERR_DIVIDE, AMX_ERR_BOUNDS
    <3>2. \A c : Running(c) => Observed(c) = [c EXCEPT !.out = machine.out]
      BY <2>7, <3>1 DEF Observed
    <3> QED BY <2>7, <3>2
  <2> QED BY <2>4, <2>5, <2>6, <2>7
<1> QED BY <1>1, ExecutedAlways, PTL
=============================================================================
