------------------------------ MODULE MCCores ------------------------------
(***************************************************************************)
(* Cells of eight bits in four bytes; four global cells, a heap of up to   *)
(* three, a stack of up to eight.  Every register value at which a check   *)
(* of a core turns, in every layout, for every instruction that reads it.  *)
(***************************************************************************)
EXTENDS Cores, Bitwise
CONSTANT Tables   \* the case tables of switch

MCAnd(a, b) == a & b
MCOr(a, b) == a | b
MCXor(a, b) == a ^^ b

MCStarts == {0, 4, 8, 12, 16, 28, 40, 60}
\* heap, stack and frame: with room, with little, with none, with an empty stack, and with a stack
\* that is larger than what is below it
Layouts == {<<16, 40, 44>>, <<24, 32, 40>>, <<24, 24, 28>>, <<28, 36, 0>>, <<16, 56, 56>>, <<16, 24, 52>>}
\* the cells from 0 on: pointers into each part, numbers, frames, return addresses, parameter counts
Memories == {<<20, 40, -1, 3, 44, 0, 48, 8, 40, 12, 52, 8, 4, 0, 0>>,
             <<52, 28, 56, 0, 16, -128, 0, 16, 4, 10, 48, 28, 0, 127, 0>>}
Data(cells) == [a \in 0 .. 59 |-> (U(cells[(a \div CELL) + 1]) \div (BYTE ^ (a % CELL))) % BYTE]
Values == {-128, -1, 0, 1, 2, 4, 7, 12, 16, 23, 24, 28, 40, 52, 53, 56, 60, 127}
Nothing == [stk |-> 0, hea |-> 0, frm |-> 0, pri |-> 0, alt |-> 0, ret |-> 0]
MCMachines == {[pri |-> p, alt |-> a, frm |-> l[3], stk |-> l[2], hea |-> l[1], cip |-> 16, mem |-> Data(c),
                end |-> RUNNING, out |-> Nothing] : p \in Values, a \in Values, l \in Layouts, c \in Memories}

Globals == {0, 4, 8, 12}
Offsets == {-128, -24, -8, -4, 0, 1, 4, 12, 52, 127}
Sizes == {1, 2, 4}
Blocks == {4, 8, 12, 16, 28}
Regs == {"pri", "alt"}
One(ops, operands) == {[op |-> o, reg |-> r, p |-> <<x>>] : o \in ops, r \in Regs, x \in operands}
Bare(ops) == {[op |-> o, reg |-> r, p |-> <<>>] : o \in ops, r \in Regs}
Pri(ops, operands) == {[op |-> o, reg |-> "pri", p |-> <<x>>] : o \in ops, x \in operands}
\* instructions that read neither register, or whatever is in it
Plain(m) ==
  One({"load", "lref", "stor", "sref"}, Globals) \union One({"load.s", "lref.s", "stor.s", "sref.s", "addr"}, Offsets)
  \union {[op |-> "load.both", p |-> <<x, y>>] : x \in Globals, y \in Globals}
  \union {[op |-> o, p |-> <<x, y>>] : o \in {"load.s.both", "const.s"}, x \in Offsets, y \in Offsets}
  \union {[op |-> "const", p |-> <<x, 127>>] : x \in Globals}
  \union Pri({"zero", "push"}, Globals) \union Pri({"zero.s", "push.s", "push.adr"}, Offsets) \union Pri({"lctrl"}, 0 .. 8)
  \union One({"const.reg", "eq.c"}, {-1, 0, 1, 127}) \union Pri({"push.c"}, {0, -1}) \union Pri({"push.r"}, 0 .. 5)
  \union {[op |-> o, reg |-> "pri", p |-> [k \in 1 .. n |-> IF k % 2 = 1 THEN x ELSE y]] :
            o \in {"push.c", "push.s", "push.adr"}, n \in 2 .. 5, x \in {-8, 0, 4}, y \in {-12, 0, 8}}
  \union {[op |-> "push", reg |-> "pri", p |-> [k \in 1 .. n |-> IF k % 2 = 1 THEN 4 ELSE 12]] : n \in 2 .. 5}
  \union Bare({"push.reg", "pop", "swap", "zero.reg"})
  \union Pri({"stack", "heap"}, {-128, -16, -8, -4, 0, 4, 8, 16, 127})
  \union Bare({"proc", "ret", "retn", "nop"}) \union Pri({"call", "jump"}, {8, 40}) \union Pri({"jrel"}, {8, -12})
  \union {[op |-> o, by |-> b, p |-> <<x>>] : o \in {"inc"}, b \in {1, -1}, x \in Globals}
  \union {[op |-> o, by |-> b, p |-> <<x>>] : o \in {"inc.s"}, b \in {1, -1}, x \in Offsets}
  \union Pri({"halt"}, {0, 1, AMX_ERR_SLEEP})
  \union {[op |-> o, p |-> p, answer |-> 5, error |-> e] : o \in {"sysreq", "break"}, p \in {<<>>, <<3>>}, e \in {0, 10, AMX_ERR_SLEEP}}
  \union {[op |-> "sysreq.n", p |-> <<3, n>>, answer |-> 5, error |-> e] :
            n \in {x \in {0, 4} : m.stk + x <= Stp}, e \in {0, 10, AMX_ERR_SLEEP}}
\* instructions about one register
Single ==
  Bare({"move", "sign", "inc.reg"}) \union Pri({"lodb.i"}, Sizes) \union One({"align"}, {1, 2, 4})
  \union Pri({"sctrl"}, 0 .. 8) \union One({"shl.c", "shr.c"}, {0, 1, 3, 7}) \union Pri({"add.c", "smul.c"}, {-1, 3, 127})
  \union {[op |-> o, reg |-> "pri", p |-> <<>>] : o \in {"load.i", "not", "neg", "invert", "call.pri", "jump.pri"}} \union Pri({"jzer", "jnz"}, {8})
  \union Pri({"bounds"}, {-1, 0, 16}) \union {[op |-> "switch", p |-> <<>>, table |-> t] : t \in Tables}
WithBy(set) == {[by |-> b, op |-> i.op, reg |-> i.reg, p |-> i.p] : i \in set, b \in {1, -1}}
Double ==
  {[op |-> o, reg |-> "pri", p |-> <<>>] : o \in {"stor.i", "lidx", "idxaddr", "xchg"} \union {"shl", "shr", "sshr"} \union DivideOps
     \union {"smul", "umul", "add", "sub", "sub.alt", "and", "or", "xor"}}
  \union Pri({"strb.i"}, Sizes) \union Pri({"lidx.b", "idxaddr.b"}, {1, 2}) \union Pri({"movs", "cmps", "fill"}, Blocks)
  \union {[op |-> "test", rel |-> r, p |-> <<>>] : r \in Relations} \union {[op |-> "jump.if", rel |-> r, p |-> <<8>>] : r \in Relations}
MCInstructions(m) ==
  (IF m.pri = 1 /\ m.alt = 24 THEN Plain(m) ELSE {})
  \union (IF m.pri = 23 \/ m.alt = 23 \/ m.pri = m.alt THEN {i \in Single : i.op # "inc.reg"} \union WithBy(Bare({"inc.reg", "inc.i"})) ELSE {})
  \union Double

Jumps(n) == [none |-> 4, cases |-> [k \in 1 .. n |-> <<(7 * k) - 14, (CELL * k)>>]]
ShortTables == {Jumps(0), Jumps(1), Jumps(2), Jumps(3)}
LongTables == {Jumps(4), Jumps(5)}
=============================================================================
