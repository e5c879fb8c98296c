------------------------------- MODULE AmxCode -------------------------------
(* The life of a code section in the abstract machine: amx_Init hands the      *)
(* image to VerifyRelocateBytecode (amx_verifier.c), which walks the code      *)
(* twice, once to collect the addresses of all instructions and once to check  *)
(* the operands; amx_Exec then runs it without checking again what the         *)
(* verifier has checked, while amx_Callback replaces SYSREQ instructions by    *)
(* direct calls.  Each of the three has its own idea of how long an            *)
(* instruction is; the model keeps the three tables apart.                     *)
(*                                                                             *)
(* Cells are numbered from the start of the code; an operand that is an        *)
(* address counts bytes.  Of the data only what decides the control flow is    *)
(* kept: a value the program computes is any value.                            *)
EXTENDS Assembler

CONSTANTS
  Images,     \* the files that may be loaded
  Variants      \* \subseteq {"plain", "reloc", "table"}: how the host was compiled

\* "plain": AMX_DONT_RELOCATE, addresses stay offsets and calls are never
\* patched; "reloc": relocation, dispatch by a switch; "table": relocation,
\* and the verifier replaces each opcode by the address of its handler.
ASSUME CellAssumption == Cell \in Nat \ {0}
ASSUME VariantAssumption == Variants \subseteq {"plain", "reloc", "table"}

\* An image: its code cells, whether the sections of its header are in order
\* and whole cells, whether the names lie in the name table, the sizes of the
\* data section and of the stack, the number of natives, the public addresses,
\* and the addresses at which amx_Exec can start.  layout is not in the file:
\* it is where the assembler put instructions, or {} for a damaged file.
ASSUME ImageAssumption ==
  \A g \in Images : /\ g.code \in Seq(Int)
                    /\ g.ordered \in BOOLEAN /\ g.named \in BOOLEAN
                    /\ g.datasize \in Nat /\ g.stacksize \in Nat /\ g.natives \in Nat
                    /\ g.publics \subseteq Nat /\ g.pubvars \subseteq Nat
                    /\ g.main \in Nat /\ g.layout \subseteq Nat

\* The cells of an instruction as the assembler writes it: operands, a label,
\* or the records of a case table, whose number is the first one's value.
Taken(code, i) == LET op == code[i + 1] IN
  CASE op = 130 -> 3 + 2 * code[i + 2]
    [] op \in {49, 51, 129} \cup 53..64 -> 2
    [] OTHER -> 1 + Params(op)
Known == (Parm0 \cup Parm1 \cup Parm2 \cup Parm3 \cup Parm4 \cup Parm5)
         \cup {49, 51, 129} \cup 53..64

\* The assembler leaves no gap: behind an instruction is the next one, or the end.
ASSUME LayoutAssumption ==
  \A g \in {g \in Images : g.layout # {}} :
    LET n == Len(g.code) IN
      /\ 0 \in g.layout
      /\ \A i \in g.layout :
           /\ i < n /\ g.code[i + 1] \in Known
           /\ g.code[i + 1] = 130 => i + 1 < n /\ g.code[i + 2] \in Nat
           /\ i + Taken(g.code, i) \in g.layout \cup {n}
           /\ \A j \in g.layout : i < j => i + Taken(g.code, i) <= j

VARIABLES
  variant,      \* how the host was compiled
  image,      \* the file in memory
  phase,      \* "init", "collect", "verify", "loaded", "run", "rejected"
  cip,        \* the cell the verifier or the interpreter is at
  addrs,      \* amx->instr_addresses
  forms,      \* vdata.flags: which of SYSREQ_C and SYSREQ_N occurred
  direct,     \* the calls amx_Callback has patched
  error       \* what the last API function returned
vars == <<variant, image, phase, cip, addrs, forms, direct, error>>

OP_CALL == 49      OP_CALL_PRI == 50   OP_JUMP == 51     OP_JREL == 52
OP_RET == 47       OP_RETN == 48       OP_HALT == 120    OP_SYSREQ_C == 123
OP_SYSREQ_PRI == 122
OP_JUMP_PRI == 128 OP_SWITCH == 129    OP_CASETBL == 130 OP_SYSREQ_N == 135
OP_BREAK == 137    OP_LCTRL == 31      OP_SCTRL == 32    OP_INC_I == 111
OP_DEC_I == 116    OP_SYSREQ_D == 158  OP_SYSREQ_ND == 159
Conditional == 53..64              \* OP_JZER ... OP_JSGEQ

------------------------------------------------------------------------------
(* The verifier                                                              *)

Cells == Len(image.code)
codesize == Cell * Cells
\* What lies behind the code is the data section; the model has zeros there.
Word(i) == IF i \in 0..Cells - 1 THEN image.code[i + 1] ELSE 0

Invalid == {0} \cup 124..127 \cup {136} \cup 158..255

\* The verifier's first table.
opcode_sizes(op) ==
  CASE op \in {135} \cup 138..141 \cup 154..157 -> 3
    [] op \in 142..145 -> 4
    [] op \in 146..149 -> 5
    [] op \in 150..153 -> 6
    [] op \in (1..8) \cup (10..22) \cup {24, 26} \cup (28..32) \cup (38..41) \cup
              {44, 45, 49} \cup (51..64) \cup (68..71) \cup {87, 88, 91, 92, 105,
              106, 109, 110, 114, 115} \cup (117..121) \cup {123, 129, 133} -> 2
    [] OTHER -> 1

\* op_size is an unsigned char, and so is the number of cases it is made from.
OpSize(i) == IF Word(i) = OP_CASETBL
               THEN (3 + 2 * (Word(i + 1) % 256)) % 256
               ELSE opcode_sizes(Word(i))

\* The verifier's second table: what the handlers return.
DataParms(op) ==                    \* the operands that are data addresses
  CASE op \in {1, 2, 5, 6, 15, 16, 19, 20, 40, 91, 109, 114} -> 1
    [] op \in {139, 154} -> 2
    [] op = 143 -> 3
    [] op = 147 -> 4
    [] op = 151 -> 5
    [] OTHER -> 0
NumberParms(op) ==                  \* the handlers that accept any operands
  CASE op \in {3, 4, 7, 8, 11, 12, 13, 14, 17, 18, 21, 22, 26, 28, 29, 30, 38,
               39, 41, 68, 69, 70, 71, 87, 88, 92, 105, 106, 110, 115, 117, 118,
               119, 120, 121, 133} -> 1
    [] op \in {138, 140, 141, 155, 156, 157} -> 2
    [] op \in {142, 144, 145} -> 3
    [] op \in {146, 148, 149} -> 4
    [] op \in {150, 152, 153} -> 5
    [] OTHER -> 0

\* Mutant: the handler of SYSREQ_N returns as SYSREQ_C does.
NumArgsOfCall(i) == IF Word(i) = OP_CASETBL THEN 2 + 2 * Word(i + 1)
                    ELSE opcode_sizes(Word(i)) - IF Word(i) = OP_SYSREQ_N THEN 2 ELSE 1

NumArgs(i) ==
  LET op == Word(i) IN
    CASE op = OP_CASETBL  -> 2 + 2 * Word(i + 1)
      [] op = OP_SYSREQ_N -> 2
      [] op \in {10, 24, OP_LCTRL, OP_SCTRL, 44, 45, OP_CALL, OP_JUMP, OP_JREL,
                 OP_SYSREQ_C, OP_SWITCH} \cup Conditional -> 1
      [] OTHER -> DataParms(op) + NumberParms(op)

\* IS_INVALID_CODE_OFFS_NORELOC and the bit in instr_addresses.
CodeOffs(v) == v \in 0..codesize - 1 /\ v % Cell = 0

\* Mutants: instr_addresses is not looked at; targets must lie ahead.
TargetInside(v)  == CodeOffs(v)
TargetForward(v) == CodeOffs(v) /\ v \div Cell \in addrs /\ v > Cell * cip
Target(v)   == CodeOffs(v) /\ v \div Cell \in addrs
DataOffs(v) == v \in 0..image.datasize - 1
AbsVal(v)   == IF v < 0 THEN -v ELSE v

\* v_switch looks for OP_CASETBL at the target; a table variant has replaced the
\* opcodes of the instructions it has already verified.
IsCaseTable(c) == Word(c) = OP_CASETBL /\ ~(variant = "table" /\ c < cip)

\* Whether the handler accepts the instruction at cell i.  CONST is not here:
\* its handler ignores the result of the check it calls.
HandlerAccepts(i) ==
  LET op == Word(i)
      arg == Word(i + 1)
  IN  /\ op \notin Invalid
      /\ \A k \in 1..DataParms(op) : DataOffs(Word(i + k))
      /\ op \in {OP_CALL, OP_JUMP} \cup Conditional => Target(arg)
      /\ op = OP_JREL => Target(Cell * i + arg + 2 * Cell)
      /\ op = OP_SWITCH => Target(arg) /\ IsCaseTable(arg \div Cell)
      \* a count below -1 is unsigned in the loop, which then runs into a bad target
      /\ op = OP_CASETBL => arg >= -1 /\ \A k \in 0..arg : Target(Word(i + 2 + 2 * k))
      /\ op \in {10, 24} => arg \in {1, 2, 4}              \* LODB_I, STRB_I
      /\ op \in {OP_LCTRL, OP_SCTRL} => arg >= 0
      /\ op \in {44, 45} => AbsVal(arg) < image.stacksize  \* STACK, HEAP
      /\ op \in {OP_SYSREQ_C, OP_SYSREQ_N} =>
           arg \in 0..image.natives /\ forms \subseteq {op}
      /\ op = OP_SYSREQ_N => AbsVal(Word(i + 2)) < image.stacksize

Reject(e) == phase' = "rejected" /\ error' = e
             /\ UNCHANGED <<variant, image, cip, addrs, forms, direct>>

EntriesInside == /\ \A a \in image.pubvars : a < image.datasize
                 /\ \A a \in image.publics : a < codesize

\* The checks before the first walk, in the order of the code.
BadHeader  == phase = "init" /\ ~image.ordered /\ Reject("FORMAT")
NoMemory   == phase = "init" /\ image.ordered /\ Reject("MEMORY")
BadTables  == /\ phase = "init" /\ image.ordered
              /\ ~(EntriesInside /\ image.named)
              /\ Reject("FORMAT")
BadStart   == /\ phase = "init" /\ image.ordered /\ EntriesInside /\ image.named
              /\ ~(Word(0) = OP_HALT /\ Word(1) = 0)
              /\ Reject("INVINSTR")
GoodHeader == /\ phase = "init" /\ image.ordered /\ EntriesInside /\ image.named
              /\ Word(0) = OP_HALT /\ Word(1) = 0
              /\ phase' = "collect" /\ cip' = 0
              /\ UNCHANGED <<variant, image, addrs, forms, direct, error>>

\* One iteration of the first walk.
Collectable(i) == /\ Word(i) \in 0..255 \ Invalid
                  /\ Word(i) = OP_CASETBL => i + 1 < Cells
Collect ==
  /\ phase = "collect" /\ Collectable(cip)
  /\ addrs' = addrs \cup {cip}
  /\ IF cip + OpSize(cip) < Cells
       THEN cip' = cip + OpSize(cip) /\ phase' = phase
       ELSE cip' = 0 /\ phase' = "verify"
  /\ UNCHANGED <<variant, image, forms, direct, error>>
BadOpcode == phase = "collect" /\ ~Collectable(cip) /\ Reject("INVINSTR")

\* One iteration of the second walk; behind the last instruction amx_Init
\* returns AMX_ERR_NONE.
Verify ==
  /\ phase = "verify" /\ HandlerAccepts(cip)
  /\ forms' = forms \cup ({Word(cip)} \cap {OP_SYSREQ_C, OP_SYSREQ_N})
  /\ cip' = cip + 1 + NumArgs(cip)
  /\ phase' = IF cip' < Cells THEN "verify" ELSE "loaded"
  /\ error' = IF cip' < Cells THEN error ELSE "NONE"
  /\ UNCHANGED <<variant, image, addrs, direct>>
BadOperand == phase = "verify" /\ ~HandlerAccepts(cip) /\ Reject("INVINSTR")

------------------------------------------------------------------------------
(* The interpreter                                                           *)

\* amx->sysreq_d: what a call is replaced with.
sysreq_d == IF variant = "plain" THEN 0
            ELSE IF OP_SYSREQ_C \in forms THEN OP_SYSREQ_D
            ELSE IF OP_SYSREQ_N \in forms THEN OP_SYSREQ_ND
            ELSE 0
Opcode(i) == IF i \in direct THEN sysreq_d ELSE Word(i)

\* The interpreter's table: the n of OPHND_NEXT(n).
Advance(op) ==
  CASE op \in {135, 159} \cup 138..141 \cup 154..157 -> 2
    [] op \in 142..145 -> 3
    [] op \in 146..149 -> 4
    [] op \in 150..153 -> 5
    [] op \in (1..8) \cup (10..22) \cup {24, 26} \cup (28..32) \cup (38..41) \cup
              {44, 45} \cup (53..64) \cup (68..71) \cup {87, 88, 91, 92, 105, 106,
              109, 110, 111, 114, 115, 116} \cup (117..121) \cup {123, 133, 158} -> 1
    [] OTHER -> 0

Running == phase = "run" /\ cip \in 0..Cells - 1
Goto(c) == cip' = c /\ UNCHANGED <<variant, image, phase, addrs, forms, direct, error>>
Behind  == cip + 1 + Advance(Opcode(cip))
Stop(e) == phase' = "loaded" /\ error' = e
           /\ UNCHANGED <<variant, image, cip, addrs, forms, direct>>

Entries == {image.main} \cup image.publics
\* amx_Exec on main or on a public function; the address is taken as it is.
Start == /\ phase = "loaded"
         /\ \E e \in Entries : cip' = e \div Cell
         /\ phase' = "run"
         /\ UNCHANGED <<variant, image, addrs, forms, direct, error>>

Jumps     == {OP_CALL, OP_JUMP, OP_JREL} \cup Conditional
Indirect  == {OP_RET, OP_RETN, OP_CALL_PRI, OP_JUMP_PRI}
Sysreqs   == {OP_SYSREQ_PRI, OP_SYSREQ_C, OP_SYSREQ_N}
IsSctrlCip(i) == Opcode(i) = OP_SCTRL /\ Word(i + 1) \in {6, 8}
Sequential(i) == /\ Opcode(i) \notin Jumps \cup Indirect \cup Sysreqs \cup
                      {OP_SWITCH, OP_HALT, OP_CASETBL}
                 /\ ~IsSctrlCip(i)

\* An instruction that goes on to the next one, or fails (OP_BREAK: its hook).
Straight == /\ Running /\ Sequential(cip)
            /\ Goto(Behind) \/ Stop("RUNTIME")

JumpTo == IF Opcode(cip) = OP_JREL
            THEN (Cell * cip + Word(cip + 1) + 2 * Cell) \div Cell
            ELSE Word(cip + 1) \div Cell
Branch == /\ Running /\ Opcode(cip) \in Jumps
          /\ \/ Goto(JumpTo)
             \/ Opcode(cip) \in Conditional /\ Goto(Behind)

\* A computed address: CALL_PRI only tests that it is inside the code; SCTRL
\* jumps and then skips its own operand.
MayJump(v) == CodeOffs(v) /\ (Opcode(cip) = OP_CALL_PRI \/ v \div Cell \in addrs)
JumpIndirect ==
  /\ Running /\ (Opcode(cip) \in Indirect \/ IsSctrlCip(cip))
  /\ \E v \in 0..codesize :
       \/ MayJump(v) /\ Goto(v \div Cell + IF IsSctrlCip(cip) THEN 1 ELSE 0)
       \/ ~MayJump(v) /\ Stop("MEMACCESS")

\* The default entry of the case table, or one of its cases.
\* More than 30 records are searched by halves, and the middle is counted in cells where a record
\* is two of them: the machine may take any cell of the table for the label.
Switch ==
  /\ Running /\ Opcode(cip) = OP_SWITCH
  /\ LET c == Word(cip + 1) \div Cell
     IN  \/ \E k \in 0..Word(c + 1) : Goto(Word(c + 2 + 2 * k) \div Cell)
         \/ Word(c + 1) > 30 /\ \E k \in 0..2 * Word(c + 1) : Goto(Word(c + 2 + k) \div Cell)

\* amx_Callback patches the instruction and calls the native, which may fail.
Sysreq ==
  /\ Running /\ Opcode(cip) \in Sysreqs
  /\ direct' = IF sysreq_d # 0 /\ Opcode(cip) # OP_SYSREQ_PRI
                 THEN direct \cup {cip} ELSE direct
  /\ \/ cip' = Behind /\ UNCHANGED <<phase, error>>
     \/ cip' = cip /\ phase' = "loaded" /\ error' = "NATIVE"
  /\ UNCHANGED <<variant, image, addrs, forms>>

Halt == /\ Running
        /\ \/ Opcode(cip) = OP_HALT /\ Stop("HALT")
           \/ Opcode(cip) = OP_CASETBL /\ Stop("INVINSTR")

------------------------------------------------------------------------------
Init == /\ variant \in Variants /\ image \in Images
        /\ phase = "init" /\ cip = 0 /\ addrs = {} /\ forms = {} /\ direct = {}
        /\ error = "NONE"

Next == \/ BadHeader \/ NoMemory \/ BadTables \/ BadStart \/ GoodHeader
        \/ Collect \/ BadOpcode \/ Verify \/ BadOperand
        \/ Start \/ Straight \/ Branch \/ JumpIndirect \/ Switch \/ Sysreq \/ Halt

Spec == Init /\ [][Next]_vars

------------------------------------------------------------------------------
(* Properties                                                                *)

\* Type correctness: the walks stay on cells, and instr_addresses only holds
\* cells of the code section.
TypeOK ==
  /\ variant \in Variants
  /\ phase \in {"init", "collect", "verify", "loaded", "run", "rejected"}
  /\ cip \in Int
  /\ addrs \subseteq 0..Cells - 1
  /\ phase \in {"collect", "verify"} => cip \in 0..Cells - 1
  /\ forms \subseteq {OP_SYSREQ_C, OP_SYSREQ_N}
  /\ direct \subseteq 0..Cells - 1

\* No case table has so many records that its size does not fit a byte.
Narrow == \A i \in 0..Cells - 1 : Word(i) = OP_CASETBL => Word(i + 1) \in 0..126
\* No case table is searched by halves.
Short == \A i \in 0..Cells - 1 : Word(i) = OP_CASETBL => Word(i + 1) <= 30

\* The second walk stops at the instructions the first walk found and at no
\* other cell: the table opcode_sizes and the results of the handlers agree.
WalksAgree == phase = "verify" /\ Narrow => cip \in addrs

\* Instructions the interpreter does not treat as the verifier does: INC_I, DEC_I, CALL_PRI and SCTRL with the code pointer.
Irregular(i) == \/ Word(i) \in {OP_INC_I, OP_DEC_I, OP_CALL_PRI}
                \/ Word(i) = OP_SCTRL /\ Word(i + 1) \in {6, 8}
Regular == Narrow /\ Short /\ \A i \in addrs : ~Irregular(i)
EntriesFound == \A e \in Entries : e \div Cell \in addrs

\* In any image that was loaded, damaged or not, the interpreter only executes
\* cells that the verifier has checked as instructions, however the calls it
\* makes are patched; it may run off the end of the code.
RunsOnInstructions ==
  phase = "run" /\ Regular /\ EntriesFound /\ cip < Cells => cip \in addrs

\* What the compiler may have written at cell i: numbers the handlers accept,
\* labels of instructions, a case table behind its switch.
WellFormedAt(i) ==
  LET op == Word(i)
      arg == Word(i + 1)
      IsLabel(v) == v % Cell = 0 /\ v \div Cell \in image.layout
  IN  /\ \A k \in 1..DataParms(op) : DataOffs(Word(i + k))
      /\ op \in {OP_CALL, OP_JUMP, OP_SWITCH} \cup Conditional => IsLabel(arg)
      /\ op = OP_SWITCH => arg \div Cell > i /\ Word(arg \div Cell) = OP_CASETBL
      /\ op = OP_CASETBL => \A k \in 0..arg : IsLabel(Word(i + 2 + 2 * k))
      /\ op = OP_JREL => IsLabel(Cell * i + arg + 2 * Cell)
      /\ op \in {10, 24} => arg \in {1, 2, 4}
      /\ op \in {OP_LCTRL, OP_SCTRL} => arg >= 0
      /\ op \in {44, 45} => AbsVal(arg) < image.stacksize
      /\ op \in {OP_SYSREQ_C, OP_SYSREQ_N} => arg \in 0..image.natives - 1
      /\ op = OP_SYSREQ_N => AbsVal(Word(i + 2)) < image.stacksize
OneForm == \E f \in {OP_SYSREQ_C, OP_SYSREQ_N} :
             \A i \in image.layout : Word(i) \in {OP_SYSREQ_C, OP_SYSREQ_N} => Word(i) = f
WellFormed == /\ image.layout # {} /\ image.ordered /\ image.named /\ EntriesInside
              /\ Word(0) = OP_HALT /\ Word(1) = 0
              /\ OneForm /\ \A i \in image.layout : WellFormedAt(i)

\* The machine loads what the compiler writes.
CompiledIsAccepted == phase = "rejected" /\ WellFormed => error = "MEMORY"
NarrowIsAccepted   == Narrow => CompiledIsAccepted

=============================================================================
