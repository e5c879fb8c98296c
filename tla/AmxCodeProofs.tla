--------------------------- MODULE AmxCodeProofs ---------------------------
(***************************************************************************)
(* Whatever the file contains, the second walk of the verifier visits the  *)
(* instructions that the first walk found (WalksAgree), and the            *)
(* interpreter executes no cell that the verifier has not checked          *)
(* (RunsOnInstructions).  At the end: what the assembler lays out is       *)
(* accepted (NarrowIsAccepted).  All three hold for every image, every     *)
(* size of a cell and every variant.                                         *)
(***************************************************************************)
EXTENDS AmxCode, TLAPS

NextOf(a) == a + OpSize(a)

\* The instructions found by the first walk lie one behind the other.
Separate == \A a, b \in addrs : a < b => NextOf(a) <= b

\* During the first walk it stands behind the last instruction; at its end
\* nothing is missing between an instruction and the next.
Collected ==
    /\ \A a \in addrs : Collectable(a)
    /\ Separate
    /\ phase = "init" => addrs = {}
    /\ phase = "collect" =>
         /\ 0 \in addrs \cup {cip}
         /\ \A a \in addrs : NextOf(a) <= cip /\ NextOf(a) \in addrs \cup {cip}
    /\ phase \in {"verify", "loaded", "run"} =>
         0 \in addrs /\ \A a \in addrs : NextOf(a) \in addrs \/ NextOf(a) >= Cells

\* What the second walk has made sure of for the instruction at a.
Checked(a) ==
    LET arg == Word(a + 1)
    IN  /\ Word(a) \in {OP_CALL, OP_JUMP} \cup Conditional => Target(arg)
        /\ Word(a) = OP_JREL => Target(Cell * a + arg + 2 * Cell)
        /\ Word(a) = OP_SWITCH => Target(arg) /\ Word(arg \div Cell) = OP_CASETBL
        /\ Word(a) = OP_CASETBL => \A k \in 0 .. arg : Target(Word(a + 2 + 2 * k))
        /\ Word(a) \in {OP_SYSREQ_C, OP_SYSREQ_N} => forms = {Word(a)}

Verified ==
    /\ phase = "verify" => cip \in addrs /\ \A a \in addrs : a < cip => Checked(a)
    /\ phase \in {"loaded", "run"} => \A a \in addrs : Checked(a)

\* Only calls are patched, and the program stays on instructions.
Executed ==
    /\ \A a \in direct : /\ a \in addrs
                         /\ Word(a) \in {OP_SYSREQ_C, OP_SYSREQ_N}
                         /\ variant # "plain"
    /\ phase = "run" /\ cip < Cells => cip \in addrs

IInv ==
    /\ image \in Images
    /\ TypeOK
    /\ phase \notin {"loaded", "run"} => direct = {}
    /\ Collected
    /\ Narrow => Verified
    /\ Regular /\ EntriesFound /\ phase \in {"loaded", "run"} => Executed

(***************************************************************************)
(* Instructions and their lengths.                                         *)
(***************************************************************************)
LEMMA CodeCells ==
    ASSUME image \in Images
    PROVE  /\ Cells \in Nat
           /\ \A i \in Int : Word(i) \in Int
           /\ image.main \in Nat /\ image.publics \subseteq Nat
<1>1. image.code \in Seq(Int) /\ image.main \in Nat /\ image.publics \subseteq Nat
  BY ImageAssumption
<1>2. Cells \in Nat
  BY <1>1 DEF Cells
<1>3. ASSUME NEW i \in Int PROVE Word(i) \in Int
  BY <1>1, <1>2 DEF Word, Cells
<1> QED BY <1>1, <1>2, <1>3

\* No instruction is empty.
LEMMA SizePositive ==
    ASSUME image \in Images, NEW i \in Int
    PROVE  OpSize(i) \in Nat /\ OpSize(i) >= 1
<1>1. Word(i) \in Int /\ Word(i + 1) \in Int
  BY CodeCells
<1>2. opcode_sizes(Word(i)) \in Nat /\ opcode_sizes(Word(i)) >= 1
  BY <1>1 DEF opcode_sizes
<1>3. (3 + 2 * (Word(i + 1) % 256)) % 256 \in Nat
      /\ (3 + 2 * (Word(i + 1) % 256)) % 256 >= 1
  BY <1>1
<1> QED BY <1>2, <1>3 DEF OpSize

\* The verifier's two tables agree.
LEMMA TablesAgree ==
    ASSUME image \in Images, NEW i \in 0 .. Cells - 1, Collectable(i), Narrow
    PROVE  OpSize(i) = 1 + NumArgs(i)
<1>1. Word(i) \in Int /\ Word(i + 1) \in Int /\ Cells \in Nat
  BY CodeCells
<1>2. CASE Word(i) = OP_CASETBL
  <2>1. Word(i + 1) \in 0 .. 126
    BY <1>2 DEF Narrow
  <2>2. OpSize(i) = 3 + 2 * Word(i + 1)
    BY <1>2, <2>1 DEF OpSize
  <2>3. NumArgs(i) = 2 + 2 * Word(i + 1)
    BY <1>2 DEF NumArgs, OP_CASETBL, OP_SYSREQ_N, OP_LCTRL, OP_SCTRL, OP_CALL, OP_JUMP,
       OP_JREL, OP_SYSREQ_C, OP_SWITCH, Conditional
  <2> QED BY <1>1, <2>2, <2>3
<1>3. CASE Word(i) # OP_CASETBL
  <2> DEFINE op == Word(i)
  <2>1. op \in 0 .. 255 \ Invalid
    BY DEF Collectable
  <2>2. op # 130
    BY <1>3 DEF OP_CASETBL
  <2> QED
    BY <2>1, <2>2, Z3T(60) DEF OpSize, NumArgs, opcode_sizes, DataParms, NumberParms, Invalid,
       OP_CASETBL, OP_SYSREQ_N, OP_LCTRL, OP_SCTRL, OP_CALL, OP_JUMP, OP_JREL,
       OP_SYSREQ_C, OP_SWITCH, Conditional
<1> QED BY <1>2, <1>3

\* The interpreter's table agrees with them, where it is used and regular.
LEMMA AdvanceAgrees ==
    ASSUME image \in Images, NEW i \in 0 .. Cells - 1, Collectable(i), ~Irregular(i),
           Word(i) \notin {OP_CALL, OP_JUMP, OP_JREL, OP_RET, OP_RETN, OP_JUMP_PRI,
                          OP_SWITCH, OP_HALT, OP_CASETBL}
    PROVE  OpSize(i) = 1 + Advance(Word(i))
<1> DEFINE op == Word(i)
<1>1. op \in 0 .. 255 \ Invalid
  BY DEF Collectable
<1>2. op \notin {111, 116, 50, 49, 51, 52, 47, 48, 128, 129, 120, 130}
  BY DEF Irregular, OP_INC_I, OP_DEC_I, OP_CALL_PRI, OP_CALL, OP_JUMP, OP_JREL, OP_RET,
     OP_RETN, OP_JUMP_PRI, OP_SWITCH, OP_HALT, OP_CASETBL
<1> QED BY <1>1, <1>2, Z3T(60) DEF OpSize, opcode_sizes, Advance, Invalid, OP_CASETBL

(***************************************************************************)
(* Types.                                                                  *)
(***************************************************************************)
LEMMA NumArgsNat ==
    ASSUME image \in Images, NEW i \in Int, HandlerAccepts(i)
    PROVE  NumArgs(i) \in Nat
<1>1. Word(i) \in Int /\ Word(i + 1) \in Int
  BY CodeCells
<1>2. Word(i) = OP_CASETBL => Word(i + 1) >= -1
  BY DEF HandlerAccepts
<1>3. DataParms(Word(i)) \in Nat
  BY <1>1 DEF DataParms
<1>4. NumberParms(Word(i)) \in Nat
  BY <1>1 DEF NumberParms
<1> QED
  BY <1>1, <1>2, <1>3, <1>4 DEF NumArgs, OP_CASETBL, OP_SYSREQ_N, OP_LCTRL, OP_SCTRL, OP_CALL,
     OP_JUMP, OP_JREL, OP_SYSREQ_C, OP_SWITCH, Conditional

Typed == image \in Images /\ TypeOK

LEMMA TypeInit == Init => Typed
BY CodeCells DEF Init, Typed, TypeOK, Cells, Word

\* The steps that stay at the instruction.
LEMMA TypeReject ==
    ASSUME Typed, NEW e, Reject(e)
    PROVE  Typed'
BY DEF Typed, TypeOK, Reject, Cells

LEMMA TypeStop ==
    ASSUME Typed, NEW e, Stop(e)
    PROVE  Typed'
BY DEF Typed, TypeOK, Stop, Cells

LEMMA TypeGoto ==
    ASSUME Typed, NEW c \in Int, phase = "run", Goto(c)
    PROVE  Typed'
BY DEF Typed, TypeOK, Goto, Cells

LEMMA TypeWalk ==
    ASSUME Typed, GoodHeader \/ Collect \/ Verify \/ Start
    PROVE  Typed'
<1>1. Cells \in Nat /\ Cells' = Cells /\ (\A i \in Int : Word(i) \in Int)
  BY CodeCells DEF Typed, GoodHeader, Collect, Verify, Start, Cells
<1>2. CASE GoodHeader
  <2>1. 0 \in 0 .. Cells - 1
    BY <1>1, <1>2 DEF GoodHeader, Word, OP_HALT
  <2> QED BY <1>1, <1>2, <2>1 DEF Typed, TypeOK, GoodHeader
<1>3. CASE Collect
  <2>1. cip \in 0 .. Cells - 1
    BY <1>3 DEF Typed, TypeOK, Collect
  <2>2. OpSize(cip) \in Nat
    BY <2>1, SizePositive DEF Typed
  <2>3. 0 \in 0 .. Cells - 1
    BY <1>1, <2>1
  <2>4. (phase' = "collect" \/ phase' = "verify") /\ cip' \in 0 .. Cells - 1
    BY <1>1, <1>3, <2>1, <2>2, <2>3 DEF Collect
  <2> QED BY <1>1, <1>3, <2>1, <2>4 DEF Typed, TypeOK, Collect
<1>4. CASE Verify
  <2>1. cip \in 0 .. Cells - 1
    BY <1>4 DEF Typed, TypeOK, Verify
  <2>2. NumArgs(cip) \in Nat
    BY <1>4, <2>1, NumArgsNat DEF Typed, Verify
  <2>3. cip' \in Nat /\ (phase' = "verify" => cip' < Cells) /\ phase' \in {"verify", "loaded"}
    BY <1>1, <1>4, <2>1, <2>2 DEF Verify
  <2> QED BY <1>1, <1>4, <2>3 DEF Typed, TypeOK, Verify
<1>5. CASE Start
  <2>1. image.main \in Nat /\ image.publics \subseteq Nat
    BY CodeCells DEF Typed
  <2>2. \A e \in Entries : e \div Cell \in Int
    BY <2>1, CellAssumption DEF Entries
  <2> QED BY <1>1, <1>5, <2>2 DEF Typed, TypeOK, Start
<1> QED BY <1>2, <1>3, <1>4, <1>5

LEMMA TypeRun ==
    ASSUME Typed, Straight \/ Branch \/ JumpIndirect \/ Switch \/ Sysreq \/ Halt
    PROVE  Typed'
<1>1. Cells \in Nat /\ (\A i \in Int : Word(i) \in Int)
  BY CodeCells DEF Typed
<1>2. phase = "run" /\ cip \in 0 .. Cells - 1 /\ cip \in Int
  BY <1>1 DEF Straight, Branch, JumpIndirect, Switch, Sysreq, Halt, Running
<1>3. Opcode(cip) \in Int
  BY <1>1, <1>2 DEF Opcode, sysreq_d, OP_SYSREQ_D, OP_SYSREQ_ND
<1>4. Advance(Opcode(cip)) \in Nat
  BY <1>3 DEF Advance
<1>5. Behind \in Int
  BY <1>2, <1>4 DEF Behind
<1>6. \A v \in Int : v \div Cell \in Int
  BY CellAssumption
<1>7. CASE Straight
  BY <1>2, <1>5, <1>7, TypeGoto, TypeStop DEF Straight
<1>8. CASE Branch
  <2>1. JumpTo \in Int
    BY <1>1, <1>2, <1>6, CellAssumption DEF JumpTo
  <2> QED BY <1>2, <1>5, <1>8, <2>1, TypeGoto DEF Branch
<1>9. CASE JumpIndirect
  <2>1. PICK v \in 0 .. codesize :
           \/ Goto(v \div Cell + IF IsSctrlCip(cip) THEN 1 ELSE 0)
           \/ Stop("MEMACCESS")
    BY <1>9 DEF JumpIndirect
  <2>2. v \div Cell + (IF IsSctrlCip(cip) THEN 1 ELSE 0) \in Int
    BY <1>6
  <2> QED BY <1>2, <2>1, <2>2, TypeGoto, TypeStop
<1>10. CASE Switch
  <2> DEFINE c == Word(cip + 1) \div Cell
  <2>1. c \in Int
    BY <1>1, <1>2, <1>6
  <2>2. \/ \E k \in 0 .. Word(c + 1) : Goto(Word(c + 2 + 2 * k) \div Cell)
        \/ \E k \in 0 .. 2 * Word(c + 1) : Goto(Word(c + 2 + k) \div Cell)
    BY <1>10 DEF Switch
  <2>3. ASSUME NEW k \in Int
        PROVE  Word(c + 2 + 2 * k) \div Cell \in Int /\ Word(c + 2 + k) \div Cell \in Int
    BY <1>1, <1>6, <2>1
  <2> QED BY <1>2, <2>2, <2>3, TypeGoto
<1>11. CASE Sysreq
  BY <1>1, <1>2, <1>5, <1>11 DEF Sysreq, Typed, TypeOK, Cells
<1>12. CASE Halt
  BY <1>12, TypeStop DEF Halt
<1> QED BY <1>7, <1>8, <1>9, <1>10, <1>11, <1>12

LEMMA TypeStep == Typed /\ [Next]_vars => Typed'
<1> SUFFICES ASSUME Typed, [Next]_vars PROVE Typed'
  OBVIOUS
<1>1. CASE BadHeader \/ NoMemory \/ BadTables \/ BadStart \/ BadOpcode \/ BadOperand
  BY <1>1, TypeReject DEF BadHeader, NoMemory, BadTables, BadStart, BadOpcode, BadOperand
<1>2. CASE GoodHeader \/ Collect \/ Verify \/ Start
  BY <1>2, TypeWalk
<1>3. CASE Straight \/ Branch \/ JumpIndirect \/ Switch \/ Sysreq \/ Halt
  BY <1>3, TypeRun
<1>4. CASE UNCHANGED vars
  BY <1>4 DEF vars, Typed, TypeOK, Cells
<1> QED BY <1>1, <1>2, <1>3, <1>4 DEF Next

(***************************************************************************)
(* The first walk.                                                         *)
(***************************************************************************)
\* What the file says does not change while it is walked.
LEMMA SameCode ==
    ASSUME UNCHANGED image
    PROVE  /\ Cells' = Cells /\ Narrow' = Narrow
           /\ \A i \in Int : /\ Word(i)' = Word(i)
                            /\ OpSize(i)' = OpSize(i)
                            /\ Collectable(i)' = Collectable(i)
                            /\ Irregular(i)' = Irregular(i)
BY DEF Cells, Narrow, Word, OpSize, Collectable, Irregular

LEMMA CollectedSame ==
    ASSUME Typed, Collected, UNCHANGED <<image, addrs>>,
           phase' = "rejected" \/
           (phase \in {"verify", "loaded", "run"} /\ phase' \in {"verify", "loaded", "run"})
    PROVE  Collected'
<1>1. addrs \subseteq Int /\ addrs' = addrs
  BY DEF Typed, TypeOK
<1>2. \A a \in addrs : OpSize(a)' = OpSize(a) /\ Collectable(a)' = Collectable(a)
  BY <1>1, SameCode
<1>3. Cells' = Cells
  BY SameCode
<1> QED BY <1>1, <1>2, <1>3 DEF Collected, Separate, NextOf

LEMMA CollectStep ==
    ASSUME Typed, Collected, Collect
    PROVE  Collected'
<1>1. /\ Cells \in Nat /\ addrs \subseteq 0 .. Cells - 1 /\ cip \in 0 .. Cells - 1
      /\ phase = "collect" /\ Collectable(cip) /\ addrs' = addrs \cup {cip}
      /\ Cells' = Cells /\ image \in Images
  BY CodeCells, SameCode DEF Typed, TypeOK, Collect
<1>2. \A a \in addrs' : OpSize(a)' = OpSize(a) /\ Collectable(a)' = Collectable(a)
  BY <1>1, SameCode DEF Collect
<1>3. \A a \in addrs' : OpSize(a) \in Nat /\ OpSize(a) >= 1
  BY <1>1, SizePositive
<1>4. \A a \in addrs : NextOf(a) <= cip /\ NextOf(a) \in addrs \cup {cip}
  BY <1>1 DEF Collected
<1>5. \A a \in addrs' : NextOf(a)' = NextOf(a) /\ NextOf(a) \in Nat /\ NextOf(a) > a
  BY <1>1, <1>2, <1>3 DEF NextOf
<1>6. \A a \in addrs' : Collectable(a)'
  BY <1>1, <1>2 DEF Collected
<1>7. Separate'
  <2> SUFFICES ASSUME NEW a \in addrs', NEW b \in addrs', a < b PROVE NextOf(a) <= b
    BY <1>5 DEF Separate
  <2>1. CASE b = cip
    BY <1>1, <1>4, <2>1
  <2>2. CASE b # cip
    <3>1. b \in addrs /\ NextOf(b) <= cip /\ b < NextOf(b)
      BY <1>1, <1>4, <1>5, <2>2
    <3>2. a \in addrs
      BY <1>1, <1>5, <3>1
    <3> QED BY <3>1, <3>2 DEF Collected, Separate
  <2> QED BY <2>1, <2>2
<1>8. 0 \in addrs'
  BY <1>1 DEF Collected
<1>9. \A a \in addrs' : NextOf(a) \in addrs' \cup {NextOf(cip)} /\ NextOf(a) <= NextOf(cip)
  BY <1>1, <1>4, <1>5
<1>10. CASE NextOf(cip) < Cells
  <2>1. cip' = NextOf(cip) /\ phase' = "collect"
    BY <1>1, <1>10 DEF Collect, NextOf
  <2> QED BY <1>5, <1>6, <1>7, <1>8, <1>9, <2>1 DEF Collected
<1>11. CASE ~(NextOf(cip) < Cells)
  <2>1. phase' = "verify" /\ NextOf(cip) >= Cells
    BY <1>1, <1>5, <1>11 DEF Collect, NextOf
  <2> QED BY <1>1, <1>5, <1>6, <1>7, <1>8, <1>9, <2>1 DEF Collected
<1> QED BY <1>10, <1>11

LEMMA CollectedStep == Typed /\ Collected /\ [Next]_vars => Collected'
<1> SUFFICES ASSUME Typed, Collected, [Next]_vars PROVE Collected'
  OBVIOUS
<1>1. CASE BadHeader \/ NoMemory \/ BadTables \/ BadStart \/ BadOpcode \/ BadOperand
  BY <1>1, CollectedSame DEF BadHeader, NoMemory, BadTables, BadStart, BadOpcode, BadOperand, Reject
<1>2. CASE GoodHeader
  BY <1>2 DEF GoodHeader, Collected, Separate
<1>3. CASE Collect
  BY <1>3, CollectStep
<1>4. CASE Verify \/ Start
  BY <1>4, CollectedSame DEF Verify, Start
<1>5. CASE Straight \/ Branch \/ JumpIndirect \/ Switch \/ Sysreq \/ Halt
  BY <1>5, CollectedSame DEF Straight, Branch, JumpIndirect, Switch, Sysreq, Halt, Running,
     Goto, Stop
<1>6. CASE UNCHANGED vars
  BY <1>6, SameCode DEF vars, Collected, Separate, NextOf, Typed, TypeOK
<1> QED BY <1>1, <1>2, <1>3, <1>4, <1>5, <1>6 DEF Next

(***************************************************************************)
(* The second walk.                                                        *)
(***************************************************************************)
LEMMA CheckedSame ==
    ASSUME UNCHANGED <<image, addrs>>, NEW a \in Int, Checked(a),
           Word(a) \in {OP_SYSREQ_C, OP_SYSREQ_N} => forms' = {Word(a)}
    PROVE  Checked(a)'
BY DEF Checked, Target, CodeOffs, codesize, Cells, Word

LEMMA AcceptedIsChecked ==
    ASSUME NEW a, a = cip, Verify
    PROVE  Checked(a)'
<1> DEFINE arg == Word(a + 1)
<1>1. UNCHANGED <<image, addrs>> /\ HandlerAccepts(a)
  BY DEF Verify
<1>2. /\ Word(a) \in {OP_CALL, OP_JUMP} \cup Conditional => Target(arg)
      /\ Word(a) = OP_JREL => Target(Cell * a + arg + 2 * Cell)
      /\ Word(a) = OP_SWITCH => Target(arg) /\ Word(arg \div Cell) = OP_CASETBL
      /\ Word(a) = OP_CASETBL => \A k \in 0 .. arg : Target(Word(a + 2 + 2 * k))
  BY <1>1 DEF HandlerAccepts, IsCaseTable
<1>3. Word(a) \in {OP_SYSREQ_C, OP_SYSREQ_N} => forms' = {Word(a)}
  BY <1>1 DEF HandlerAccepts, Verify
<1> QED BY <1>1, <1>2, <1>3 DEF Checked, Target, CodeOffs, codesize, Cells, Word

\* Nothing lies between an instruction and the next, so that an instruction
\* in front of the new place of the walk has been checked now or before.
LEMMA VerifyStep ==
    ASSUME Typed, Collected, Narrow, Verified, Verify
    PROVE  Verified'
<1>1. /\ phase = "verify" /\ HandlerAccepts(cip) /\ UNCHANGED <<image, addrs>>
      /\ image \in Images /\ Cells' = Cells /\ Cells \in Nat
      /\ addrs \subseteq 0 .. Cells - 1 /\ cip \in addrs
  BY CodeCells, SameCode DEF Verify, Typed, TypeOK, Verified
<1>2. /\ Collectable(cip)
      /\ NextOf(cip) \in addrs \/ NextOf(cip) >= Cells
      /\ \A a \in addrs : cip < a => NextOf(cip) <= a
  BY <1>1 DEF Collected, Separate
<1>3. cip' = NextOf(cip) /\ cip' \in Int
  <2>1. OpSize(cip) = 1 + NumArgs(cip)
    BY <1>1, <1>2, TablesAgree DEF Collected
  <2>2. NumArgs(cip) \in Nat
    BY <1>1, NumArgsNat
  <2> QED BY <1>1, <2>1, <2>2 DEF Verify, NextOf
<1>4. ASSUME NEW a \in addrs, a < cip' PROVE Checked(a)'
  <2>1. a = cip \/ a < cip
    BY <1>1, <1>2, <1>3, <1>4
  <2>2. CASE a = cip
    BY <2>2, AcceptedIsChecked
  <2>3. CASE a < cip
    <3>1. Checked(a) /\ (Word(a) \in {OP_SYSREQ_C, OP_SYSREQ_N} => forms = {Word(a)})
      BY <1>1, <2>3 DEF Verified, Checked
    <3>2. Word(cip) \in {OP_SYSREQ_C, OP_SYSREQ_N} => forms \subseteq {Word(cip)}
      BY <1>1 DEF HandlerAccepts
    <3>3. forms' = forms \cup ({Word(cip)} \cap {OP_SYSREQ_C, OP_SYSREQ_N})
      BY DEF Verify
    <3>4. Word(a) \in {OP_SYSREQ_C, OP_SYSREQ_N} => forms' = {Word(a)}
      BY <3>1, <3>2, <3>3
    <3> QED BY <1>1, <3>1, <3>4, CheckedSame
  <2> QED BY <2>1, <2>2, <2>3
<1>5. CASE cip' < Cells
  <2>1. phase' = "verify" /\ cip' \in addrs
    BY <1>1, <1>2, <1>3, <1>5 DEF Verify, Collected
  <2> QED BY <1>1, <1>4, <2>1 DEF Verified
<1>6. CASE ~(cip' < Cells)
  <2>1. phase' = "loaded"
    BY <1>6 DEF Verify
  <2>2. \A a \in addrs : a < cip'
    BY <1>1, <1>3, <1>6
  <2> QED BY <1>1, <1>4, <2>1, <2>2 DEF Verified
<1> QED BY <1>5, <1>6

LEMMA VerifiedSame ==
    ASSUME Typed, Verified, UNCHANGED <<image, addrs, forms>>,
           phase' = "rejected" \/
           (phase \in {"loaded", "run"} /\ phase' \in {"loaded", "run"})
    PROVE  Verified'
<1>1. addrs' = addrs /\ \A a \in addrs : a \in Int
  BY DEF Typed, TypeOK
<1>2. CASE phase' = "rejected"
  BY <1>2 DEF Verified
<1>3. CASE phase \in {"loaded", "run"} /\ phase' \in {"loaded", "run"}
  <2>1. ASSUME NEW a \in addrs PROVE Checked(a)'
    <3>1. Checked(a) /\ (Word(a) \in {OP_SYSREQ_C, OP_SYSREQ_N} => forms' = {Word(a)})
      BY <1>3 DEF Verified, Checked
    <3> QED BY <1>1, <3>1, CheckedSame
  <2> QED BY <1>1, <1>3, <2>1 DEF Verified
<1> QED BY <1>2, <1>3

LEMMA VerifiedStep ==
    ASSUME Typed, Collected, Collected', Narrow => Verified, [Next]_vars
    PROVE  Narrow' => Verified'
<1>1. Narrow' = Narrow
  BY SameCode DEF Next, vars, BadHeader, NoMemory, BadTables, BadStart, BadOpcode, BadOperand,
     Reject, GoodHeader, Collect, Verify, Start, Straight, Branch, JumpIndirect, Switch,
     Sysreq, Halt, Goto, Stop
<1> SUFFICES ASSUME Narrow, Verified PROVE Verified'
  BY <1>1
<1>2. CASE BadHeader \/ NoMemory \/ BadTables \/ BadStart \/ BadOpcode \/ BadOperand
  BY <1>2, VerifiedSame DEF BadHeader, NoMemory, BadTables, BadStart, BadOpcode, BadOperand, Reject
<1>3. CASE GoodHeader
  BY <1>3 DEF GoodHeader, Verified
<1>4. CASE Collect
  <2>1. phase = "collect" /\ (phase' = "collect" \/ (phase' = "verify" /\ cip' = 0))
    BY <1>4 DEF Collect
  <2>2. phase' = "verify" => 0 \in addrs' /\ \A a \in addrs' : ~(a < 0)
    <3>1. \A a \in addrs' : a \in Nat
      BY <1>4 DEF Collect, Typed, TypeOK
    <3> QED BY <3>1 DEF Collected
  <2> QED BY <2>1, <2>2 DEF Verified
<1>5. CASE Verify
  BY <1>5, VerifyStep
<1>6. CASE Start
  BY <1>6, VerifiedSame DEF Start
<1>7. CASE Straight \/ Branch \/ JumpIndirect \/ Switch \/ Sysreq \/ Halt
  BY <1>7, VerifiedSame DEF Straight, Branch, JumpIndirect, Switch, Sysreq, Halt, Running, Goto, Stop
<1>8. CASE UNCHANGED vars
  <2>1. /\ phase' = phase /\ cip' = cip /\ addrs' = addrs /\ forms' = forms /\ image' = image
        /\ variant' = variant /\ direct' = direct /\ error' = error
    BY <1>8 DEF vars
  <2>2. \A a \in addrs : a \in Int
    BY DEF Typed, TypeOK
  <2>3. ASSUME NEW a \in addrs, Checked(a) PROVE Checked(a)'
    <3>1. Word(a) \in {OP_SYSREQ_C, OP_SYSREQ_N} => forms' = {Word(a)}
      BY <2>1, <2>3 DEF Checked
    <3> QED BY <2>1, <2>2, <2>3, <3>1, CheckedSame
  <2> QED BY <2>1, <2>3 DEF Verified
<1> QED BY <1>2, <1>3, <1>4, <1>5, <1>6, <1>7, <1>8 DEF Next

(***************************************************************************)
(* The program runs.                                                       *)
(***************************************************************************)
\* All that the verifier leaves behind.
Ready ==
    /\ Typed /\ Collected /\ Verified /\ Executed /\ Regular /\ EntriesFound
    /\ phase \in {"loaded", "run"}

Patched == 158 .. 159

\* A patched call is as long as the call it replaces.
LEMMA PatchedCall ==
    ASSUME Ready, NEW a \in addrs, a \in direct
    PROVE  /\ Opcode(a) \in Patched
           /\ OpSize(a) = 1 + Advance(Opcode(a))
<1>1. Word(a) \in {OP_SYSREQ_C, OP_SYSREQ_N} /\ variant # "plain"
  BY DEF Ready, Executed
<1>2. forms = {Word(a)}
  BY <1>1 DEF Ready, Verified, Checked
<1>3. CASE Word(a) = OP_SYSREQ_C
  <2>1. Opcode(a) = 158
    BY <1>1, <1>2, <1>3 DEF Opcode, sysreq_d, OP_SYSREQ_D
  <2>2. OpSize(a) = 2
    BY <1>3 DEF OpSize, OP_SYSREQ_C, OP_CASETBL, opcode_sizes
  <2>3. Advance(158) = 1
    BY DEF Advance
  <2> QED BY <2>1, <2>2, <2>3 DEF Patched
<1>4. CASE Word(a) = OP_SYSREQ_N
  <2>1. Opcode(a) = 159
    BY <1>1, <1>2, <1>4 DEF Opcode, sysreq_d, OP_SYSREQ_ND, OP_SYSREQ_C, OP_SYSREQ_N
  <2>2. OpSize(a) = 3
    BY <1>4 DEF OpSize, OP_SYSREQ_N, OP_CASETBL, opcode_sizes
  <2>3. Advance(159) = 2
    BY DEF Advance
  <2> QED BY <2>1, <2>2, <2>3 DEF Patched
<1> QED BY <1>1, <1>3, <1>4

Elsewhere == {OP_CALL, OP_JUMP, OP_JREL, OP_RET, OP_RETN, OP_JUMP_PRI, OP_SWITCH, OP_HALT,
              OP_CASETBL}

LEMMA AtInstruction ==
    ASSUME Ready, NEW a \in addrs, a = cip
    PROVE  /\ Checked(a) /\ ~Irregular(a)
           /\ Opcode(a) \notin Patched => Opcode(a) = Word(a) /\ a \notin direct
           /\ Opcode(a) \notin Elsewhere => Behind \in addrs \/ Behind >= Cells
<1>1. /\ Checked(a) /\ ~Irregular(a) /\ Collectable(a) /\ image \in Images
      /\ a \in 0 .. Cells - 1
      /\ a + OpSize(a) \in addrs \/ a + OpSize(a) >= Cells
  BY DEF Ready, Verified, Regular, Collected, Typed, TypeOK, NextOf
<1> DEFINE n == Advance(Opcode(a))
<1>0. a \in Int /\ Word(a) \in Int /\ Cells \in Nat
  BY <1>1, CodeCells
<1>2. Opcode(a) \notin Patched => Opcode(a) = Word(a) /\ a \notin direct
  BY PatchedCall DEF Opcode
<1>3. CASE a \in direct
  <2>1. 1 + n = OpSize(a)
    BY <1>3, PatchedCall
  <2>2. n \in Int
    BY <1>3, PatchedCall DEF Patched, Advance
  <2>3. Behind = a + OpSize(a)
    BY <1>0, <2>1, <2>2 DEF Behind
  <2> QED BY <1>1, <1>2, <2>3
<1>4. CASE a \notin direct
  <2>1. Opcode(a) = Word(a)
    BY <1>4 DEF Opcode
  <2>2. n \in Int
    <3>1. Opcode(a) \in Int
      BY <1>0, <2>1
    <3> QED BY <3>1 DEF Advance
  <2>3. ASSUME Opcode(a) \notin Elsewhere PROVE Behind = a + OpSize(a)
    <3>1. Word(a) \notin {OP_CALL, OP_JUMP, OP_JREL, OP_RET, OP_RETN, OP_JUMP_PRI,
                          OP_SWITCH, OP_HALT, OP_CASETBL}
      BY <2>1, <2>3 DEF Elsewhere
    <3>2. OpSize(a) = 1 + Advance(Word(a))
      BY <1>0, <1>1, <3>1, AdvanceAgrees
    <3> QED BY <1>0, <2>1, <2>2, <3>2 DEF Behind
  <2> QED BY <1>1, <1>2, <2>3
<1> QED BY <1>3, <1>4

LEMMA ExecutedSame ==
    ASSUME Ready, UNCHANGED <<variant, image, addrs, direct>>,
           phase' = "run" /\ cip' < Cells => cip' \in addrs
    PROVE  Executed'
<1>1. Cells' = Cells /\ \A i \in Int : Word(i)' = Word(i)
  BY SameCode
<1>2. \A a \in addrs : a \in Int
  BY DEF Ready, Typed, TypeOK
<1> QED BY <1>1, <1>2 DEF Ready, Executed

LEMMA BehindInt ==
    ASSUME Typed, cip \in Int
    PROVE  Behind \in Int
<1>1. \A i \in Int : Word(i) \in Int
  BY CodeCells DEF Typed
<1>2. Opcode(cip) \in Int
  BY <1>1 DEF Opcode, sysreq_d, OP_SYSREQ_D, OP_SYSREQ_ND
<1>3. Advance(Opcode(cip)) \in Int
  BY <1>2 DEF Advance
<1> QED BY <1>3 DEF Behind

LEMMA RunStep ==
    ASSUME Ready, Straight \/ Branch \/ JumpIndirect \/ Switch \/ Sysreq \/ Halt
    PROVE  Executed'
<1>1. phase = "run" /\ cip \in 0 .. Cells - 1
  BY DEF Straight, Branch, JumpIndirect, Switch, Sysreq, Halt, Running
<1>2. Cells \in Nat /\ (\A i \in Int : Word(i) \in Int) /\ addrs \subseteq 0 .. Cells - 1
  BY CodeCells DEF Ready, Typed, TypeOK
<1>3. cip \in addrs
  BY <1>1, <1>2 DEF Ready, Executed
<1>4. /\ Checked(cip) /\ ~Irregular(cip)
      /\ Opcode(cip) \notin Patched => Opcode(cip) = Word(cip) /\ cip \notin direct
      /\ Opcode(cip) \notin Elsewhere => Behind \in addrs \/ Behind >= Cells
  BY <1>3, AtInstruction
<1> DEFINE Fine(c) == c \in addrs \/ (c \in Int /\ c >= Cells)
<1>behind. Opcode(cip) \notin Elsewhere => Fine(Behind)
  <2>1. Behind \in Int
    BY <1>1, <1>2, BehindInt DEF Ready
  <2> QED BY <1>4, <2>1
<1>5. ASSUME NEW e, Stop(e) PROVE Executed'
  BY <1>5, ExecutedSame DEF Stop
<1>6. ASSUME NEW c, Goto(c), Fine(c) PROVE Executed'
  <2>1. UNCHANGED <<variant, image, addrs, direct>> /\ cip' = c /\ Cells' = Cells
    BY <1>6, SameCode DEF Goto
  <2>2. cip' < Cells => cip' \in addrs
    BY <1>2, <1>6, <2>1
  <2> QED BY <2>1, <2>2, ExecutedSame
<1>7. CASE Straight
  <2>1. Sequential(cip) /\ (Goto(Behind) \/ Stop("RUNTIME"))
    BY <1>7 DEF Straight
  <2>2. Opcode(cip) \notin Elsewhere
    BY <2>1 DEF Sequential, Elsewhere, Jumps, Indirect
  <2> QED BY <1>behind, <1>5, <1>6, <2>1, <2>2
<1>8. CASE Branch
  <2>1. Opcode(cip) = Word(cip) /\ Opcode(cip) \in Jumps
    BY <1>4, <1>8 DEF Branch, Jumps, Patched, OP_CALL, OP_JUMP, OP_JREL, Conditional
  <2>2. ASSUME Goto(JumpTo) PROVE Executed'
    <3>1. JumpTo \in addrs
      BY <1>4, <2>1 DEF JumpTo, Jumps, Checked, Target
    <3> QED BY <1>6, <2>2, <3>1
  <2>3. ASSUME Opcode(cip) \in Conditional, Goto(Behind) PROVE Executed'
    <3>1. Opcode(cip) \notin Elsewhere
      BY <2>3 DEF Elsewhere, Conditional, OP_CALL, OP_JUMP, OP_JREL, OP_RET, OP_RETN,
         OP_JUMP_PRI, OP_SWITCH, OP_HALT, OP_CASETBL
    <3> QED BY <1>behind, <1>6, <2>3, <3>1
  <2> QED BY <1>8, <2>2, <2>3 DEF Branch
<1>9. CASE JumpIndirect
  <2>1. ~IsSctrlCip(cip) /\ Opcode(cip) # OP_CALL_PRI
    <3>1. ~(Word(cip) = OP_SCTRL /\ Word(cip + 1) \in {6, 8}) /\ Word(cip) # OP_CALL_PRI
      BY <1>4 DEF Irregular
    <3>2. Opcode(cip) \in {OP_SCTRL, OP_CALL_PRI} => Opcode(cip) = Word(cip)
      BY <1>4 DEF Patched, OP_SCTRL, OP_CALL_PRI
    <3> QED BY <3>1, <3>2 DEF IsSctrlCip
  <2>2. PICK v \in 0 .. codesize :
           \/ MayJump(v) /\ Goto(v \div Cell + IF IsSctrlCip(cip) THEN 1 ELSE 0)
           \/ Stop("MEMACCESS")
    BY <1>9 DEF JumpIndirect
  <2>3. ASSUME MayJump(v), Goto(v \div Cell + IF IsSctrlCip(cip) THEN 1 ELSE 0)
        PROVE  Executed'
    <3>1. v \div Cell \in addrs
      BY <2>1, <2>3 DEF MayJump
    <3>2. v \div Cell + (IF IsSctrlCip(cip) THEN 1 ELSE 0) = v \div Cell
      <4> DEFINE w == v \div Cell
      <4>1. w \in Int
        <5> HIDE DEF w
        <5>1. w \in addrs
          BY <3>1 DEF w
        <5> QED BY <1>2, <5>1
      <4> QED BY <2>1, <4>1
    <3> QED BY <1>6, <2>3, <3>1, <3>2
  <2> QED BY <1>5, <2>2, <2>3
<1>10. CASE Switch
  <2> DEFINE c == Word(cip + 1) \div Cell
  <2>1. Opcode(cip) = OP_SWITCH /\ Word(cip) = OP_SWITCH
    BY <1>4, <1>10 DEF Switch, Patched, OP_SWITCH
  <2>2. c \in addrs /\ Word(c) = OP_CASETBL
    BY <1>4, <2>1 DEF Checked, Target
  <2>3. Checked(c)
    BY <1>1, <2>2 DEF Ready, Verified
  <2>short. Word(c + 1) <= 30
    BY <1>2, <2>2 DEF Ready, Regular, Short
  <2>4. PICK k \in 0 .. Word(c + 1) : Goto(Word(c + 2 + 2 * k) \div Cell)
    <3>1. Word(c + 1) \in Int
      <4> HIDE DEF c
      <4>1. c + 1 \in Int
        BY <1>2, <2>2
      <4> QED BY <1>2, <4>1
    <3> QED BY <1>10, <2>short, <3>1 DEF Switch
  <2>5. Word(c + 2 + 2 * k) \div Cell \in addrs
    BY <2>2, <2>3, <2>4 DEF Checked, Target
  <2> QED BY <1>6, <2>4, <2>5
<1>11. CASE Sysreq
  <2>1. Opcode(cip) \in Sysreqs /\ Opcode(cip) \notin Patched /\ Opcode(cip) \notin Elsewhere
    BY <1>11 DEF Sysreq, Sysreqs, Patched, Elsewhere, OP_SYSREQ_PRI, OP_SYSREQ_C, OP_SYSREQ_N,
       OP_CALL, OP_JUMP, OP_JREL, OP_RET, OP_RETN, OP_JUMP_PRI, OP_SWITCH, OP_HALT, OP_CASETBL
  <2>2. UNCHANGED <<variant, image, addrs, forms>> /\ Cells' = Cells
    BY <1>11, SameCode DEF Sysreq
  <2>3. phase' = "run" /\ cip' < Cells => cip' \in addrs
    <3>1. cip' = Behind \/ cip' = cip
      BY <1>11 DEF Sysreq
    <3>2. Fine(Behind)
      BY <1>behind, <2>1
    <3> QED BY <1>2, <1>3, <2>2, <3>1, <3>2
  <2>4. direct' = direct \/ (/\ direct' = direct \cup {cip} /\ variant # "plain"
                            /\ Word(cip) \in {OP_SYSREQ_C, OP_SYSREQ_N})
    BY <1>4, <1>11, <2>1 DEF Sysreq, Sysreqs, sysreq_d
  <2>5. \A i \in Int : Word(i)' = Word(i)
    BY <2>2, SameCode
  <2>6. ASSUME NEW a \in direct'
        PROVE  a \in addrs' /\ Word(a)' \in {OP_SYSREQ_C, OP_SYSREQ_N} /\ variant' # "plain"
    <3>1. a \in direct \/ (a = cip /\ variant # "plain" /\ Word(a) \in {OP_SYSREQ_C, OP_SYSREQ_N})
      BY <2>4, <2>6
    <3>2. a \in addrs /\ Word(a) \in {OP_SYSREQ_C, OP_SYSREQ_N} /\ variant # "plain"
      BY <1>3, <3>1 DEF Ready, Executed
    <3>3. a \in Int
      BY <1>2, <3>2
    <3> QED BY <2>2, <2>5, <3>2, <3>3
  <2> QED BY <2>2, <2>3, <2>6 DEF Executed
<1>12. CASE Halt
  BY <1>5, <1>12 DEF Halt
<1> QED BY <1>7, <1>8, <1>9, <1>10, <1>11, <1>12

\* Whether an image is regular does not depend on what runs.
LEMMA RegularSame ==
    ASSUME UNCHANGED <<image, addrs>>, (Regular /\ EntriesFound)'
    PROVE  Regular /\ EntriesFound
<1>1. Regular
  BY DEF Regular, Irregular, Narrow, Short, Cells, Word
<1>2. EntriesFound
  BY DEF EntriesFound, Entries
<1> QED BY <1>1, <1>2

LEMMA ExecutedStep ==
    ASSUME IInv, [Next]_vars, (Regular /\ EntriesFound)', (phase \in {"loaded", "run"})'
    PROVE  Executed'
<1>1. CASE Verify
  BY <1>1 DEF IInv, Verify, Executed
<1>2. CASE Start
  <2>1. Ready /\ \E e \in Entries : cip' = e \div Cell
    <3>1. Regular /\ EntriesFound
      BY <1>2, RegularSame DEF Start
    <3> QED BY <1>2, <3>1 DEF Start, IInv, Ready, Typed, Regular
  <2>2. cip' \in addrs
    BY <2>1 DEF Ready, EntriesFound
  <2> QED BY <1>2, <2>1, <2>2, ExecutedSame DEF Start
<1>3. CASE Straight \/ Branch \/ JumpIndirect \/ Switch \/ Sysreq \/ Halt
  <2>1. UNCHANGED <<image, addrs>> /\ phase = "run"
    BY <1>3 DEF Straight, Branch, JumpIndirect, Switch, Sysreq, Halt, Goto, Stop, Running
  <2>2. Ready
    <3>1. Regular /\ EntriesFound
      BY <2>1, RegularSame
    <3> QED BY <2>1, <3>1 DEF IInv, Ready, Typed, Regular
  <2> QED BY <1>3, <2>2, RunStep
<1>4. CASE UNCHANGED vars
  <2>1. phase' = phase /\ addrs' = addrs /\ image' = image
    BY <1>4 DEF vars
  <2>2. Ready
    <3>1. Regular /\ EntriesFound
      BY <2>1, RegularSame
    <3> QED BY <2>1, <3>1 DEF IInv, Ready, Typed, Regular
  <2> QED BY <1>4, <2>2, ExecutedSame DEF vars, Ready, Executed, Cells
<1>5. (phase' = "loaded" \/ phase' = "run") /\ phase' # "rejected" /\ phase' # "collect"
  OBVIOUS
<1>6. ~(BadHeader \/ NoMemory \/ BadTables \/ BadStart \/ BadOpcode \/ BadOperand)
  BY <1>5 DEF BadHeader, NoMemory, BadTables, BadStart, BadOpcode, BadOperand, Reject
<1>7. ~GoodHeader /\ ~Collect
  BY <1>5 DEF GoodHeader, Collect
<1> QED BY <1>1, <1>2, <1>3, <1>4, <1>6, <1>7 DEF Next

(***************************************************************************)
(* The theorems.                                                           *)
(***************************************************************************)
LEMMA IInvInit == Init => IInv
<1> SUFFICES ASSUME Init PROVE IInv
  OBVIOUS
<1>1. Typed
  BY TypeInit
<1>2. phase = "init" /\ addrs = {} /\ direct = {}
  BY DEF Init
<1> QED BY <1>1, <1>2 DEF IInv, Typed, Collected, Separate, Verified

LEMMA IInvStep == IInv /\ [Next]_vars => IInv'
<1> SUFFICES ASSUME IInv, [Next]_vars PROVE IInv'
  OBVIOUS
<1>1. Typed /\ Typed'
  BY TypeStep DEF IInv, Typed
<1>2. Collected'
  BY <1>1, CollectedStep DEF IInv
<1>3. Narrow' => Verified'
  BY <1>1, <1>2, VerifiedStep DEF IInv
<1>4. (Regular /\ EntriesFound)' /\ (phase \in {"loaded", "run"})' => Executed'
  BY ExecutedStep
<1>5. (phase \notin {"loaded", "run"} => direct = {})'
  BY DEF IInv, Next, vars, BadHeader, NoMemory, BadTables, BadStart, BadOpcode, BadOperand,
     Reject, GoodHeader, Collect, Verify, Start, Straight, Branch, JumpIndirect, Switch,
     Sysreq, Halt, Goto, Stop, Running
<1> QED BY <1>1, <1>2, <1>3, <1>4, <1>5 DEF IInv, Typed

\* The invariant that the properties below rest on is kept by every step of
\* amx_Init, of amx_Exec and of amx_Callback.
THEOREM InductiveInvariant == Spec => []IInv
<1>1. Init => IInv
  BY IInvInit
<1>2. IInv /\ [Next]_vars => IInv'
  BY IInvStep
<1> QED BY <1>1, <1>2, PTL DEF Spec

\* Both walks of VerifyRelocateBytecode stay inside the code section, for any
\* contents of the file.
THEOREM TypeCorrect == Spec => []TypeOK
<1>1. IInv => TypeOK
  BY DEF IInv
<1> QED BY <1>1, InductiveInvariant, PTL

\* For any file without overlong case tables the walk that checks and relocates
\* operands stops at the instructions which the first walk found.
THEOREM SecondWalkAgrees == Spec => []WalksAgree
<1>1. IInv => WalksAgree
  BY DEF IInv, Verified, WalksAgree
<1> QED BY <1>1, InductiveInvariant, PTL

\* An image that amx_Init accepted runs on checked instructions only, in every
\* variant and however its calls have been patched.
THEOREM OnlyInstructionsRun == Spec => []RunsOnInstructions
<1>1. IInv => RunsOnInstructions
  BY DEF IInv, Executed, RunsOnInstructions
<1> QED BY <1>1, InductiveInvariant, PTL

(***************************************************************************)
(* The machine loads what the compiler writes.  While such a file is       *)
(* loaded, the first walk finds the instructions that the assembler laid   *)
(* out, in their order and no others; so every label is one of those the   *)
(* second walk accepts as a target.                                        *)
(***************************************************************************)
Found ==
    /\ phase = "collect" => cip \in image.layout /\ addrs = {a \in image.layout : a < cip}
    /\ phase \in {"verify", "loaded", "run"} => addrs = image.layout
    /\ \E f \in {OP_SYSREQ_C, OP_SYSREQ_N} :
         /\ forms \subseteq {f}
         /\ \A i \in image.layout : Word(i) \in {OP_SYSREQ_C, OP_SYSREQ_N} => Word(i) = f
    /\ phase = "rejected" => error = "MEMORY"

LoadInv == WellFormed /\ Narrow => Found

\* What the assembler's length of an instruction has to do with the verifier's.
LEMMA LaidOut ==
    ASSUME image \in Images, image.layout # {}, Narrow, NEW i \in image.layout
    PROVE  /\ i \in 0 .. Cells - 1 /\ Collectable(i)
           /\ i + OpSize(i) \in image.layout \cup {Cells}
           /\ \A j \in image.layout : i < j => i + OpSize(i) <= j
<1>1. /\ Cells \in Nat /\ image.layout \subseteq Nat
      /\ Cells = Len(image.code) /\ image.code \in Seq(Int)
  BY ImageAssumption, CodeCells DEF Cells
<1>2. /\ i < Cells /\ image.code[i + 1] \in Known
      /\ image.code[i + 1] = 130 => i + 1 < Cells
      /\ i + Taken(image.code, i) \in image.layout \cup {Cells}
      /\ \A j \in image.layout : i < j => i + Taken(image.code, i) <= j
  BY <1>1, LayoutAssumption
<1>3. i \in 0 .. Cells - 1 /\ i \in Int
  BY <1>1, <1>2
<1>4. Word(i) = image.code[i + 1] /\ (i + 1 < Cells => Word(i + 1) = image.code[i + 2])
  BY <1>1, <1>3 DEF Word
<1>5. Word(i) \in 0 .. 255 \ Invalid
  <2> DEFINE op == Word(i)
  <2>1. op \in Known
    BY <1>2, <1>4
  <2> HIDE DEF op
  <2>2. op \in 0 .. 255 \ Invalid
    BY <2>1, Z3T(60) DEF Known, Parm0, Parm1, Parm2, Parm3, Parm4, Parm5, Invalid
  <2> QED BY <2>2 DEF op
<1>6. Collectable(i)
  BY <1>2, <1>4, <1>5 DEF Collectable, OP_CASETBL
<1>7. OpSize(i) = Taken(image.code, i)
  <2>1. CASE Word(i) = OP_CASETBL
    <3>1. Word(i + 1) \in 0 .. 126 /\ Word(i + 1) = image.code[i + 2]
      BY <1>2, <1>3, <1>4, <2>1 DEF Narrow, OP_CASETBL
    <3>2. OpSize(i) = 3 + 2 * Word(i + 1)
      BY <2>1, <3>1 DEF OpSize
    <3> QED BY <1>4, <2>1, <3>1, <3>2 DEF Taken, OP_CASETBL
  <2>2. CASE Word(i) # OP_CASETBL
    <3> DEFINE op == Word(i)
    <3>1. op \in Known /\ op # 130 /\ op = image.code[i + 1]
      BY <1>2, <1>4, <2>2 DEF OP_CASETBL
    <3>2. OpSize(i) = opcode_sizes(op)
      BY <2>2 DEF OpSize
    <3> HIDE DEF op
    <3>3. opcode_sizes(op) = (IF op \in {49, 51, 129} \cup 53..64 THEN 2 ELSE 1 + Params(op))
      BY <3>1, Z3T(60) DEF Known, opcode_sizes, Params, Parm0, Parm1, Parm2, Parm3, Parm4, Parm5
    <3> QED BY <3>1, <3>2, <3>3 DEF Taken
  <2> QED BY <2>1, <2>2
<1> QED BY <1>2, <1>3, <1>6, <1>7

\* The second walk accepts what the compiler writes.
LEMMA WellFormedAccepted ==
    ASSUME IInv, WellFormed, Narrow, Found, phase = "verify"
    PROVE  HandlerAccepts(cip)
<1> DEFINE op == Word(cip)
           arg == Word(cip + 1)
<1>1. cip \in addrs /\ addrs = image.layout /\ image \in Images /\ image.layout # {}
  BY DEF IInv, Verified, Found, WellFormed
<1>2. WellFormedAt(cip) /\ Collectable(cip) /\ cip \in 0 .. Cells - 1 /\ Cells \in Nat
      /\ op \in Int /\ arg \in Int
  BY <1>1, LaidOut, CodeCells DEF WellFormed
<1>3. ASSUME NEW v \in Int, v % Cell = 0, v \div Cell \in image.layout PROVE Target(v)
  <2>1. v \div Cell \in 0 .. Cells - 1
    BY <1>1, <1>3, LaidOut
  <2>2. v = Cell * (v \div Cell)
    BY <1>3, CellAssumption
  <2>3. v \in 0 .. codesize - 1
    <3> DEFINE q == v \div Cell
    <3>1. Cell \in Nat /\ Cell >= 1 /\ q \in Nat /\ q + 1 <= Cells
      BY <1>2, <2>1, CellAssumption
    <3> HIDE DEF q
    <3>2. Cell * q >= 0 /\ Cell * (q + 1) <= Cell * Cells
      BY <1>2, <3>1
    <3>3. Cell * (q + 1) = Cell * q + Cell
      BY <3>1
    <3> QED BY <1>2, <1>3, <2>2, <3>1, <3>2, <3>3 DEF q, codesize
  <2> QED BY <1>1, <1>3, <2>3 DEF Target, CodeOffs
<1>4. op \notin Invalid
  BY <1>2 DEF Collectable
<1>5. op \in {OP_CALL, OP_JUMP, OP_SWITCH} \cup Conditional => Target(arg)
  BY <1>2, <1>3 DEF WellFormedAt
<1>6. op = OP_JREL => Target(Cell * cip + arg + 2 * Cell)
  <2>1. Cell * cip + arg + 2 * Cell \in Int
    BY <1>2, CellAssumption
  <2> QED BY <1>2, <1>3, <2>1 DEF WellFormedAt
<1>7. op = OP_SWITCH => IsCaseTable(arg \div Cell)
  <2>1. arg \div Cell \in Int
    BY <1>2, CellAssumption
  <2> QED BY <1>2, <2>1 DEF WellFormedAt, IsCaseTable
<1>8. op = OP_CASETBL => arg >= -1 /\ \A k \in 0 .. arg : Target(Word(cip + 2 + 2 * k))
  <2>1. op = OP_CASETBL => arg \in 0 .. 126
    BY <1>2 DEF Narrow
  <2>2. \A k \in 0 .. arg : Word(cip + 2 + 2 * k) \in Int
    BY <1>1, <1>2, CodeCells
  <2> QED BY <1>2, <1>3, <2>1, <2>2 DEF WellFormedAt
<1>9. op \in {OP_SYSREQ_C, OP_SYSREQ_N} => forms \subseteq {op} /\ arg \in 0 .. image.natives
  <2>1. op \in {OP_SYSREQ_C, OP_SYSREQ_N} => forms \subseteq {op}
    BY <1>1 DEF Found
  <2>2. op \in {OP_SYSREQ_C, OP_SYSREQ_N} => arg \in 0 .. image.natives - 1
    BY <1>2 DEF WellFormedAt
  <2>3. image.natives \in Nat
    BY <1>1, ImageAssumption
  <2> QED BY <2>1, <2>2, <2>3
<1>10. /\ \A k \in 1 .. DataParms(op) : DataOffs(Word(cip + k))
       /\ op \in {10, 24} => arg \in {1, 2, 4}
       /\ op \in {OP_LCTRL, OP_SCTRL} => arg >= 0
       /\ op \in {44, 45} => AbsVal(arg) < image.stacksize
       /\ op = OP_SYSREQ_N => AbsVal(Word(cip + 2)) < image.stacksize
  BY <1>2 DEF WellFormedAt
<1> HIDE DEF op, arg
<1> QED BY <1>4, <1>5, <1>6, <1>7, <1>8, <1>9, <1>10 DEF HandlerAccepts, op, arg

LEMMA LoadStep == IInv /\ LoadInv /\ [Next]_vars => LoadInv'
<1> SUFFICES ASSUME IInv, LoadInv, [Next]_vars, WellFormed', Narrow' PROVE Found'
  BY DEF LoadInv
<1>1. UNCHANGED image
  BY DEF Next, vars, BadHeader, NoMemory, BadTables, BadStart, GoodHeader, Collect, BadOpcode,
     Verify, BadOperand, Start, Straight, Branch, JumpIndirect, Switch, Sysreq, Halt, Reject,
     Goto, Stop
<1>2. Narrow /\ Cells' = Cells /\ \A i \in Int : Word(i)' = Word(i)
  BY <1>1, SameCode
<1>3. WellFormed /\ Found
  <2>1. image.layout \subseteq Nat
    BY ImageAssumption DEF IInv
  <2>2. WellFormed
    BY <1>1, <1>2, <2>1 DEF WellFormed, WellFormedAt, EntriesInside, OneForm, DataOffs, codesize,
       Cells, Word
  <2> QED BY <1>2, <2>2 DEF LoadInv
<1>4. /\ image \in Images /\ image.layout # {} /\ image.layout \subseteq Nat /\ Cells \in Nat
      /\ TypeOK /\ (\A i \in image.layout : Word(i)' = Word(i))
  <2>1. /\ image \in Images /\ image.layout # {} /\ image.layout \subseteq Nat /\ Cells \in Nat
        /\ TypeOK
    BY <1>3, ImageAssumption, CodeCells DEF IInv, WellFormed
  <2> QED BY <1>2, <2>1
<1>5. PICK f \in {OP_SYSREQ_C, OP_SYSREQ_N} :
         /\ forms \subseteq {f}
         /\ \A i \in image.layout : Word(i) \in {OP_SYSREQ_C, OP_SYSREQ_N} => Word(i) = f
  BY <1>3 DEF Found
<1>6. ASSUME UNCHANGED forms
      PROVE  \E g \in {OP_SYSREQ_C, OP_SYSREQ_N} :
               /\ forms' \subseteq {g}
               /\ \A i \in image'.layout : Word(i)' \in {OP_SYSREQ_C, OP_SYSREQ_N} => Word(i)' = g
  BY <1>1, <1>4, <1>5, <1>6
<1>7. CASE BadHeader \/ BadTables \/ BadStart
  BY <1>3, <1>7 DEF BadHeader, BadTables, BadStart, WellFormed
<1>8. CASE NoMemory
  BY <1>6, <1>8 DEF NoMemory, Reject, Found
<1>9. CASE GoodHeader
  <2>1. 0 \in image.layout
    BY <1>4, LayoutAssumption
  <2>2. addrs = {} /\ phase' = "collect" /\ cip' = 0 /\ UNCHANGED <<addrs, forms>>
    BY <1>9 DEF GoodHeader, IInv, Collected
  <2>3. \A a \in image.layout : ~(a < 0)
    BY <1>4
  <2> QED BY <1>1, <1>6, <2>1, <2>2, <2>3 DEF Found
<1>10. CASE BadOpcode
  BY <1>2, <1>3, <1>4, <1>10, LaidOut DEF BadOpcode, Found
<1>11. CASE Collect
  <2>1. /\ cip \in image.layout /\ addrs = {a \in image.layout : a < cip}
        /\ addrs' = addrs \cup {cip} /\ UNCHANGED forms
    BY <1>3, <1>11 DEF Collect, Found
  <2>2. /\ cip \in 0 .. Cells - 1 /\ OpSize(cip) \in Nat /\ OpSize(cip) >= 1
        /\ cip + OpSize(cip) \in image.layout \cup {Cells}
        /\ \A j \in image.layout : cip < j => cip + OpSize(cip) <= j
        /\ \A j \in image.layout : j \in 0 .. Cells - 1
    BY <1>2, <1>4, <2>1, LaidOut, SizePositive
  <2> DEFINE next == cip + OpSize(cip)
  <2>3. addrs' = {a \in image.layout : a < next}
    BY <1>4, <2>1, <2>2
  <2>4. CASE next < Cells
    <3>1. cip' = next /\ phase' = "collect" /\ next \in image.layout
      BY <1>4, <1>11, <2>2, <2>4 DEF Collect
    <3> HIDE DEF next
    <3> QED BY <1>1, <1>6, <2>1, <2>3, <3>1 DEF Found
  <2>5. CASE ~(next < Cells)
    <3>1. phase' = "verify" /\ next >= Cells
      BY <1>4, <1>11, <2>2, <2>5 DEF Collect
    <3>2. addrs' = image.layout
      BY <1>4, <2>2, <2>3, <3>1
    <3> HIDE DEF next
    <3> QED BY <1>1, <1>6, <2>1, <3>1, <3>2 DEF Found
  <2> QED BY <2>4, <2>5
<1>12. CASE BadOperand
  BY <1>2, <1>3, <1>12, WellFormedAccepted DEF BadOperand
<1>13. CASE Verify
  <2>1. /\ phase = "verify" /\ phase' \in {"verify", "loaded"} /\ UNCHANGED addrs
        /\ forms' = forms \cup ({Word(cip)} \cap {OP_SYSREQ_C, OP_SYSREQ_N})
    BY <1>13 DEF Verify
  <2>2. addrs = image.layout /\ cip \in image.layout
    BY <1>2, <1>3, <2>1 DEF Found, IInv, Verified
  <2>3. forms' \subseteq {f}
    BY <1>5, <2>1, <2>2
  <2> QED BY <1>1, <1>4, <1>5, <2>1, <2>2, <2>3 DEF Found
<1>14. CASE Start \/ Straight \/ Branch \/ JumpIndirect \/ Switch \/ Sysreq \/ Halt
  <2>1. /\ phase \in {"loaded", "run"} /\ phase' \in {"loaded", "run"}
        /\ UNCHANGED <<addrs, forms>>
    BY <1>14 DEF Start, Straight, Branch, JumpIndirect, Switch, Sysreq, Halt, Goto, Stop, Running
  <2> QED BY <1>1, <1>3, <1>6, <2>1 DEF Found
<1>15. CASE UNCHANGED vars
  BY <1>1, <1>3, <1>6, <1>15 DEF vars, Found
<1> QED BY <1>7, <1>8, <1>9, <1>10, <1>11, <1>12, <1>13, <1>14, <1>15 DEF Next

\* A file that the assembler laid out and whose case tables fit the verifier's
\* size byte is never refused, except for want of memory, by any variant.
THEOREM CompiledCodeLoads == Spec => []NarrowIsAccepted
<1>1. Init => LoadInv
  <2> SUFFICES ASSUME Init, WellFormed PROVE Found
    BY DEF LoadInv
  <2>1. \E f \in {OP_SYSREQ_C, OP_SYSREQ_N} :
          \A i \in image.layout : Word(i) \in {OP_SYSREQ_C, OP_SYSREQ_N} => Word(i) = f
    BY DEF WellFormed, OneForm
  <2> QED BY <2>1 DEF Init, Found
<1>2. LoadInv => NarrowIsAccepted
  BY DEF LoadInv, Found, NarrowIsAccepted, CompiledIsAccepted
<1> QED BY <1>1, <1>2, InductiveInvariant, LoadStep, PTL DEF Spec
=============================================================================
