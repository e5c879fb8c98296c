--------------------------- MODULE AmxExecProofs ---------------------------
(***************************************************************************)
(* Whatever bytecode runs and whatever natives do with the host API, every *)
(* caller of amx_Exec gets its stack and heap back: CallerBalanced, for    *)
(* all values of the constants.                                            *)
(***************************************************************************)
EXTENDS AmxExec, StackDepth, SequenceTheorems, TLAPS

(***************************************************************************)
(* CallerBalanced is not inductive: that AMX.stk is right after abort_exec *)
(* rests on reset_stk of the activation, which rests on paramcount being   *)
(* right on entry, which rests on nobody leaving pushed parameters behind; *)
(* and after a sleep on the reset pair kept in the AMX.                    *)
(***************************************************************************)
Shape ==
    /\ Len(ctx) >= 1
    /\ Len(ctx) = Len(act) \/ Len(ctx) = Len(act) + 1

\* Each activation would restore what its own caller expects.
ResetsMatch ==
    \A k \in 1 .. Len(act) :
        act[k].reset_stk = ctx[k].stk /\ act[k].reset_hea = ctx[k].hea

\* A ready caller is balanced; parameters were pushed with a margin to spare.
ReadyInv ==
    InCaller /\ Caller.status = "ready" =>
        /\ amx.stk + amx.paramcount = Caller.stk
        /\ amx.hea = Caller.hea
        /\ amx.paramcount > 0 => amx.hea + STKMARGIN - 1 <= amx.stk

SleepOk(a, c) ==
    /\ a.paramcount = 0
    /\ a.reset_stk = c.stk
    /\ a.reset_hea = c.hea

AsleepInv == InCaller /\ Caller.status = "asleep" => SleepOk(amx, Caller)
SavedInv  == saved # <<>> => saved[1].ctx.status = "asleep" /\ SleepOk(saved[1].amx, saved[1].ctx)
RunInv    == ~InCaller => amx.paramcount = 0

\* A native is called by an instruction of the program.
NativesInv == \A k \in 1 .. Len(ctx) - 1 : act[k].cip \in DOMAIN Code

IInv == TypeOK /\ Shape /\ NativesInv /\ ResetsMatch /\ ReadyInv /\ AsleepInv /\ SavedInv /\ RunInv

USE DEF InCaller, Running, Caller

LEMMA PrefixSeq ==
    ASSUME NEW S, NEW s \in Seq(S), NEW m \in 0 .. Len(s)
    PROVE  /\ SubSeq(s, 1, m) \in Seq(S)
           /\ Len(SubSeq(s, 1, m)) = m
           /\ \A k \in 1 .. m : SubSeq(s, 1, m)[k] = s[k]
<1>1. Len(s) \in Nat /\ m \in Int /\ m - 1 + 1 = m
  BY LenProperties
<1>2. \A k \in 1 .. m : s[k] \in S
  BY <1>1, ElementOfSeq
<1>3. /\ SubSeq(s, 1, m) \in Seq(S)
      /\ Len(SubSeq(s, 1, m)) = IF 1 <= m THEN m - 1 + 1 ELSE 0
      /\ \A i \in 1 .. m - 1 + 1 : SubSeq(s, 1, m)[i] = s[1 + i - 1]
  BY <1>1, <1>2, SubSeqProperties
<1> QED BY <1>1, <1>3

LEMMA AwakeType == Awake \in SleptType
BY DEF Awake, SleptType

\* An entry whose program has ended keeps what its caller may expect.
LEMMA MarkedCaller ==
    ASSUME IInv, NEW c \in CtxType, NEW st \in {"ready", "asleep"}, NEW sl \in SleptType
    PROVE  LET d == Marked(c, st, sl)
           IN /\ d \in CtxType /\ d.status = st /\ d.slept = sl /\ d.stk = c.stk /\ d.hea = c.hea
              /\ d.mem = c.mem /\ d.cleared = c.cleared /\ d.heard = c.heard \cup HandedOn
<1>1. HandedOn \in SUBSET Errors
  BY DEF HandedOn, IInv, TypeOK, AmxType
<1>2. \A h \in SUBSET Errors : c.heard \cup h \in SUBSET Errors
  BY DEF CtxType
<1> HIDE DEF HandedOn
<1> QED BY <1>1, <1>2 DEF Marked, CtxType

\* The end of an activation: its caller is balanced, or holds a sleeper whose
\* reset pair is its own.
LEMMA ReturnKeepsIInv ==
    ASSUME IInv, act # <<>>,
           NEW st \in {"ready", "asleep"}, NEW sl \in SleptType,
           act' = SubSeq(act, 1, Len(act) - 1),
           ctx' = SetCaller(SubSeq(ctx, 1, Len(act)), st, sl),
           amx' \in AmxType, amx'.paramcount = 0,
           st = "ready" => amx'.stk = Regs.reset_stk /\ amx'.hea = Regs.reset_hea,
           st = "asleep" => amx'.reset_stk = Regs.reset_stk /\ amx'.reset_hea = Regs.reset_hea,
           mem' \in MemType, patched' \subseteq DOMAIN Code, UNCHANGED saved
    PROVE  IInv'
<1> DEFINE n == Len(act)
<1>1. n \in Nat /\ n >= 1 /\ n <= Len(ctx) /\ act[n] \in RegsType /\ ctx[n] \in CtxType
  BY DEF IInv, TypeOK, Shape
<1>2. act' \in Seq(RegsType) /\ Len(act') = n - 1 /\ \A k \in 1 .. n - 1 : act'[k] = act[k]
  <2>1. act \in Seq(RegsType) /\ n - 1 \in 0 .. Len(act) /\ act' = SubSeq(act, 1, n - 1)
    BY <1>1 DEF IInv, TypeOK
  <2> HIDE DEF n
  <2> QED BY <2>1, PrefixSeq
<1>3. /\ ctx' \in Seq(CtxType)
      /\ Len(ctx') = n
      /\ \A k \in 1 .. n - 1 : ctx'[k] = ctx[k]
      /\ ctx'[n].status = st /\ ctx'[n].stk = ctx[n].stk /\ ctx'[n].hea = ctx[n].hea
  <2> DEFINE s == SubSeq(ctx, 1, n)
             c == Marked(ctx[n], st, sl)
  <2>1. s \in Seq(CtxType) /\ Len(s) = n /\ \A k \in 1 .. n : s[k] = ctx[k]
    BY <1>1, PrefixSeq DEF IInv, TypeOK
  <2>2. c \in CtxType /\ c.status = st /\ c.stk = ctx[n].stk /\ c.hea = ctx[n].hea
    BY <1>1, MarkedCaller
  <2>3. ctx' = [s EXCEPT ![n] = c]
    BY <1>1, <2>1 DEF SetCaller
  <2> HIDE DEF s, c
  <2>4. s \in Seq(CtxType) /\ n \in 1 .. Len(s)
    BY <1>1, <2>1
  <2> HIDE DEF n
  <2>5. /\ ctx' \in Seq(CtxType) /\ Len(ctx') = Len(s)
        /\ \A k \in 1 .. Len(s) : ctx'[k] = IF k = n THEN c ELSE s[k]
    BY <2>2, <2>3, <2>4, ExceptSeq
  <2>6. ctx'[n] = c /\ \A k \in 1 .. n - 1 : ctx'[k] = ctx[k]
    <3>1. n \in Nat /\ n >= 1
      BY <1>1 DEF n
    <3>2. \A k \in 1 .. n : ctx'[k] = IF k = n THEN c ELSE ctx[k]
      BY <2>1, <2>5
    <3>3. \A k \in 1 .. n - 1 : k \in 1 .. n /\ k # n
      BY <3>1
    <3> QED BY <3>1, <3>2, <3>3
  <2> QED BY <2>1, <2>2, <2>5, <2>6
<1>4. TypeOK'
  BY <1>2, <1>3 DEF IInv, TypeOK
<1>5. ResetsMatch' /\ NativesInv'
  BY SMTT(30), <1>1, <1>2, <1>3 DEF IInv, ResetsMatch, NativesInv
<1>6. Shape'
  BY <1>1, <1>2, <1>3 DEF Shape
<1>7. ReadyInv' /\ AsleepInv' /\ RunInv'
  <2>1. /\ InCaller' /\ Caller' = ctx'[n] /\ Regs = act[n]
        /\ act[n].reset_stk = ctx[n].stk /\ act[n].reset_hea = ctx[n].hea
    BY <1>1, <1>2, <1>3 DEF IInv, ResetsMatch, Regs
  <2> HIDE DEF n
  <2>2. /\ amx'.stk \in Int /\ Caller'.status = st
        /\ st = "ready" => amx'.stk = Caller'.stk /\ amx'.hea = Caller'.hea
        /\ st = "asleep" => amx'.reset_stk = Caller'.stk /\ amx'.reset_hea = Caller'.hea
    BY <1>3, <2>1 DEF AmxType
  <2>3. ReadyInv'
    BY <2>2 DEF ReadyInv
  <2>4. AsleepInv'
    BY <2>2 DEF AsleepInv, SleepOk
  <2>5. RunInv'
    BY <2>1 DEF RunInv
  <2> QED BY <2>3, <2>4, <2>5
<1>8. SavedInv'
  BY DEF IInv, SavedInv
<1> QED BY <1>4, <1>5, <1>6, <1>7, <1>8 DEF IInv

\* Registers of the activation on top: every instruction keeps the reset pair.
TopRegs == {r \in RegsType : r.reset_stk = Regs.reset_stk /\ r.reset_hea = Regs.reset_hea}

LEMMA TopRegsInt ==
    ASSUME NEW q \in TopRegs
    PROVE  q.stk \in Int /\ q.hea \in Int /\ q.frm \in Int /\ q.cip \in Int
BY DEF TopRegs, RegsType

LEMMA TopRegsSet ==
    ASSUME NEW q \in TopRegs, NEW v \in Int
    PROVE  /\ [q EXCEPT !.stk = v] \in TopRegs
           /\ [q EXCEPT !.hea = v] \in TopRegs
           /\ [q EXCEPT !.frm = v] \in TopRegs
           /\ [q EXCEPT !.cip = v] \in TopRegs
BY DEF TopRegs, RegsType

LEMMA TopRegsNext ==
    ASSUME NEW q \in TopRegs
    PROVE  Next1(q) \in TopRegs
<1>1. q.cip + 1 \in Int
  BY TopRegsInt
<1> QED BY <1>1, TopRegsSet DEF Next1

LEMMA AbortKeepsIInv ==
    ASSUME IInv, act # <<>>, amx.paramcount = 0, NEW r \in TopRegs, AbortExec(r),
           mem' \in MemType, patched' \subseteq DOMAIN Code, UNCHANGED saved
    PROVE  IInv'
<1>1. /\ amx' \in AmxType /\ amx'.paramcount = 0
      /\ amx'.stk = Regs.reset_stk /\ amx'.hea = Regs.reset_hea
  BY DEF AbortExec, AmxType, RegsType, TopRegs, IInv, TypeOK
<1> QED BY <1>1, AwakeType, ReturnKeepsIInv DEF AbortExec

LEMMA SleepKeepsIInv ==
    ASSUME IInv, act # <<>>, NEW r \in TopRegs, NEW a \in AmxType, a.paramcount = 0,
           SleepExec(r, a), mem' \in MemType, patched' \subseteq DOMAIN Code, UNCHANGED saved
    PROVE  IInv'
<1>1. /\ amx' \in AmxType /\ amx'.paramcount = 0
      /\ amx'.reset_stk = Regs.reset_stk /\ amx'.reset_hea = Regs.reset_hea
  BY DEF SleepExec, AmxType, RegsType, TopRegs
<1>2. SleepPoint(r) \in SleptType
  BY DEF SleepPoint, SleptType, RegsType, TopRegs
<1> QED BY <1>1, <1>2, ReturnKeepsIInv DEF SleepExec

\* A step within the activation on top.
LEMMA RunKeepsIInv ==
    ASSUME IInv, Running, NEW r \in TopRegs,
           act' = [act EXCEPT ![Len(act)] = r], amx' \in AmxType, amx'.paramcount = 0,
           mem' \in MemType, patched' \subseteq DOMAIN Code, UNCHANGED <<ctx, saved>>
    PROVE  IInv'
<1>1. Len(act) \in Nat /\ Len(act) >= 1 /\ r \in RegsType
  BY DEF IInv, TypeOK, TopRegs
<1>2. /\ act' \in Seq(RegsType) /\ Len(act') = Len(act)
      /\ \A k \in 1 .. Len(act) : act'[k] = IF k = Len(act) THEN r ELSE act[k]
  BY <1>1, ExceptSeq DEF IInv, TypeOK
<1>3. TypeOK' /\ Shape' /\ SavedInv' /\ RunInv' /\ ReadyInv' /\ AsleepInv'
  BY <1>1, <1>2 DEF IInv, TypeOK, Shape, SavedInv, RunInv, ReadyInv, AsleepInv
<1>4. ResetsMatch' /\ NativesInv'
  BY <1>1, <1>2 DEF IInv, ResetsMatch, NativesInv, TopRegs, Regs
<1> QED BY <1>3, <1>4 DEF IInv

-----------------------------------------------------------------------------
(* One lemma per group of actions.                                         *)

LEMMA InitIInv == Init => IInv
<1> SUFFICES ASSUME Init PROVE IInv
  OBVIOUS
<1>1. TypeOK
  BY MachineAssumption, AwakeType
     DEF Init, TypeOK, AmxType, CtxType, MemType, NewCaller, Addr, Errors
<1>2. Shape /\ NativesInv /\ ResetsMatch /\ ReadyInv /\ AsleepInv /\ SavedInv /\ RunInv
  BY MachineAssumption
     DEF Init, Shape, NativesInv, ResetsMatch, ReadyInv, AsleepInv, SavedInv, RunInv, NewCaller
<1> QED BY <1>1, <1>2 DEF IInv

\* Facts about a running program that every instruction needs.
LEMMA RunningFacts ==
    ASSUME IInv, Running
    PROVE  /\ act # <<>> /\ ~InCaller /\ amx.paramcount = 0 /\ amx \in AmxType
           /\ Regs \in TopRegs /\ mem \in MemType /\ patched \subseteq DOMAIN Code
<1>1. Len(act) \in Nat /\ Len(act) >= 1 /\ Len(ctx) = Len(act)
  BY DEF IInv, TypeOK
<1>2. ~InCaller
  BY <1>1
<1> QED BY <1>1, <1>2 DEF IInv, TypeOK, RunInv, TopRegs, Regs

LEMMA StoreType ==
    ASSUME mem \in MemType, NEW a, NEW v \in Int
    PROVE  Store(a, v) \in MemType
BY DEF Store, MemType

LEMMA InstrType ==
    ASSUME NEW op, At(op)
    PROVE  Instr \in [op : STRING, n : Int, dst : Int, err : Errors] /\ Instr.op = op /\ Running
BY CodeAssumption DEF At, Instr

\* An instruction goes on with registers of its activation, or aborts.
LEMMA InstrKeepsIInv ==
    ASSUME IInv, Running, NEW r \in TopRegs, Run(r) \/ AbortExec(r),
           mem' \in MemType, UNCHANGED <<patched, saved>>
    PROVE  IInv'
BY RunningFacts, RunKeepsIInv, AbortKeepsIInv DEF Run

\* Regs with its stack pointer moved.
LEMMA MovedStk ==
    ASSUME Regs \in TopRegs, NEW n \in Int
    PROVE  /\ [Regs EXCEPT !.stk = @ + n] \in TopRegs
           /\ [Regs EXCEPT !.stk = @ - n] \in TopRegs
           /\ [Regs EXCEPT !.hea = @ + n] \in TopRegs
<1>1. Regs.stk + n \in Int /\ Regs.stk - n \in Int /\ Regs.hea + n \in Int
  BY TopRegsInt
<1> QED BY <1>1, TopRegsSet

LEMMA CellInt == ASSUME mem \in MemType, NEW a PROVE Cell(a) \in Int
BY DEF Cell, MemType

\* The step left the cells from address b up as they were.
KeptFrom(b) == \A a \in Addr : a >= b => mem'[a] = mem[a]

LEMMA StoreKeeps ==
    ASSUME mem \in MemType, NEW x \in Int, NEW v, mem' = Store(x, v)
    PROVE  KeptFrom(x + 1)
<1> SUFFICES ASSUME NEW a \in Addr, a >= x + 1 PROVE mem'[a] = mem[a]
  BY DEF KeptFrom
<1>1. a # x
  BY MachineAssumption DEF Addr
<1> QED BY <1>1 DEF Store, MemType

\* The ways an instruction goes on: with other registers, with an abort, or
\* with a return to the host that can be resumed.
GoesOn == \E r \in TopRegs : Run(r) \/ AbortExec(r)
Falls  == SleepExec(Regs, [amx EXCEPT !.stk = Regs.stk, !.hea = Regs.hea, !.cip = Regs.cip + 1])
Hooked == \/ /\ act' = [act EXCEPT ![Len(act)] = Next1(Regs)]
             /\ amx' = SaveRegs(Regs)
             /\ UNCHANGED ctx
          \/ "SLEEP" \in HookResults /\ SleepExec(Regs, SaveRegs(Regs))

\* What the invariants need to know of an instruction: it works on the
\* activation on top and stores only below the stack pointer it found.
LEMMA InterpretSteps ==
    ASSUME IInv, Interpret
    PROVE  /\ Running /\ UNCHANGED <<patched, saved>>
           /\ mem' \in MemType /\ KeptFrom(Regs.stk)
           /\ GoesOn \/ Falls \/ Hooked
<1>1. /\ Running /\ Regs \in TopRegs /\ mem \in MemType
      /\ Regs.stk \in Int /\ Regs.hea \in Int /\ Regs.cip \in Int
      /\ Instr \in [op : STRING, n : Int, dst : Int, err : Errors]
  <2>1. Running /\ Instr \in [op : STRING, n : Int, dst : Int, err : Errors]
    BY InstrType DEF Interpret, PushCells, Pop, MoveStk, MoveHea, SetFrame, Proc, Call, Return,
                     Jump, Data, Halt, Break
  <2> QED BY <2>1, RunningFacts, TopRegsInt
<1>2. Instr.n \in Int /\ Instr.dst \in Int
  BY <1>1
<1>3. ASSUME NEW r \in TopRegs, Run(r) \/ AbortExec(r) PROVE GoesOn
  BY <1>3 DEF GoesOn
<1>4. ASSUME UNCHANGED mem PROVE mem' \in MemType /\ KeptFrom(Regs.stk)
  BY <1>1, <1>4 DEF KeptFrom
<1>5. CASE PushCells
  <2> DEFINE r == [Regs EXCEPT !.stk = @ - Instr.n]
             m == [a \in Addr |-> IF a \in r.stk .. r.stk + Instr.n - 1 THEN Instr.dst ELSE mem[a]]
  <2>1. /\ \/ Run(Next1(r)) /\ mem' = m
           \/ AbortExec(r) /\ mem' = mem
           \/ AbortExec(Regs) /\ mem' = mem
        /\ UNCHANGED <<patched, saved>>
    BY <1>5 DEF PushCells
  <2>2. r \in TopRegs /\ r.stk = Regs.stk - Instr.n
    BY <1>1, <1>2, MovedStk DEF TopRegs, RegsType
  <2>3. m \in MemType /\ \A a \in Addr : a >= Regs.stk => m[a] = mem[a]
    <3>1. m \in MemType
      BY <1>1, <1>2 DEF MemType
    <3>2. ASSUME NEW a \in Addr, a >= Regs.stk PROVE m[a] = mem[a]
      <4>1. a \in Int
        BY MachineAssumption DEF Addr
      <4>2. ~(a \in r.stk .. r.stk + Instr.n - 1)
        BY <1>1, <1>2, <2>2, <3>2, <4>1
      <4> QED BY <4>2
    <3> QED BY <3>1, <3>2
  <2> HIDE DEF r, m
  <2> QED BY <1>1, <1>3, <1>4, <2>1, <2>2, <2>3, TopRegsNext DEF KeptFrom
<1>6. CASE Pop
  <2> DEFINE r == [Regs EXCEPT !.stk = @ + 1]
  <2>1. (Run(Next1(r)) \/ AbortExec(r)) /\ UNCHANGED <<mem, patched, saved>>
    BY <1>6 DEF Pop
  <2>2. r \in TopRegs
    <3>1. Regs.stk + 1 \in Int
      BY <1>1
    <3> QED BY <1>1, <3>1, TopRegsSet
  <2> HIDE DEF r
  <2> QED BY <1>1, <1>3, <1>4, <2>1, <2>2, TopRegsNext
<1>7. CASE MoveStk
  <2> DEFINE r == [Regs EXCEPT !.stk = IF Instr.op = "STACK" THEN @ + Instr.n ELSE Instr.n]
  <2>1. (Run(Next1(r)) \/ AbortExec(r)) /\ UNCHANGED <<mem, patched, saved>>
    BY <1>7 DEF MoveStk
  <2>2. r \in TopRegs
    <3>1. Regs.stk + Instr.n \in Int
      BY <1>1, <1>2
    <3> QED BY <1>1, <1>2, <3>1, TopRegsSet
  <2> HIDE DEF r
  <2> QED BY <1>1, <1>3, <1>4, <2>1, <2>2, TopRegsNext
<1>8. CASE MoveHea
  <2> DEFINE r == [Regs EXCEPT !.hea = IF Instr.op = "HEAP" THEN @ + Instr.n ELSE Instr.n]
  <2>1. (Run(Next1(r)) \/ AbortExec(r)) /\ UNCHANGED <<mem, patched, saved>>
    BY <1>8 DEF MoveHea
  <2>2. r \in TopRegs
    <3>1. Regs.hea + Instr.n \in Int
      BY <1>1, <1>2
    <3> QED BY <1>1, <1>2, <3>1, TopRegsSet
  <2> HIDE DEF r
  <2> QED BY <1>1, <1>3, <1>4, <2>1, <2>2, TopRegsNext
<1>9. CASE SetFrame
  <2> DEFINE r == [Regs EXCEPT !.frm = Instr.n]
  <2>1. (Run(Next1(r)) \/ AbortExec(r)) /\ UNCHANGED <<mem, patched, saved>>
    BY <1>9 DEF SetFrame
  <2>2. r \in TopRegs
    BY <1>1, <1>2, TopRegsSet
  <2> HIDE DEF r
  <2> QED BY <1>1, <1>3, <1>4, <2>1, <2>2, TopRegsNext
<1>10. CASE Proc
  <2> DEFINE r == [Regs EXCEPT !.stk = @ - 1]
             q == [Next1(r) EXCEPT !.frm = r.stk]
  <2>1. /\ (Run(q) /\ mem' = Store(r.stk, r.frm)) \/ (AbortExec(r) /\ mem' = mem)
        /\ UNCHANGED <<patched, saved>>
    BY <1>10 DEF Proc
  <2>2. r \in TopRegs /\ r.stk + 1 = Regs.stk
    <3>1. Regs.stk - 1 \in Int /\ Regs.stk - 1 + 1 = Regs.stk
      BY <1>1
    <3>2. r.stk = Regs.stk - 1
      BY <1>1 DEF TopRegs, RegsType
    <3> QED BY <1>1, <3>1, <3>2, TopRegsSet
  <2> HIDE DEF r
  <2>3. q \in TopRegs /\ Store(r.stk, r.frm) \in MemType
    BY <1>1, <2>2, TopRegsInt, TopRegsSet, TopRegsNext, StoreType
  <2>4. r.stk \in Int
    BY <2>2, TopRegsInt
  <2> HIDE DEF q
  <2> QED BY <1>1, <1>3, <1>4, <2>1, <2>2, <2>3, <2>4, StoreKeeps
<1>11. CASE Call
  <2> DEFINE r == [Regs EXCEPT !.stk = @ - 1]
             q == [r EXCEPT !.cip = Instr.dst]
  <2>1. /\ \/ Run(q) /\ mem' = Store(r.stk, r.cip + 1)
           \/ AbortExec(r) /\ mem' = mem
           \/ AbortExec(Regs) /\ mem' = mem
        /\ UNCHANGED <<patched, saved>>
    BY <1>11 DEF Call
  <2>2. r \in TopRegs /\ r.stk + 1 = Regs.stk
    <3>1. Regs.stk - 1 \in Int /\ Regs.stk - 1 + 1 = Regs.stk
      BY <1>1
    <3>2. r.stk = Regs.stk - 1
      BY <1>1 DEF TopRegs, RegsType
    <3> QED BY <1>1, <3>1, <3>2, TopRegsSet
  <2> HIDE DEF r
  <2>3. q \in TopRegs /\ r.stk \in Int /\ r.cip + 1 \in Int
    <3>1. r.cip \in Int /\ r.stk \in Int
      BY <2>2, TopRegsInt
    <3>2. q \in TopRegs
      BY <1>2, <2>2, TopRegsSet
    <3> QED BY <3>1, <3>2
  <2>4. Store(r.stk, r.cip + 1) \in MemType
    BY <1>1, <2>3, StoreType
  <2> HIDE DEF q
  <2> QED BY <1>1, <1>3, <1>4, <2>1, <2>2, <2>3, <2>4, StoreKeeps
<1>12. CASE Return
  <2> DEFINE r0 == [Regs EXCEPT !.stk = @ + 2]
             r1 == [r0 EXCEPT !.frm = Cell(Regs.stk)]
             r2 == IF Instr.op = "RETN" THEN [r1 EXCEPT !.stk = @ + Cell(@) + 1] ELSE r1
             r3 == [r2 EXCEPT !.cip = Cell(Regs.stk + 1)]
  <2>1. /\ AbortExec(r0) \/ AbortExec(r1) \/ AbortExec(r2) \/ Run(r3)
        /\ UNCHANGED <<mem, patched, saved>>
    BY <1>12 DEF Return
  <2>2. r0 \in TopRegs
    <3>1. Regs.stk + 2 \in Int
      BY <1>1
    <3> QED BY <1>1, <3>1, TopRegsSet
  <2> HIDE DEF r0
  <2>3. r1 \in TopRegs
    BY <1>1, <2>2, CellInt, TopRegsSet
  <2> HIDE DEF r1
  <2>4. r2 \in TopRegs
    <3>1. r1.stk + Cell(r1.stk) + 1 \in Int
      BY <1>1, <2>3, CellInt, TopRegsInt
    <3> QED BY <2>3, <3>1, TopRegsSet
  <2> HIDE DEF r2
  <2>5. r3 \in TopRegs
    BY <1>1, <2>4, CellInt, TopRegsSet
  <2> HIDE DEF r3
  <2> QED BY <1>1, <1>3, <1>4, <2>1, <2>2, <2>3, <2>4, <2>5
<1>13. CASE Jump
  <2> DEFINE r == [Regs EXCEPT !.cip = Instr.dst]
  <2>1. /\ Run(r) \/ Run(Next1(Regs)) \/ AbortExec(Regs)
        /\ UNCHANGED <<mem, patched, saved>>
    BY <1>13 DEF Jump
  <2>2. r \in TopRegs
    BY <1>1, <1>2, TopRegsSet
  <2> HIDE DEF r
  <2> QED BY <1>1, <1>3, <1>4, <2>1, <2>2, TopRegsNext
<1>14. CASE Data
  <2>1. (Run(Next1(Regs)) \/ AbortExec(Regs)) /\ UNCHANGED <<mem, patched, saved>>
    BY <1>14 DEF Data
  <2> QED BY <1>1, <1>3, <1>4, <2>1, TopRegsNext
<1>15. CASE Halt
  <2>1. (Falls \/ AbortExec(Regs)) /\ UNCHANGED <<mem, patched, saved>>
    BY <1>15 DEF Halt, Falls
  <2> QED BY <1>1, <1>3, <1>4, <2>1
<1>16. CASE Break
  <2>1. (Hooked \/ AbortExec(Regs)) /\ UNCHANGED <<mem, patched, saved>>
    BY <1>16 DEF Break, Hooked
  <2> QED BY <1>1, <1>3, <1>4, <2>1
<1> QED BY <1>5, <1>6, <1>7, <1>8, <1>9, <1>10, <1>11, <1>12, <1>13, <1>14, <1>15, <1>16
        DEF Interpret

LEMMA InterpretKeepsIInv ==
    ASSUME IInv, Interpret
    PROVE  IInv'
<1>1. /\ Running /\ UNCHANGED <<patched, saved>> /\ mem' \in MemType
      /\ GoesOn \/ Falls \/ Hooked
  BY InterpretSteps
<1>2. Regs \in TopRegs /\ mem \in MemType /\ amx.paramcount = 0
      /\ amx \in AmxType /\ act # <<>> /\ patched \subseteq DOMAIN Code
      /\ Regs.stk \in Int /\ Regs.hea \in Int /\ Regs.cip + 1 \in Int /\ Regs.frm \in Int
  <2>1. Regs \in TopRegs
    BY <1>1, RunningFacts
  <2>2. Regs.stk \in Int /\ Regs.hea \in Int /\ Regs.cip \in Int /\ Regs.frm \in Int
    BY <2>1, TopRegsInt
  <2> QED BY <1>1, <2>2, RunningFacts
<1>3. CASE GoesOn
  BY <1>1, <1>3, InstrKeepsIInv DEF GoesOn
<1>4. CASE Falls
  <2> DEFINE a == [amx EXCEPT !.stk = Regs.stk, !.hea = Regs.hea, !.cip = Regs.cip + 1]
  <2>1. SleepExec(Regs, a)
    BY <1>4 DEF Falls
  <2>2. a \in AmxType /\ a.paramcount = 0
    BY <1>2 DEF AmxType
  <2> HIDE DEF a
  <2> QED BY <1>1, <1>2, <2>1, <2>2, SleepKeepsIInv
<1>5. CASE Hooked
  <2>1. SaveRegs(Regs) \in AmxType /\ SaveRegs(Regs).paramcount = 0
    BY <1>1, <1>2, TopRegsInt DEF AmxType, SaveRegs
  <2> QED BY <1>1, <1>2, <1>5, <2>1, TopRegsNext, RunKeepsIInv, SleepKeepsIInv DEF Hooked
<1> QED BY <1>1, <1>3, <1>4, <1>5

-----------------------------------------------------------------------------
(* A caller in control: the host API, and the way into and out of natives. *)

LEMMA CallerFacts ==
    ASSUME IInv, InCaller
    PROVE  /\ Len(act) \in Nat /\ Len(ctx) = Len(act) + 1 /\ act \in Seq(RegsType)
           /\ ctx \in Seq(CtxType) /\ amx \in AmxType /\ mem \in MemType
           /\ Caller \in CtxType /\ Caller = ctx[Len(ctx)]
           /\ amx.stk \in Int /\ amx.hea \in Int /\ amx.paramcount \in Nat
           /\ STKMARGIN \in Nat /\ STKMARGIN >= 2
<1>1. Len(act) \in Nat /\ Len(ctx) = Len(act) + 1 /\ Len(ctx) \in 1 .. Len(ctx)
  BY DEF IInv, TypeOK
<1> QED BY <1>1, ElementOfSeq, MachineAssumption DEF IInv, TypeOK, AmxType

\* The balance of a ready caller, and that of one with a sleeper.
Balance(a, c) ==
    /\ c.status = "ready" =>
         /\ a.stk + a.paramcount = c.stk
         /\ a.hea = c.hea
         /\ a.paramcount > 0 => a.hea + STKMARGIN - 1 <= a.stk
    /\ c.status = "asleep" => SleepOk(a, c)

LEMMA CallerBalance == ASSUME IInv, InCaller PROVE Balance(amx, Caller)
BY DEF IInv, ReadyInv, AsleepInv, Balance

\* A step of the caller in control that leaves the activations alone.
LEMMA CallerKeepsIInv ==
    ASSUME IInv, InCaller, NEW c \in CtxType, NEW a \in AmxType, Balance(a, c),
           act' = act, amx' = a, ctx' = [ctx EXCEPT ![Len(ctx)] = c],
           mem' \in MemType, UNCHANGED <<patched, saved>>
    PROVE  IInv'
<1>1. /\ Len(act) \in Nat /\ Len(ctx) = Len(act) + 1 /\ act \in Seq(RegsType)
      /\ ctx \in Seq(CtxType)
  BY CallerFacts
<1>2. /\ ctx' \in Seq(CtxType) /\ Len(ctx') = Len(ctx) /\ ctx'[Len(ctx)] = c
      /\ \A k \in 1 .. Len(act) : ctx'[k] = ctx[k]
  BY <1>1, ExceptSeq
<1>3. InCaller' /\ Caller' = c
  BY <1>1, <1>2
<1>4. TypeOK' /\ Shape' /\ SavedInv' /\ RunInv'
  BY <1>1, <1>2, <1>3 DEF IInv, TypeOK, Shape, SavedInv, RunInv
<1>5. ResetsMatch' /\ NativesInv'
  BY <1>1, <1>2 DEF IInv, ResetsMatch, NativesInv
<1>6. ReadyInv' /\ AsleepInv'
  BY <1>3 DEF ReadyInv, AsleepInv, Balance
<1> QED BY <1>4, <1>5, <1>6 DEF IInv

\* The same for a step that leaves the caller's entry as it is.
LEMMA SameCallerKeepsIInv ==
    ASSUME IInv, InCaller, NEW a \in AmxType, Balance(a, Caller),
           act' = act, amx' = a, ctx' = ctx, mem' \in MemType, UNCHANGED <<patched, saved>>
    PROVE  IInv'
<1>1. /\ InCaller' /\ Caller' = Caller
  OBVIOUS
<1>2. TypeOK' /\ Shape' /\ NativesInv' /\ SavedInv' /\ RunInv' /\ ResetsMatch'
  BY <1>1 DEF IInv, TypeOK, Shape, NativesInv, SavedInv, RunInv, ResetsMatch
<1>3. ReadyInv' /\ AsleepInv'
  BY <1>1 DEF ReadyInv, AsleepInv, Balance
<1> QED BY <1>2, <1>3 DEF IInv

LEMMA PushKeepsIInv ==
    ASSUME IInv, Push
    PROVE  IInv'
<1> DEFINE a == [amx EXCEPT !.stk = @ - 1, !.paramcount = @ + 1]
<1>1. InCaller /\ Caller.status = "ready" /\ amx.hea + STKMARGIN <= amx.stk
  BY DEF Push
<1>2. /\ amx.stk - 1 \in Int /\ amx.paramcount + 1 \in Nat
  BY <1>1, CallerFacts
<1>3. a \in AmxType /\ a.stk = amx.stk - 1 /\ a.paramcount = amx.paramcount + 1 /\ a.hea = amx.hea
  BY <1>1, <1>2, CallerFacts DEF AmxType
<1>4. amx' = a /\ mem' = Store(amx.stk - 1, 0) /\ UNCHANGED <<act, ctx, patched, saved>>
  BY DEF Push
<1>5. mem' \in MemType
  BY <1>1, <1>4, CallerFacts, StoreType
<1> HIDE DEF a
<1>6. Balance(a, Caller)
  BY <1>1, <1>3, CallerFacts, CallerBalance DEF Balance
<1> QED BY <1>1, <1>3, <1>4, <1>5, <1>6, SameCallerKeepsIInv

LEMMA CallerHea ==
    ASSUME NEW c \in CtxType, NEW h \in Int
    PROVE  /\ [c EXCEPT !.hea = h] \in CtxType
           /\ [c EXCEPT !.hea = h].hea = h
           /\ [c EXCEPT !.hea = h].stk = c.stk
           /\ [c EXCEPT !.hea = h].status = c.status
BY DEF CtxType

LEMMA AllotKeepsIInv ==
    ASSUME IInv, NEW cells \in AllotSizes, Allot(cells) \/ PushArray(cells), ~HugeAllots
    PROVE  IInv'
<1> DEFINE c == [Caller EXCEPT !.hea = Caller.hea + cells]
<1>1. /\ InCaller /\ Caller.status = "ready"
      /\ amx.stk - amx.hea - cells >= STKMARGIN
      /\ UNCHANGED <<act, patched, saved>>
      /\ ctx' = [ctx EXCEPT ![Len(ctx)] = c]
  <2>1. /\ InCaller /\ Caller.status = "ready" /\ UNCHANGED <<act, patched, saved>>
        /\ ctx' = [ctx EXCEPT ![Len(ctx)] = c] /\ cells <= amx.stk - amx.hea
        /\ amx.stk - amx.hea - cells >= STKMARGIN \/ amx.stk - amx.hea - cells < 0
    BY DEF Allot, PushArray, AllotFits, Asked
  <2>2. amx.stk \in Int /\ amx.hea \in Int /\ cells \in Int
    BY <2>1, CallerFacts, CallerAssumption
  <2>3. ~(amx.stk - amx.hea - cells < 0)
    BY <2>1, <2>2
  <2> QED BY <2>1, <2>3
<1>2. cells \in Nat /\ Caller.hea \in Int
  BY <1>1, CallerFacts, CallerAssumption DEF CtxType
<1>3. Caller.hea + cells \in Int
  BY <1>2
<1>4. c \in CtxType /\ c.hea = Caller.hea + cells /\ c.stk = Caller.stk /\ c.status = "ready"
  <2>1. Caller \in CtxType
    BY <1>1, CallerFacts
  <2>2. \A x \in CtxType : \A h \in Int :
          /\ [x EXCEPT !.hea = h] \in CtxType /\ [x EXCEPT !.hea = h].hea = h
          /\ [x EXCEPT !.hea = h].stk = x.stk /\ [x EXCEPT !.hea = h].status = x.status
    BY CallerHea
  <2> QED BY <1>1, <1>3, <2>1, <2>2
<1> HIDE DEF c
<1>5. amx.hea + cells \in Int /\ amx.stk - 1 \in Int /\ amx.paramcount + 1 \in Nat
  BY <1>1, <1>2, CallerFacts
<1>6. CASE Allot(cells)
  <2> DEFINE a == [amx EXCEPT !.hea = @ + cells]
  <2>1. amx' = a /\ mem' = mem
    BY <1>6 DEF Allot
  <2>2. a \in AmxType /\ a.hea = amx.hea + cells /\ a.stk = amx.stk /\ a.paramcount = amx.paramcount
    BY <1>1, <1>5, CallerFacts DEF AmxType
  <2> HIDE DEF a
  <2>3. Balance(a, c)
    BY <1>1, <1>2, <1>4, <2>2, CallerFacts, CallerBalance DEF Balance
  <2> QED BY <1>1, <1>4, <2>1, <2>2, <2>3, CallerFacts, CallerKeepsIInv
<1>7. CASE PushArray(cells)
  <2> DEFINE a == [amx EXCEPT !.hea = @ + cells, !.stk = @ - 1, !.paramcount = @ + 1]
  <2>1. amx' = a /\ mem' = Store(amx.stk - 1, amx.hea)
    BY <1>7 DEF PushArray
  <2>2. /\ a \in AmxType /\ a.hea = amx.hea + cells
        /\ a.stk = amx.stk - 1 /\ a.paramcount = amx.paramcount + 1
    BY <1>1, <1>5, CallerFacts DEF AmxType
  <2> HIDE DEF a
  <2>3. Balance(a, c)
    <3>1. /\ amx.stk \in Int /\ amx.hea \in Int /\ amx.paramcount \in Nat /\ STKMARGIN \in Nat
          /\ amx.stk + amx.paramcount = Caller.stk /\ amx.hea = Caller.hea
      BY <1>1, CallerFacts, CallerBalance DEF Balance
    <3>2. amx.stk - 1 + (amx.paramcount + 1) = Caller.stk
      BY <3>1
    <3>3. amx.hea + cells + STKMARGIN - 1 <= amx.stk - 1
      BY <1>1, <1>2, <3>1
    <3> QED BY <1>4, <2>2, <3>1, <3>2, <3>3 DEF Balance
  <2>4. mem' \in MemType
    BY <1>1, <2>1, CallerFacts, StoreType
  <2> QED BY <1>1, <1>4, <2>1, <2>2, <2>3, <2>4, CallerFacts, CallerKeepsIInv
<1> QED BY <1>6, <1>7

LEMMA ReleaseKeepsIInv ==
    ASSUME IInv, NEW addr \in Addr, Release(addr)
    PROVE  IInv'
<1> DEFINE c == [Caller EXCEPT !.hea = addr]
           a == [amx EXCEPT !.hea = addr]
<1>1. /\ InCaller /\ Caller.status = "ready" /\ addr \in HeapBase .. amx.hea - 1
      /\ UNCHANGED <<act, mem, patched, saved>>
      /\ amx' = a
      /\ ctx' = [ctx EXCEPT ![Len(ctx)] = c]
  BY DEF Release
<1>2. addr \in Int /\ addr <= amx.hea
  <2>1. addr \in Int
    BY MachineAssumption DEF Addr
  <2>2. addr <= amx.hea - 1 /\ amx.hea \in Int
    BY <1>1, CallerFacts
  <2> QED BY <2>1, <2>2
<1>3. c \in CtxType /\ c.hea = addr /\ c.stk = Caller.stk /\ c.status = "ready"
  <2>1. Caller \in CtxType
    BY <1>1, CallerFacts
  <2>2. \A x \in CtxType : \A h \in Int :
          /\ [x EXCEPT !.hea = h] \in CtxType /\ [x EXCEPT !.hea = h].hea = h
          /\ [x EXCEPT !.hea = h].stk = x.stk /\ [x EXCEPT !.hea = h].status = x.status
    BY CallerHea
  <2> QED BY <1>1, <1>2, <2>1, <2>2
<1> HIDE DEF c
<1>4. a \in AmxType /\ a.hea = addr /\ a.stk = amx.stk /\ a.paramcount = amx.paramcount
  BY <1>1, <1>2, CallerFacts DEF AmxType
<1> HIDE DEF a
<1>5. Balance(a, c)
  BY <1>1, <1>2, <1>3, <1>4, CallerFacts, CallerBalance DEF Balance
<1> QED BY <1>1, <1>3, <1>4, <1>5, CallerFacts, CallerKeepsIInv

LEMMA RaiseErrorKeepsIInv ==
    ASSUME IInv, NEW e \in NativeErrors, RaiseError(e)
    PROVE  IInv'
<1> DEFINE c == [Caller EXCEPT !.heard = @ \cup {e}]
           a == [amx EXCEPT !.error = e]
<1>1. /\ InCaller /\ UNCHANGED <<act, mem, patched, saved>>
      /\ amx' = a /\ ctx' = [ctx EXCEPT ![Len(ctx)] = c] /\ e \in Errors
  BY CallerAssumption DEF RaiseError
<1>2. c \in CtxType /\ c.stk = Caller.stk /\ c.hea = Caller.hea /\ c.status = Caller.status
  <2>1. Caller \in CtxType
    BY <1>1, CallerFacts
  <2>2. \A x \in CtxType :
          LET y == [x EXCEPT !.heard = @ \cup {e}]
          IN y \in CtxType /\ y.hea = x.hea /\ y.stk = x.stk /\ y.status = x.status
    <3> SUFFICES ASSUME NEW x \in CtxType
                 PROVE  LET y == [x EXCEPT !.heard = @ \cup {e}]
                        IN y \in CtxType /\ y.hea = x.hea /\ y.stk = x.stk /\ y.status = x.status
      OBVIOUS
    <3>1. x.heard \cup {e} \in SUBSET Errors
      BY <1>1 DEF CtxType
    <3> QED BY <3>1 DEF CtxType
  <2> QED BY <2>1, <2>2
<1> HIDE DEF c
<1>3. /\ a \in AmxType /\ a.hea = amx.hea /\ a.stk = amx.stk /\ a.paramcount = amx.paramcount
      /\ a.reset_stk = amx.reset_stk /\ a.reset_hea = amx.reset_hea
  BY <1>1, CallerFacts DEF AmxType
<1> HIDE DEF a
<1>4. Balance(a, c)
  BY <1>1, <1>2, <1>3, CallerFacts, CallerBalance DEF Balance, SleepOk
<1> QED BY <1>1, <1>2, <1>3, <1>4, CallerFacts, CallerKeepsIInv

-----------------------------------------------------------------------------
(* Entering and leaving activations from a caller.                         *)

\* A new activation whose reset pair is its caller's.
LEMMA EnterKeepsIInv ==
    ASSUME IInv, InCaller, NEW r \in RegsType, act' = Append(act, r),
           r.reset_stk = Caller.stk, r.reset_hea = Caller.hea,
           NEW c \in CtxType, c.stk = Caller.stk, c.hea = Caller.hea,
           ctx' = [ctx EXCEPT ![Len(ctx)] = c], amx' \in AmxType, amx'.paramcount = 0,
           mem' \in MemType, UNCHANGED <<patched, saved>>
    PROVE  IInv'
<1> DEFINE n == Len(act)
<1>1. n \in Nat /\ Len(ctx) = n + 1 /\ act \in Seq(RegsType) /\ ctx \in Seq(CtxType)
      /\ Caller = ctx[n + 1]
  BY CallerFacts
<1> HIDE DEF n
<1>2. /\ act' \in Seq(RegsType) /\ Len(act') = n + 1 /\ act'[n + 1] = r
      /\ \A k \in 1 .. n : act'[k] = act[k]
  BY <1>1, AppendProperties DEF n
<1>3. /\ ctx' \in Seq(CtxType) /\ Len(ctx') = n + 1 /\ ctx'[n + 1] = c
      /\ \A k \in 1 .. n : ctx'[k] = ctx[k]
  BY <1>1, ExceptSeq
<1>4. ~InCaller'
  BY <1>1, <1>2, <1>3
<1>5. TypeOK' /\ Shape' /\ SavedInv' /\ RunInv' /\ ReadyInv' /\ AsleepInv'
  BY <1>1, <1>2, <1>3, <1>4 DEF IInv, TypeOK, Shape, SavedInv, RunInv, ReadyInv, AsleepInv
<1>6. ResetsMatch'
  <2> SUFFICES ASSUME NEW k \in 1 .. n + 1
               PROVE  act'[k].reset_stk = ctx'[k].stk /\ act'[k].reset_hea = ctx'[k].hea
    BY <1>2 DEF ResetsMatch
  <2>1. CASE k \in 1 .. n
    BY <1>2, <1>3, <2>1 DEF IInv, ResetsMatch, n
  <2>2. CASE k = n + 1
    BY <1>1, <1>2, <1>3, <2>2
  <2> QED BY <1>1, <2>1, <2>2
<1>7. NativesInv'
  BY <1>1, <1>2, <1>3 DEF IInv, NativesInv
<1> QED BY <1>5, <1>6, <1>7 DEF IInv

\* amx_Exec's checks between the two updates, of the stack and of the count,
\* cannot fail with parameters pending: each was pushed with a margin.
LEMMA PushCheckFacts ==
    ASSUME IInv, InCaller, Caller.status = "ready", EntryCheck(FALSE) = "PUSH"
    PROVE  amx.paramcount = 0
<1>1. amx.hea > amx.stk - 1
  BY DEF EntryCheck
<1> QED BY <1>1, CallerFacts, CallerBalance DEF Balance

LEMMA ExecKeepsIInv ==
    ASSUME IInv, NEW entry \in Publics \cup {MainEntry}, Exec(entry)
    PROVE  IInv'
<1> DEFINE check == EntryCheck(FALSE)
           early == check \in {"STACKLOW", "HEAPLOW"}
           reset == IF early THEN amx.stk ELSE amx.stk + amx.paramcount
           start == [cip |-> entry, frm |-> 0, hea |-> amx.hea, stk |-> amx.stk - 2,
                     reset_stk |-> reset, reset_hea |-> amx.hea]
           counted == IF check \in {"STACKLOW", "HEAPLOW", "PUSH"}
                      THEN amx ELSE [amx EXCEPT !.paramcount = 0]
           m == [a \in Addr |-> CASE a = amx.stk - 1 -> amx.paramcount
                                  [] a = amx.stk - 2 -> 0
                                  [] OTHER -> mem[a]]
           final == [counted EXCEPT !.stk = reset, !.frm = 0, !.cip = entry - 1]
<1>1. /\ InCaller /\ Caller.status = "ready" /\ UNCHANGED <<ctx, patched, saved>>
      /\ check = "NONE" => amx' = counted /\ act' = Append(act, start) /\ mem' = m
      /\ check # "NONE" => amx' = final /\ UNCHANGED <<act, mem>>
  BY DEF Exec
<1>2. /\ amx.stk \in Int /\ amx.hea \in Int /\ amx.paramcount \in Nat /\ entry \in Int
      /\ amx.stk + amx.paramcount = Caller.stk /\ amx.hea = Caller.hea
      /\ amx.paramcount > 0 => amx.hea + STKMARGIN - 1 <= amx.stk
      /\ amx \in AmxType /\ mem \in MemType /\ ctx \in Seq(CtxType) /\ Caller \in CtxType
  BY <1>1, CallerFacts, CallerBalance, CodeAssumption DEF Balance
<1>3. check = "PUSH" => amx.paramcount = 0
  BY <1>1, PushCheckFacts
<1>4. reset \in Int /\ amx.stk - 2 \in Int /\ (~early => reset = Caller.stk)
  <2>1. amx.stk + amx.paramcount \in Int /\ amx.stk - 2 \in Int
    BY <1>2
  <2> HIDE DEF check
  <2> QED BY <1>2, <2>1
<1>5. /\ counted \in AmxType
      /\ counted.hea = amx.hea /\ counted.stk = amx.stk
      /\ early => counted.paramcount = amx.paramcount
      /\ ~early => counted.paramcount = 0
  BY <1>2, <1>3 DEF AmxType
<1>6. CASE check = "NONE"
  <2>1. start \in RegsType /\ start.reset_stk = Caller.stk /\ start.reset_hea = Caller.hea
    <3> HIDE DEF check, reset
    <3>1. ~early
      BY <1>6
    <3> QED BY <1>2, <1>4, <3>1 DEF RegsType
  <2>2. m \in MemType
    BY <1>2 DEF MemType
  <2>3. amx' \in AmxType /\ amx'.paramcount = 0 /\ act' = Append(act, start) /\ mem' = m
    BY <1>1, <1>5, <1>6
  <2>4. ctx' = [ctx EXCEPT ![Len(ctx)] = Caller]
    BY <1>1, <1>2
  <2> HIDE DEF start, m, check
  <2> QED BY <1>1, <1>2, <2>1, <2>2, <2>3, <2>4, EnterKeepsIInv
<1>7. CASE check # "NONE"
  <2>1. /\ final \in AmxType /\ final.stk = reset /\ final.hea = amx.hea
        /\ final.paramcount = counted.paramcount
    <3> HIDE DEF counted, check, reset
    <3> DEFINE zero == 0
    <3>1. zero \in Int /\ reset \in Int /\ entry - 1 \in Int /\ counted \in AmxType
      BY <1>2, <1>4, <1>5
    <3>2. final = [counted EXCEPT !.stk = reset, !.frm = zero, !.cip = entry - 1]
      OBVIOUS
    <3> HIDE DEF zero
    <3>3. final \in AmxType
      BY <3>1, <3>2 DEF AmxType
    <3>4. final.stk = reset /\ final.hea = counted.hea /\ final.paramcount = counted.paramcount
      BY <3>1, <3>2 DEF AmxType
    <3> HIDE DEF final
    <3> QED BY <1>5, <3>3, <3>4
  <2>2. amx' = final /\ act' = act /\ mem' = mem /\ ctx' = ctx
    BY <1>1, <1>7
  <2> HIDE DEF final, counted
  <2>3. Balance(final, Caller)
    <3>1. CASE early
      BY <1>1, <1>2, <1>5, <2>1, <3>1 DEF Balance
    <3>2. CASE ~early
      BY <1>1, <1>2, <1>5, <2>1, <3>2 DEF Balance
    <3> QED BY <3>1, <3>2
  <2> HIDE DEF check
  <2> QED BY <1>1, <1>2, <2>1, <2>2, <2>3, SameCallerKeepsIInv
<1> QED BY <1>6, <1>7

LEMMA ContinueKeepsIInv ==
    ASSUME IInv, Continue
    PROVE  IInv'
<1> DEFINE c == [Caller EXCEPT !.status = "ready", !.slept = Awake]
           a == [amx EXCEPT !.stk = amx.reset_stk, !.hea = amx.reset_hea, !.cip = @ - 1]
<1>1. /\ InCaller /\ Caller.status = "asleep" /\ amx.paramcount = 0
      /\ UNCHANGED <<mem, patched, saved>>
      /\ ctx' = [ctx EXCEPT ![Len(ctx)] = c]
      /\ \/ act' = Append(act, ResumeRegs) /\ amx' = amx
         \/ amx' = a /\ act' = act
  BY DEF Continue
<1>2. c \in CtxType /\ c.stk = Caller.stk /\ c.hea = Caller.hea /\ c.status = "ready"
  <2>1. Caller \in CtxType
    BY <1>1, CallerFacts
  <2>2. \A x \in CtxType :
          LET y == [x EXCEPT !.status = "ready", !.slept = Awake]
          IN y \in CtxType /\ y.stk = x.stk /\ y.hea = x.hea /\ y.status = "ready"
    BY AwakeType DEF CtxType
  <2> QED BY <2>1, <2>2
<1> HIDE DEF c
<1>3. amx.reset_stk = Caller.stk /\ amx.reset_hea = Caller.hea
  BY <1>1, CallerBalance DEF Balance, SleepOk
<1>4. CASE act' = Append(act, ResumeRegs) /\ amx' = amx
  <2>1. /\ ResumeRegs \in RegsType
        /\ ResumeRegs.reset_stk = Caller.stk /\ ResumeRegs.reset_hea = Caller.hea
    BY <1>1, <1>3, CallerFacts DEF ResumeRegs, RegsType, AmxType
  <2> QED BY <1>1, <1>2, <1>4, <2>1, CallerFacts, EnterKeepsIInv
<1>5. CASE amx' = a /\ act' = act
  <2>1. a \in AmxType /\ a.stk = Caller.stk /\ a.hea = Caller.hea /\ a.paramcount = 0
    <3>1. amx.cip - 1 \in Int
      BY <1>1, CallerFacts DEF AmxType
    <3> QED BY <1>1, <1>3, <3>1, CallerFacts DEF AmxType
  <2>2. Caller.stk \in Int
    BY <1>1, CallerFacts DEF CtxType
  <2> HIDE DEF a
  <2>3. Balance(a, c)
    BY <1>2, <2>1, <2>2 DEF Balance
  <2> QED BY <1>1, <1>2, <1>5, <2>1, <2>3, CallerFacts, CallerKeepsIInv
<1> QED BY <1>1, <1>4, <1>5

\* The copy starts balanced; dropping it gives the sleeper back.
LEMMA HostCopyKeepsIInv ==
    ASSUME IInv, HostCopy \/ HostDrop
    PROVE  IInv'
<1>1. act = <<>> /\ InCaller /\ UNCHANGED <<act, mem, patched>>
  <2>1. act = <<>> /\ UNCHANGED <<act, mem, patched>>
    BY DEF HostCopy, HostDrop
  <2>2. Len(ctx) >= 1 /\ (Len(ctx) = 0 \/ Len(ctx) = 1)
    BY <2>1 DEF IInv, Shape
  <2> QED BY <2>1, <2>2
<1>2. amx \in AmxType /\ mem \in MemType /\ Caller \in CtxType
  BY <1>1, CallerFacts
<1>3. ASSUME NEW c \in CtxType, ctx' = <<c>>
      PROVE  /\ ctx' \in Seq(CtxType) /\ Shape' /\ NativesInv' /\ ResetsMatch' /\ RunInv'
             /\ InCaller' /\ Caller' = c
  BY <1>1, <1>3 DEF Shape, NativesInv, ResetsMatch, RunInv
<1>4. CASE HostCopy
  <2> DEFINE c == NewCaller(amx.stk, amx.hea, mem, TRUE, Caller.heard)
             s == [amx |-> amx, ctx |-> Caller, mem |-> mem]
  <2>1. amx' = amx /\ saved' = <<s>> /\ ctx' = <<c>> /\ Caller.status = "asleep"
    BY <1>4 DEF HostCopy
  <2>2. c \in CtxType /\ c.stk = amx.stk /\ c.hea = amx.hea /\ c.status = "ready"
    BY <1>2, AwakeType DEF NewCaller, CtxType, AmxType, Errors
  <2>3. s \in [amx : AmxType, ctx : CtxType, mem : MemType]
    BY <1>2
  <2>4. SleepOk(amx, Caller)
    BY <1>1, <2>1, CallerBalance DEF Balance
  <2>5. saved'[1] = s
    BY <2>1
  <2>6. SavedInv'
    BY <2>1, <2>4, <2>5 DEF SavedInv
  <2> HIDE DEF c, s
  <2>7. TypeOK'
    BY <1>1, <1>3, <2>1, <2>2, <2>3 DEF IInv, TypeOK
  <2>8. amx.stk \in Int /\ amx.paramcount = 0
    BY <1>2, <2>4 DEF AmxType, SleepOk
  <2>9. ReadyInv' /\ AsleepInv'
    BY <1>3, <2>1, <2>2, <2>8 DEF ReadyInv, AsleepInv
  <2> QED BY <1>3, <2>1, <2>2, <2>6, <2>7, <2>9 DEF IInv
<1>5. CASE HostDrop
  <2>1. saved # <<>> /\ amx' = saved[1].amx /\ ctx' = <<saved[1].ctx>> /\ saved' = <<>>
    BY <1>5 DEF HostDrop
  <2>2. saved[1] \in [amx : AmxType, ctx : CtxType, mem : MemType]
    <3> DEFINE S == [amx : AmxType, ctx : CtxType, mem : MemType]
    <3>1. saved \in Seq(S)
      BY DEF IInv, TypeOK
    <3> HIDE DEF S
    <3>2. 1 \in 1 .. Len(saved)
      BY <2>1, <3>1
    <3>3. saved[1] \in S
      BY <3>1, <3>2, ElementOfSeq
    <3> QED BY <3>3 DEF S
  <2>3. saved[1].ctx.status = "asleep" /\ SleepOk(saved[1].amx, saved[1].ctx)
    BY <2>1 DEF IInv, SavedInv
  <2>4. saved[1].ctx \in CtxType /\ saved[1].amx \in AmxType
    BY <2>2
  <2>5. TypeOK' /\ SavedInv'
    BY <1>1, <1>3, <2>1, <2>4 DEF IInv, TypeOK, SavedInv
  <2>6. ReadyInv' /\ AsleepInv'
    BY <1>3, <2>1, <2>3, <2>4 DEF ReadyInv, AsleepInv
  <2> QED BY <1>3, <2>1, <2>4, <2>5, <2>6 DEF IInv
<1> QED BY <1>4, <1>5

LEMMA SysreqKeepsIInv ==
    ASSUME IInv, Sysreq
    PROVE  IInv'
<1> DEFINE r == IF Instr.op = "SYSREQ_N" THEN [Regs EXCEPT !.stk = @ - 1] ELSE Regs
           n == Len(act)
           c == NewCaller(r.stk, r.hea, mem', Regs.cip \notin patched, {})
<1>1. Running /\ Instr.n \in Int /\ Regs.cip \in DOMAIN Code
  BY InstrType DEF Sysreq, At
<1>2. /\ Regs \in TopRegs /\ mem \in MemType /\ amx.paramcount = 0 /\ amx \in AmxType
      /\ act # <<>> /\ patched \subseteq DOMAIN Code
  BY <1>1, RunningFacts
<1>3. r \in TopRegs
  <2>1. Regs.stk - 1 \in Int
    BY <1>2, TopRegsInt
  <2> QED BY <1>2, <2>1, TopRegsSet
<1>4. UNCHANGED saved /\ patched' \subseteq DOMAIN Code
  BY <1>1, <1>2 DEF Sysreq
<1>5. \/ /\ amx' = [SaveRegs(r) EXCEPT !.error = IF Regs.cip \in patched THEN @ ELSE "NONE"]
         /\ act' = [act EXCEPT ![n] = r]
         /\ mem' = IF Instr.op = "SYSREQ_N" THEN Store(r.stk, Instr.n) ELSE mem
         /\ ctx' = Append(ctx, c)
      \/ AbortExec(r) /\ mem' = mem
  BY DEF Sysreq
<1> HIDE DEF r
<1>6. CASE AbortExec(r) /\ mem' = mem
  BY <1>2, <1>3, <1>4, <1>6, AbortKeepsIInv
<1>7. CASE /\ amx' = [SaveRegs(r) EXCEPT !.error = IF Regs.cip \in patched THEN @ ELSE "NONE"]
           /\ act' = [act EXCEPT ![n] = r]
           /\ mem' = IF Instr.op = "SYSREQ_N" THEN Store(r.stk, Instr.n) ELSE mem
           /\ ctx' = Append(ctx, c)
  <2>1. /\ amx' \in AmxType /\ amx'.paramcount = 0 /\ amx'.stk = r.stk /\ amx'.hea = r.hea
    <3>1. r.stk \in Int /\ r.hea \in Int /\ r.frm \in Int /\ r.cip \in Int
      BY <1>3, TopRegsInt
    <3>2. /\ SaveRegs(r) \in AmxType /\ SaveRegs(r).paramcount = 0
          /\ SaveRegs(r).stk = r.stk /\ SaveRegs(r).hea = r.hea
      BY <1>2, <3>1 DEF SaveRegs, AmxType
    <3>3. \A x \in AmxType : \A b \in BOOLEAN :
            LET y == [x EXCEPT !.error = IF b THEN @ ELSE "NONE"]
            IN y \in AmxType /\ y.paramcount = x.paramcount /\ y.stk = x.stk /\ y.hea = x.hea
      BY DEF AmxType, Errors
    <3>4. (Regs.cip \in patched) \in BOOLEAN
      OBVIOUS
    <3> QED BY <1>7, <3>2, <3>3, <3>4
  <2>2. mem' \in MemType
    BY <1>1, <1>2, <1>7, StoreType
  <2>3. c \in CtxType /\ c.stk = r.stk /\ c.hea = r.hea /\ c.status = "ready"
    BY <1>3, <2>2, TopRegsInt, AwakeType DEF NewCaller, CtxType, Errors
  <2> HIDE DEF c
  <2>4. n \in Nat /\ n >= 1 /\ Len(ctx) = n /\ act \in Seq(RegsType) /\ ctx \in Seq(CtxType)
        /\ r \in RegsType
    BY <1>1, <1>3 DEF IInv, TypeOK, TopRegs
  <2>5. /\ act' \in Seq(RegsType) /\ Len(act') = n
        /\ \A k \in 1 .. n : act'[k] = IF k = n THEN r ELSE act[k]
    BY <1>7, <2>4, ExceptSeq
  <2>6. /\ ctx' \in Seq(CtxType) /\ Len(ctx') = n + 1 /\ ctx'[n + 1] = c
        /\ \A k \in 1 .. n : ctx'[k] = ctx[k]
    BY <1>7, <2>3, <2>4, AppendProperties
  <2>7. InCaller' /\ Caller' = c
    BY <2>5, <2>6
  <2>8. TypeOK' /\ Shape' /\ SavedInv' /\ RunInv'
    BY <1>4, <2>1, <2>2, <2>4, <2>5, <2>6, <2>7 DEF IInv, TypeOK, Shape, SavedInv, RunInv
  <2>9. ResetsMatch'
    <3>1. \A k \in 1 .. n : act[k].reset_stk = ctx[k].stk /\ act[k].reset_hea = ctx[k].hea
      BY DEF IInv, ResetsMatch
    <3>2. r.reset_stk = act[n].reset_stk /\ r.reset_hea = act[n].reset_hea
      BY <1>3 DEF TopRegs, Regs
    <3> HIDE DEF n
    <3> QED BY <2>4, <2>5, <2>6, <3>1, <3>2 DEF ResetsMatch
  <2>10. ReadyInv' /\ AsleepInv'
    <3>1. r.stk \in Int
      BY <1>3, TopRegsInt
    <3> QED BY <2>1, <2>3, <2>7, <3>1 DEF ReadyInv, AsleepInv
  <2>11. NativesInv'
    <3>1. r.cip = Regs.cip
      BY <1>2 DEF r, TopRegs, RegsType
    <3> HIDE DEF n
    <3> QED BY SMTT(30), <1>1, <2>4, <2>5, <2>6, <3>1 DEF IInv, NativesInv
  <2> QED BY <2>8, <2>9, <2>10, <2>11 DEF IInv
<1> QED BY <1>5, <1>6, <1>7

LEMMA NativeReturnKeepsIInv ==
    ASSUME IInv, NativeReturn, ~BadIndex, ~HugeAllots
    PROVE  IInv'
<1> DEFINE r == IF Instr.op = "SYSREQ_N" THEN [Regs EXCEPT !.stk = @ + Instr.n + 1] ELSE Regs
           n == Len(act)
<1>1. /\ InCaller /\ act # <<>> /\ amx.paramcount = 0 /\ UNCHANGED <<mem, patched, saved>>
  BY DEF NativeReturn
<1>2. \/ /\ act' = [act EXCEPT ![n] = Next1(r)] /\ ctx' = SubSeq(ctx, 1, n) /\ amx' = amx
      \/ SleepExec(r, amx)
      \/ AbortExec(r)
  BY DEF NativeReturn
<1>3. Regs \in TopRegs /\ amx \in AmxType /\ mem \in MemType /\ patched \subseteq DOMAIN Code
      /\ act \in Seq(RegsType) /\ ctx \in Seq(CtxType) /\ n \in Nat /\ n >= 1 /\ Len(ctx) = n + 1
  BY <1>1 DEF IInv, TypeOK, TopRegs, Regs
<1>4. r \in TopRegs
  <2>1. Regs.cip \in DOMAIN Code
    BY <1>3 DEF IInv, NativesInv, Regs
  <2>2. Instr.n \in Int /\ Regs.stk \in Int
    BY <1>3, <2>1, CodeAssumption, TopRegsInt DEF Instr
  <2>3. Regs.stk + Instr.n + 1 \in Int
    BY <2>2
  <2> QED BY <1>3, <2>3, TopRegsSet
<1> HIDE DEF r
<1>5. CASE SleepExec(r, amx)
  BY <1>1, <1>3, <1>4, <1>5, SleepKeepsIInv
<1>6. CASE AbortExec(r)
  BY <1>1, <1>3, <1>4, <1>6, AbortKeepsIInv
<1>7. CASE act' = [act EXCEPT ![n] = Next1(r)] /\ ctx' = SubSeq(ctx, 1, n) /\ amx' = amx
  <2>1. Next1(r) \in RegsType /\ Next1(r).reset_stk = Regs.reset_stk
        /\ Next1(r).reset_hea = Regs.reset_hea
    BY <1>4, TopRegsNext DEF TopRegs
  <2>2. /\ ctx' \in Seq(CtxType) /\ Len(ctx') = n /\ \A k \in 1 .. n : ctx'[k] = ctx[k]
    <3> HIDE DEF n
    <3> QED BY <1>3, <1>7, PrefixSeq
  <2>3. /\ act' \in Seq(RegsType) /\ Len(act') = n
        /\ \A k \in 1 .. n : act'[k] = IF k = n THEN Next1(r) ELSE act[k]
    BY <1>3, <1>7, <2>1, ExceptSeq
  <2>4. ~InCaller'
    BY <1>3, <2>2, <2>3
  <2>5. TypeOK' /\ Shape' /\ SavedInv' /\ RunInv' /\ ReadyInv' /\ AsleepInv'
    BY <1>1, <1>3, <1>7, <2>2, <2>3, <2>4
       DEF IInv, TypeOK, Shape, SavedInv, RunInv, ReadyInv, AsleepInv
  <2>6. ResetsMatch'
    <3>1. \A k \in 1 .. n : act[k].reset_stk = ctx[k].stk /\ act[k].reset_hea = ctx[k].hea
      BY DEF IInv, ResetsMatch
    <3>2. Regs = act[n]
      BY DEF Regs
    <3> HIDE DEF n
    <3> QED BY <1>3, <2>1, <2>2, <2>3, <3>1, <3>2 DEF ResetsMatch
  <2>7. NativesInv'
    <3> HIDE DEF n
    <3> QED BY <1>3, <2>2, <2>3 DEF IInv, NativesInv
  <2> QED BY <2>5, <2>6, <2>7 DEF IInv
<1> QED BY <1>2, <1>5, <1>6, <1>7

-----------------------------------------------------------------------------
\* Natives that never leave parameters behind after a failed amx_Exec keep IInv.
THEOREM InductiveInvariant ==
    ASSUME ~BadIndex, ~HugeAllots
    PROVE  Spec => []IInv
<1>1. Init => IInv
  BY InitIInv
<1>2. IInv /\ [Next]_vars => IInv'
  <2> SUFFICES ASSUME IInv, [Next]_vars PROVE IInv'
    OBVIOUS
  <2>1. CASE HostApi
    BY <2>1, PushKeepsIInv, AllotKeepsIInv, ReleaseKeepsIInv, ExecKeepsIInv,
       ContinueKeepsIInv, HostCopyKeepsIInv DEF HostApi
  <2>2. CASE Interpret
    BY <2>2, InterpretKeepsIInv
  <2>3. CASE Native
    BY <2>3, SysreqKeepsIInv, RaiseErrorKeepsIInv, NativeReturnKeepsIInv DEF Native
  <2>4. CASE UNCHANGED vars
    BY <2>4 DEF vars, IInv, TypeOK, Shape, NativesInv, ResetsMatch, ReadyInv, AsleepInv, SavedInv,
                SleepOk, RunInv
  <2> QED BY <2>1, <2>2, <2>3, <2>4 DEF Next
<1> QED BY <1>1, <1>2, PTL DEF Spec

\* Type correctness of the machine, for every program.
THEOREM TypeCorrect ==
    ASSUME ~BadIndex, ~HugeAllots
    PROVE  Spec => []TypeOK
<1>1. IInv => TypeOK
  BY DEF IInv
<1> QED BY <1>1, InductiveInvariant, PTL

\* Every caller of amx_Exec, the host or a native at any depth, finds STK and
\* HEA as abort_exec promises, whatever the program is and however it ended.
THEOREM Balanced ==
    ASSUME ~BadIndex, ~HugeAllots
    PROVE  Spec => []CallerBalanced
<1>1. IInv => CallerBalanced
  BY DEF IInv, ReadyInv, CallerBalanced
<1> QED BY <1>1, InductiveInvariant, PTL

-----------------------------------------------------------------------------
(***************************************************************************)
(* What programs that run on top of one another may rely on, for every     *)
(* bytecode program: a sleeping machine keeps its place, the programs      *)
(* underneath keep their memory, a native's error is its own.  All of it   *)
(* rests on the inductive invariant above.                                 *)
(***************************************************************************)
\* The callers after an activation has ended: the one underneath is marked.
LEMMA LeaveFacts ==
    ASSUME IInv, act # <<>>, NEW st \in {"ready", "asleep"}, NEW sl \in SleptType,
           act' = SubSeq(act, 1, Len(act) - 1),
           ctx' = SetCaller(SubSeq(ctx, 1, Len(act)), st, sl)
    PROVE  /\ Len(act) \in Nat /\ Len(act) >= 1 /\ Len(ctx') = Len(act)
           /\ Len(act') = Len(act) - 1
           /\ \A k \in 1 .. Len(act) - 1 : ctx'[k] = ctx[k]
           /\ ctx'[Len(act)] = Marked(ctx[Len(act)], st, sl)
           /\ ctx[Len(act)] \in CtxType /\ Regs.reset_stk = ctx[Len(act)].stk
           /\ Regs.reset_stk \in Int
<1> DEFINE n == Len(act)
<1>1. n \in Nat /\ n >= 1 /\ n <= Len(ctx) /\ act[n] \in RegsType /\ ctx[n] \in CtxType
      /\ act \in Seq(RegsType) /\ ctx \in Seq(CtxType)
  BY DEF IInv, TypeOK, Shape
<1>2. Regs.reset_stk = ctx[n].stk /\ Regs.reset_stk \in Int
  BY SMTT(30), <1>1 DEF IInv, ResetsMatch, Regs, RegsType
<1>3. Len(act') = n - 1
  <2> HIDE DEF n
  <2>1. n - 1 \in 0 .. Len(act) /\ act' = SubSeq(act, 1, n - 1)
    BY <1>1 DEF n
  <2> QED BY <1>1, <2>1, PrefixSeq
<1>4. /\ Len(ctx') = n /\ \A k \in 1 .. n - 1 : ctx'[k] = ctx[k]
      /\ ctx'[n] = Marked(ctx[n], st, sl)
  <2> DEFINE s == SubSeq(ctx, 1, n)
             c == Marked(ctx[n], st, sl)
  <2>1. s \in Seq(CtxType) /\ Len(s) = n /\ \A k \in 1 .. n : s[k] = ctx[k]
    BY <1>1, PrefixSeq
  <2>2. c \in CtxType
    BY <1>1, MarkedCaller
  <2>3. ctx' = [s EXCEPT ![n] = c]
    BY <1>1, <2>1 DEF SetCaller
  <2> HIDE DEF s, c, n
  <2>4. /\ Len(ctx') = Len(s) /\ \A k \in 1 .. n : ctx'[k] = IF k = n THEN c ELSE s[k]
    BY SMTT(30), <1>1, <2>1, <2>2, <2>3, ExceptSeq
  <2>5. ctx'[n] = c /\ \A k \in 1 .. n - 1 : ctx'[k] = ctx[k]
    BY <1>1, <2>1, <2>4
  <2> QED BY <2>1, <2>4, <2>5 DEF c
<1> QED BY <1>1, <1>2, <1>3, <1>4

\* The callers that are left have the stack and the memory they had, and the
\* last of them hears of the error.
LeavesCallers ==
    /\ Len(ctx') = Len(act)
    /\ \A k \in 1 .. Len(act) : /\ ctx'[k].stk = ctx[k].stk /\ ctx'[k].mem = ctx[k].mem
                                 /\ ctx'[k].cleared = ctx[k].cleared
                                 /\ ctx[k].heard \subseteq ctx'[k].heard
    /\ HandedOn \subseteq ctx'[Len(act)].heard

\* How a sleep ends an activation, and how everything else does.
LEMMA EndFacts ==
    ASSUME IInv, act # <<>>, NEW r \in TopRegs
    PROVE  /\ AbortExec(r) => /\ InCaller' /\ Caller'.status = "ready"
                              /\ amx'.stk = ctx[Len(act)].stk
                              /\ amx'.error = amx.error /\ LeavesCallers
                              /\ Len(act') = Len(act) - 1
           /\ \A a : SleepExec(r, a) => /\ InCaller' /\ Caller'.status = "asleep"
                                        /\ LeavesCallers /\ Len(act') = Len(act) - 1
                                        /\ Caller'.slept = SleepPoint(r)
                                        /\ a \in AmxType => amx'.stk = a.stk /\ amx'.hea = a.hea
                                             /\ amx'.cip = a.cip /\ amx'.error = a.error
<1>1. ASSUME AbortExec(r)
      PROVE /\ InCaller' /\ Caller'.status = "ready" /\ amx'.stk = ctx[Len(act)].stk
            /\ amx'.error = amx.error /\ LeavesCallers /\ Len(act') = Len(act) - 1
  <2>1. /\ act' = SubSeq(act, 1, Len(act) - 1)
        /\ ctx' = SetCaller(SubSeq(ctx, 1, Len(act)), "ready", Awake)
    BY <1>1 DEF AbortExec
  <2>2. /\ Len(act) \in Nat /\ Len(act) >= 1 /\ Len(ctx') = Len(act) /\ Len(act') = Len(act) - 1
        /\ ctx'[Len(act)] = Marked(ctx[Len(act)], "ready", Awake)
        /\ \A k \in 1 .. Len(act) - 1 : ctx'[k] = ctx[k]
        /\ ctx[Len(act)] \in CtxType /\ Regs.reset_stk = ctx[Len(act)].stk
    BY <2>1, AwakeType, LeaveFacts
  <2>3. /\ ctx'[Len(act)].status = "ready" /\ ctx'[Len(act)].stk = ctx[Len(act)].stk
        /\ ctx'[Len(act)].mem = ctx[Len(act)].mem
        /\ ctx'[Len(act)].cleared = ctx[Len(act)].cleared
        /\ ctx'[Len(act)].heard = ctx[Len(act)].heard \cup HandedOn
    BY <2>2, AwakeType, MarkedCaller
  <2>4. amx'.stk = r.reset_stk /\ r.reset_stk = Regs.reset_stk /\ amx'.error = amx.error
    BY <1>1 DEF AbortExec, TopRegs, IInv, TypeOK, AmxType
  <2>5. LeavesCallers
    <3> SUFFICES ASSUME NEW k \in 1 .. Len(act)
                 PROVE  /\ ctx'[k].stk = ctx[k].stk /\ ctx'[k].mem = ctx[k].mem
                        /\ ctx'[k].cleared = ctx[k].cleared
                        /\ ctx[k].heard \subseteq ctx'[k].heard
      BY <2>2, <2>3 DEF LeavesCallers
    <3>1. k \in 1 .. Len(act) - 1 \/ k = Len(act)
      BY <2>2
    <3> QED BY <2>2, <2>3, <3>1
  <2> QED BY <2>2, <2>3, <2>4, <2>5
<1>2. ASSUME NEW a, SleepExec(r, a)
      PROVE /\ InCaller' /\ Caller'.status = "asleep" /\ Caller'.slept = SleepPoint(r)
            /\ LeavesCallers /\ Len(act') = Len(act) - 1
            /\ a \in AmxType => amx'.stk = a.stk /\ amx'.hea = a.hea
                 /\ amx'.cip = a.cip /\ amx'.error = a.error
  <2>1. /\ act' = SubSeq(act, 1, Len(act) - 1)
        /\ ctx' = SetCaller(SubSeq(ctx, 1, Len(act)), "asleep", SleepPoint(r))
    BY <1>2 DEF SleepExec
  <2>2. SleepPoint(r) \in SleptType
    BY DEF SleepPoint, SleptType, RegsType, TopRegs
  <2>3. /\ Len(act) \in Nat /\ Len(act) >= 1 /\ Len(ctx') = Len(act) /\ Len(act') = Len(act) - 1
        /\ ctx'[Len(act)] = Marked(ctx[Len(act)], "asleep", SleepPoint(r))
        /\ \A k \in 1 .. Len(act) - 1 : ctx'[k] = ctx[k]
        /\ ctx[Len(act)] \in CtxType
    BY <2>1, <2>2, LeaveFacts
  <2>4. /\ ctx'[Len(act)].status = "asleep" /\ ctx'[Len(act)].slept = SleepPoint(r)
        /\ ctx'[Len(act)].stk = ctx[Len(act)].stk /\ ctx'[Len(act)].mem = ctx[Len(act)].mem
        /\ ctx'[Len(act)].cleared = ctx[Len(act)].cleared
        /\ ctx'[Len(act)].heard = ctx[Len(act)].heard \cup HandedOn
    BY <2>2, <2>3, MarkedCaller
  <2>5. a \in AmxType => amx'.stk = a.stk /\ amx'.hea = a.hea /\ amx'.cip = a.cip
                          /\ amx'.error = a.error
    BY <1>2 DEF SleepExec, AmxType
  <2>6. LeavesCallers
    <3> SUFFICES ASSUME NEW k \in 1 .. Len(act)
                 PROVE  /\ ctx'[k].stk = ctx[k].stk /\ ctx'[k].mem = ctx[k].mem
                        /\ ctx'[k].cleared = ctx[k].cleared
                        /\ ctx[k].heard \subseteq ctx'[k].heard
      BY <2>3, <2>4 DEF LeavesCallers
    <3>1. k \in 1 .. Len(act) - 1 \/ k = Len(act)
      BY <2>3
    <3> QED BY <2>3, <2>4, <3>1
  <2> QED BY <2>3, <2>4, <2>5, <2>6
<1> QED BY <1>1, <1>2

-----------------------------------------------------------------------------
(* The steps of a caller in control.                                       *)

\* The callers are the same ones; what they allotted may differ, and what they
\* heard may grow.
SameCallers ==
    /\ Len(ctx') = Len(ctx)
    /\ \A k \in 1 .. Len(ctx) : /\ ctx'[k].stk = ctx[k].stk /\ ctx'[k].mem = ctx[k].mem
                                 /\ ctx'[k].status = ctx[k].status
                                 /\ ctx'[k].slept = ctx[k].slept
                                 /\ ctx'[k].cleared = ctx[k].cleared
                                 /\ ctx[k].heard \subseteq ctx'[k].heard

LEMMA SameCallersFacts ==
    ASSUME IInv, InCaller, NEW c \in CtxType, ctx' = [ctx EXCEPT ![Len(ctx)] = c],
           c.stk = Caller.stk, c.mem = Caller.mem, c.status = Caller.status,
           c.slept = Caller.slept, c.cleared = Caller.cleared, Caller.heard \subseteq c.heard
    PROVE  SameCallers /\ ctx'[Len(ctx)] = c
<1>1. ctx \in Seq(CtxType) /\ Len(ctx) \in Nat /\ Len(ctx) >= 1
  BY DEF IInv, TypeOK, Shape
<1>2. /\ Len(ctx') = Len(ctx)
      /\ \A k \in 1 .. Len(ctx) : ctx'[k] = IF k = Len(ctx) THEN c ELSE ctx[k]
  BY <1>1, ExceptSeq
<1> QED BY <1>1, <1>2 DEF SameCallers

ApiCall ==
    \/ Push
    \/ \E cells \in AllotSizes : Allot(cells) \/ PushArray(cells)
    \/ \E addr \in Addr : Release(addr)
    \/ \E entry \in Publics \cup {MainEntry} : Exec(entry)

\* Everything a ready caller can do stores below the stack pointer it has, and
\* leaves it in control or starts a program.
LEMMA ApiSteps ==
    ASSUME IInv, ApiCall
    PROVE  /\ InCaller /\ Caller.status = "ready" /\ SameCallers
           /\ UNCHANGED <<patched, saved>> /\ KeptFrom(amx.stk) /\ amx'.error = amx.error
           /\ act' = act \/ ~InCaller'
<1>1. InCaller /\ Caller.status = "ready" /\ UNCHANGED <<patched, saved>>
  BY DEF ApiCall, Push, Allot, PushArray, Release, Exec
<1>2. Caller \in CtxType /\ amx \in AmxType /\ mem \in MemType /\ amx.stk \in Int
      /\ ctx \in Seq(CtxType) /\ Len(act) \in Nat
  BY <1>1, CallerFacts
<1>3. ASSUME UNCHANGED ctx PROVE SameCallers
  BY <1>3 DEF SameCallers
<1>4. ASSUME UNCHANGED mem PROVE KeptFrom(amx.stk)
  BY <1>4 DEF KeptFrom
<1>5. ASSUME NEW v, mem' = Store(amx.stk - 1, v) PROVE KeptFrom(amx.stk)
  <2>1. amx.stk - 1 \in Int /\ amx.stk - 1 + 1 = amx.stk
    BY <1>2
  <2>2. KeptFrom(amx.stk - 1 + 1)
    BY <1>2, <1>5, <2>1, StoreKeeps
  <2> QED BY <2>1, <2>2
<1>6. ASSUME NEW h \in Int, ctx' = [ctx EXCEPT ![Len(ctx)] = [Caller EXCEPT !.hea = h]]
      PROVE SameCallers
  <2> DEFINE c == [Caller EXCEPT !.hea = h]
  <2>1. c \in CtxType /\ c.stk = Caller.stk /\ c.mem = Caller.mem /\ c.status = Caller.status
        /\ c.slept = Caller.slept /\ c.cleared = Caller.cleared /\ c.heard = Caller.heard
    BY <1>2 DEF CtxType
  <2>2. ctx' = [ctx EXCEPT ![Len(ctx)] = c]
    BY <1>6
  <2> HIDE DEF c
  <2> QED BY <1>1, <2>1, <2>2, SameCallersFacts DEF SameCallers
<1>7. CASE Push
  <2>1. amx'.error = amx.error
    BY <1>2, <1>7 DEF Push, AmxType
  <2> QED BY <1>1, <1>3, <1>5, <1>7, <2>1 DEF Push
<1>8. ASSUME NEW cells \in AllotSizes, Allot(cells) \/ PushArray(cells)
      PROVE  SameCallers /\ KeptFrom(amx.stk) /\ amx'.error = amx.error /\ act' = act
  <2>1. amx'.error = amx.error /\ act' = act
    BY <1>2, <1>8 DEF Allot, PushArray, AmxType
  <2>2. Caller.hea + cells \in Int
    BY <1>2, CallerAssumption DEF CtxType
  <2>3. ctx' = [ctx EXCEPT ![Len(ctx)] = [Caller EXCEPT !.hea = Caller.hea + cells]]
    BY <1>8 DEF Allot, PushArray
  <2>4. mem' = mem \/ mem' = Store(amx.stk - 1, amx.hea)
    BY <1>8 DEF Allot, PushArray
  <2> QED BY <1>4, <1>5, <1>6, <2>1, <2>2, <2>3, <2>4
<1>9. ASSUME NEW addr \in Addr, Release(addr)
      PROVE  SameCallers /\ KeptFrom(amx.stk) /\ amx'.error = amx.error /\ act' = act
  <2>1. amx'.error = amx.error /\ act' = act /\ mem' = mem
        /\ ctx' = [ctx EXCEPT ![Len(ctx)] = [Caller EXCEPT !.hea = addr]]
    BY <1>2, <1>9 DEF Release, AmxType
  <2>2. addr \in Int
    BY MachineAssumption DEF Addr
  <2> QED BY <1>4, <1>6, <2>1, <2>2
<1>10. ASSUME NEW entry \in Publics \cup {MainEntry}, Exec(entry)
       PROVE  SameCallers /\ KeptFrom(amx.stk) /\ amx'.error = amx.error
              /\ (act' = act \/ ~InCaller')
  <2>1. ctx' = ctx /\ Len(act) < MaxDepth
    BY <1>10 DEF Exec
  <2>2. amx'.error = amx.error
    BY <1>2, <1>10 DEF Exec, AmxType
  <2>3. \/ act' = act /\ mem' = mem
        \/ /\ \E r : act' = Append(act, r)
           /\ mem' = [a \in Addr |-> CASE a = amx.stk - 1 -> amx.paramcount
                                        [] a = amx.stk - 2 -> 0
                                        [] OTHER -> mem[a]]
    BY <1>10 DEF Exec
  <2>4. KeptFrom(amx.stk)
    <3>1. ASSUME NEW a \in Addr, a >= amx.stk PROVE a # amx.stk - 1 /\ a # amx.stk - 2
      BY <1>2, <3>1, MachineAssumption DEF Addr
    <3> QED BY <1>4, <2>3, <3>1 DEF KeptFrom
  <2>5. act' = act \/ ~InCaller'
    <3>1. ASSUME NEW r, act' = Append(act, r) PROVE Len(act') = Len(act) + 1
      BY <1>1, <3>1, CallerFacts
    <3> QED BY <1>1, <1>2, <2>1, <2>3, <3>1
  <2> QED BY <1>3, <2>1, <2>2, <2>4, <2>5
<1> QED BY <1>1, <1>7, <1>8, <1>9, <1>10 DEF ApiCall

\* amx_RaiseError changes the error only.
LEMMA RaiseSteps ==
    ASSUME IInv, NEW e \in NativeErrors, RaiseError(e)
    PROVE  /\ InCaller /\ act # <<>> /\ SameCallers /\ UNCHANGED <<act, mem, patched, saved>>
           /\ amx'.stk = amx.stk /\ amx'.hea = amx.hea /\ amx'.cip = amx.cip /\ amx'.error = e
           /\ e \in Caller'.heard
<1> DEFINE c == [Caller EXCEPT !.heard = @ \cup {e}]
<1>1. InCaller /\ act # <<>> /\ UNCHANGED <<act, mem, patched, saved>>
      /\ ctx' = [ctx EXCEPT ![Len(ctx)] = c] /\ e \in Errors
  BY CallerAssumption DEF RaiseError
<1>2. Caller \in CtxType /\ amx \in AmxType
  BY <1>1, CallerFacts
<1>3. /\ amx'.stk = amx.stk /\ amx'.hea = amx.hea /\ amx'.cip = amx.cip /\ amx'.error = e
  BY <1>2 DEF RaiseError, AmxType
<1>4. /\ c \in CtxType /\ c.stk = Caller.stk /\ c.mem = Caller.mem
      /\ c.status = Caller.status /\ c.slept = Caller.slept
      /\ c.cleared = Caller.cleared /\ c.heard = Caller.heard \cup {e}
  <2>1. Caller.heard \cup {e} \in SUBSET Errors
    BY <1>1, <1>2 DEF CtxType
  <2> QED BY <1>2, <2>1 DEF CtxType
<1> HIDE DEF c
<1>5. SameCallers /\ ctx'[Len(ctx)] = c
  BY <1>1, <1>4, SameCallersFacts
<1> QED BY <1>1, <1>3, <1>4, <1>5 DEF SameCallers

\* A native function is entered with a caller of its own on top, or not at all.
LEMMA SysreqSteps ==
    ASSUME IInv, Sysreq
    PROVE  /\ Running /\ UNCHANGED saved /\ KeptFrom(Regs.stk)
           /\ \/ /\ Len(ctx') = Len(ctx) + 1 /\ \A k \in 1 .. Len(ctx) : ctx'[k] = ctx[k]
                 /\ InCaller' /\ Caller'.status = "ready" /\ Caller'.mem = mem'
                 /\ (Caller'.cleared <=> Regs.cip \notin patched)
                 /\ amx'.stk = Caller'.stk /\ Caller'.stk <= Regs.stk /\ Caller'.stk \in Int
                 /\ amx'.error = (IF Regs.cip \in patched THEN amx.error ELSE "NONE")
              \/ \E r \in TopRegs : AbortExec(r)
<1> DEFINE r == IF Instr.op = "SYSREQ_N" THEN [Regs EXCEPT !.stk = @ - 1] ELSE Regs
           n == Len(act)
           c == NewCaller(r.stk, r.hea, mem', Regs.cip \notin patched, {})
<1>1. Running /\ Instr.n \in Int
  BY InstrType DEF Sysreq
<1>2. /\ Regs \in TopRegs /\ mem \in MemType /\ amx \in AmxType /\ Regs.stk \in Int
      /\ n \in Nat /\ n >= 1 /\ Len(ctx) = n /\ act \in Seq(RegsType) /\ ctx \in Seq(CtxType)
  BY <1>1, RunningFacts, TopRegsInt DEF IInv, TypeOK
<1>3. /\ r \in TopRegs /\ r.stk \in Int /\ r.stk <= Regs.stk
      /\ Instr.op = "SYSREQ_N" => r.stk + 1 = Regs.stk
  <2>1. Regs.stk - 1 \in Int
    BY <1>2
  <2>2. Instr.op = "SYSREQ_N" => r.stk = Regs.stk - 1
    BY <1>2 DEF TopRegs, RegsType
  <2>3. r \in TopRegs
    BY <1>2, <2>1, TopRegsSet
  <2> QED BY <1>2, <2>2, <2>3
<1>4. \/ /\ amx' = [SaveRegs(r) EXCEPT !.error = IF Regs.cip \in patched THEN @ ELSE "NONE"]
         /\ act' = [act EXCEPT ![n] = r]
         /\ mem' = IF Instr.op = "SYSREQ_N" THEN Store(r.stk, Instr.n) ELSE mem
         /\ ctx' = Append(ctx, c)
      \/ AbortExec(r) /\ mem' = mem
  BY DEF Sysreq
<1>5. UNCHANGED saved
  BY DEF Sysreq
<1> HIDE DEF r
<1>6. CASE AbortExec(r) /\ mem' = mem
  <2>1. KeptFrom(Regs.stk)
    BY <1>6 DEF KeptFrom
  <2>2. \E q \in TopRegs : AbortExec(q)
    BY <1>3, <1>6 DEF AbortExec
  <2> QED BY <1>1, <1>5, <2>1, <2>2
<1>7. CASE /\ amx' = [SaveRegs(r) EXCEPT !.error = IF Regs.cip \in patched THEN @ ELSE "NONE"]
           /\ act' = [act EXCEPT ![n] = r]
           /\ mem' = IF Instr.op = "SYSREQ_N" THEN Store(r.stk, Instr.n) ELSE mem
           /\ ctx' = Append(ctx, c)
  <2>1. /\ amx'.stk = r.stk
        /\ amx'.error = (IF Regs.cip \in patched THEN amx.error ELSE "NONE")
    <3>1. SaveRegs(r) = [amx EXCEPT !.cip = r.cip, !.hea = r.hea, !.frm = r.frm, !.stk = r.stk]
      BY DEF SaveRegs
    <3> QED BY <1>2, <1>7, <3>1 DEF AmxType
  <2>2. c.status = "ready" /\ c.stk = r.stk /\ c.mem = mem'
        /\ (c.cleared <=> Regs.cip \notin patched)
    BY DEF NewCaller
  <2>3. KeptFrom(Regs.stk)
    <3>1. CASE Instr.op = "SYSREQ_N"
      <4>1. mem' = Store(r.stk, Instr.n) /\ r.stk + 1 = Regs.stk
        BY <1>3, <1>7, <3>1
      <4>2. KeptFrom(r.stk + 1)
        BY <1>2, <1>3, <4>1, StoreKeeps
      <4> QED BY <4>1, <4>2
    <3>2. CASE Instr.op # "SYSREQ_N"
      BY <1>7, <3>2 DEF KeptFrom
    <3> QED BY <3>1, <3>2
  <2> HIDE DEF c
  <2>4. /\ Len(ctx') = n + 1 /\ ctx'[n + 1] = c /\ \A k \in 1 .. n : ctx'[k] = ctx[k]
    BY <1>2, <1>7
  <2>5. Len(act') = n
    BY <1>2, <1>7
  <2>6. InCaller' /\ Caller' = c
    BY <2>4, <2>5
  <2>7. Len(ctx') = Len(ctx) + 1 /\ \A k \in 1 .. Len(ctx) : ctx'[k] = ctx[k]
    BY <1>2, <2>4
  <2> HIDE DEF n
  <2> QED BY <1>1, <1>3, <1>5, <2>1, <2>2, <2>3, <2>6, <2>7
<1> QED BY <1>4, <1>6, <1>7

\* A native returns: the program goes on, falls asleep or is aborted.
LEMMA NativeReturnSteps ==
    ASSUME IInv, NativeReturn
    PROVE  /\ InCaller /\ act # <<>> /\ UNCHANGED <<mem, patched, saved>>
           /\ \/ /\ amx.error = "NONE" /\ UNCHANGED amx /\ ~InCaller'
                 /\ Len(ctx') = Len(act) /\ \A k \in 1 .. Len(act) : ctx'[k] = ctx[k]
              \/ amx.error = "SLEEP" /\ \E q \in TopRegs : SleepExec(q, amx)
              \/ amx.error # "NONE" /\ \E q \in TopRegs : AbortExec(q)
<1> DEFINE r == IF Instr.op = "SYSREQ_N" THEN [Regs EXCEPT !.stk = @ + Instr.n + 1] ELSE Regs
           n == Len(act)
<1>1. /\ InCaller /\ act # <<>> /\ UNCHANGED <<mem, patched, saved>>
  BY DEF NativeReturn
<1>2. \/ /\ amx.error = "NONE" /\ amx' = amx
         /\ act' = [act EXCEPT ![n] = Next1(r)] /\ ctx' = SubSeq(ctx, 1, n)
      \/ amx.error = "SLEEP" /\ SleepExec(r, amx)
      \/ amx.error # "NONE" /\ AbortExec(r)
  BY DEF NativeReturn
<1>3. Regs \in TopRegs /\ act \in Seq(RegsType) /\ ctx \in Seq(CtxType)
      /\ n \in Nat /\ n >= 1 /\ Len(ctx) = n + 1
  BY <1>1 DEF IInv, TypeOK, TopRegs, Regs
<1>4. r \in TopRegs
  <2>1. Regs.cip \in DOMAIN Code
    BY <1>3 DEF IInv, NativesInv, Regs
  <2>2. Instr.n \in Int /\ Regs.stk \in Int
    BY <1>3, <2>1, CodeAssumption, TopRegsInt DEF Instr
  <2>3. Regs.stk + Instr.n + 1 \in Int
    BY <2>2
  <2> QED BY <1>3, <2>3, TopRegsSet
<1> HIDE DEF r
<1>5. ASSUME act' = [act EXCEPT ![n] = Next1(r)], ctx' = SubSeq(ctx, 1, n)
      PROVE  ~InCaller' /\ Len(ctx') = n /\ \A k \in 1 .. n : ctx'[k] = ctx[k]
  <2>1. Len(act') = n
    BY <1>3, <1>5
  <2> HIDE DEF n
  <2>2. Len(ctx') = n /\ \A k \in 1 .. n : ctx'[k] = ctx[k]
    BY <1>3, <1>5, PrefixSeq
  <2> QED BY <1>3, <2>1, <2>2
<1>6. ASSUME SleepExec(r, amx) PROVE \E q \in TopRegs : SleepExec(q, amx)
  BY <1>4, <1>6 DEF SleepExec
<1>7. ASSUME AbortExec(r) PROVE \E q \in TopRegs : AbortExec(q)
  BY <1>4, <1>7 DEF AbortExec
<1> QED BY <1>1, <1>2, <1>5, <1>6, <1>7

-----------------------------------------------------------------------------
(* A sleeping machine keeps its place.                                     *)

(***************************************************************************)
(* The place is in the AMX while the machine sleeps and in pawnrun's copy  *)
(* while events run.  It is the place behind the sleep only if the HALT    *)
(* instruction put the machine to sleep: a native or a debug hook that     *)
(* asks for a sleep has CIP stored on its own instruction (OnlyHaltSleeps *)
(* excludes both).                                                         *)
(***************************************************************************)
OnlyHaltSleeps == "SLEEP" \notin NativeErrors \cup HookResults

AtPlace(a, c) == <<a.stk, a.hea, a.cip>> = <<c.slept.stk, c.slept.hea, c.slept.next>>

PlaceInv ==
    /\ Asleep => AtPlace(amx, Caller)
    /\ amx.error # "SLEEP"
    /\ saved # <<>> => AtPlace(saved[1].amx, saved[1].ctx) /\ saved[1].amx.error # "SLEEP"

\* The error survives the end of an activation, and only Falls ends asleep.
LEMMA PlaceStep ==
    ASSUME IInv, PlaceInv, Next, ~BadIndex, ~HugeAllots, OnlyHaltSleeps
    PROVE  PlaceInv'
<1>1. CASE ApiCall
  <2>1. InCaller /\ Caller.status = "ready" /\ SameCallers /\ UNCHANGED saved
        /\ amx'.error = amx.error /\ Len(ctx) \in Nat /\ Len(ctx) >= 1
    BY <1>1, ApiSteps DEF IInv, TypeOK, Shape
  <2>2. ~Asleep'
    BY <2>1 DEF Asleep, SameCallers
  <2> QED BY <2>1, <2>2 DEF PlaceInv
<1>2. CASE Continue
  <2>1. /\ InCaller /\ UNCHANGED saved /\ Caller \in CtxType /\ amx \in AmxType
        /\ ctx' = [ctx EXCEPT ![Len(ctx)] = [Caller EXCEPT !.status = "ready", !.slept = Awake]]
        /\ ctx \in Seq(CtxType) /\ Len(ctx) \in Nat /\ Len(ctx) >= 1
    <3>1. /\ InCaller /\ UNCHANGED saved
          /\ ctx' = [ctx EXCEPT ![Len(ctx)] = [Caller EXCEPT !.status = "ready", !.slept = Awake]]
      BY <1>2 DEF Continue
    <3> QED BY <3>1, CallerFacts DEF IInv, Shape
  <2>2. Caller'.status = "ready"
    <3> DEFINE c == [Caller EXCEPT !.status = "ready", !.slept = Awake]
    <3>1. c.status = "ready" /\ c \in CtxType
      BY <2>1, AwakeType DEF CtxType
    <3> HIDE DEF c
    <3>2. ctx' = [ctx EXCEPT ![Len(ctx)] = c]
      BY <2>1 DEF c
    <3>3. Len(ctx') = Len(ctx) /\ ctx'[Len(ctx)] = c
      BY <2>1, <3>1, <3>2, ExceptSeq
    <3> QED BY <3>1, <3>3
  <2>3. amx'.error = amx.error
    BY <1>2, <2>1 DEF Continue, AmxType
  <2> QED BY <2>1, <2>2, <2>3 DEF PlaceInv, Asleep
<1>3. CASE HostCopy
  <2>1. /\ saved' = <<[amx |-> amx, ctx |-> Caller, mem |-> mem]>> /\ amx' = amx
        /\ ctx' = <<NewCaller(amx.stk, amx.hea, mem, TRUE, Caller.heard)>> /\ Caller.status = "asleep" /\ act = <<>>
    BY <1>3 DEF HostCopy
  <2>2. InCaller
    BY <2>1 DEF IInv, Shape
  <2>3. AtPlace(amx, Caller)
    BY <2>1, <2>2 DEF PlaceInv, Asleep
  <2>4. saved'[1].amx = amx /\ saved'[1].ctx = Caller /\ Caller'.status = "ready"
    BY <2>1 DEF NewCaller
  <2> QED BY <2>1, <2>3, <2>4 DEF PlaceInv, Asleep, AtPlace
<1>4. CASE HostDrop
  BY <1>4 DEF HostDrop, PlaceInv, Asleep, AtPlace
<1>5. CASE Interpret
  <2>1. Running /\ UNCHANGED saved /\ (GoesOn \/ Falls \/ Hooked) /\ act # <<>>
        /\ amx \in AmxType /\ Regs \in TopRegs
    BY <1>5, InterpretSteps, RunningFacts
  <2>2. ASSUME NEW r, act' = [act EXCEPT ![Len(act)] = r], ctx' = ctx PROVE ~InCaller'
    BY <2>1, <2>2 DEF IInv, TypeOK
  <2>3. CASE GoesOn
    <3>1. PICK r \in TopRegs : Run(r) \/ AbortExec(r)
      BY <2>3 DEF GoesOn
    <3>2. CASE Run(r)
      BY <2>1, <2>2, <3>2 DEF Run, PlaceInv, Asleep
    <3>3. CASE AbortExec(r)
      BY <2>1, <3>3, EndFacts DEF PlaceInv, Asleep
    <3> QED BY <3>1, <3>2, <3>3
  <2>4. CASE Falls
    <3> DEFINE a == [amx EXCEPT !.stk = Regs.stk, !.hea = Regs.hea, !.cip = Regs.cip + 1]
    <3>1. /\ a \in AmxType /\ a.stk = Regs.stk /\ a.hea = Regs.hea /\ a.cip = Regs.cip + 1
          /\ a.error = amx.error
      <4>1. Regs.stk \in Int /\ Regs.hea \in Int /\ Regs.cip + 1 \in Int
        <5>1. Regs.stk \in Int /\ Regs.hea \in Int /\ Regs.cip \in Int
          BY <2>1, TopRegsInt
        <5> QED BY <5>1
      <4> QED BY <2>1, <4>1 DEF AmxType
    <3>2. SleepExec(Regs, a)
      BY <2>4 DEF Falls
    <3> HIDE DEF a
    <3>3. /\ Caller'.slept = SleepPoint(Regs) /\ amx'.error = a.error
          /\ amx'.stk = a.stk /\ amx'.hea = a.hea /\ amx'.cip = a.cip
      BY <2>1, <3>1, <3>2, EndFacts
    <3>4. AtPlace(amx', Caller') /\ amx'.error = amx.error
      BY <3>1, <3>3 DEF AtPlace, SleepPoint
    <3> QED BY <2>1, <3>4 DEF PlaceInv, Asleep, AtPlace
  <2>5. CASE Hooked
    <3>1. act' = [act EXCEPT ![Len(act)] = Next1(Regs)] /\ amx' = SaveRegs(Regs) /\ ctx' = ctx
      BY <2>5 DEF Hooked, OnlyHaltSleeps
    <3>2. amx'.error = amx.error
      BY <2>1, <3>1 DEF SaveRegs, AmxType
    <3> QED BY <2>1, <2>2, <3>1, <3>2 DEF PlaceInv, Asleep
  <2> QED BY <2>1, <2>3, <2>4, <2>5
<1>6. CASE Sysreq
  <2>1. UNCHANGED saved /\ act # <<>>
    BY <1>6, SysreqSteps, RunningFacts
  <2>2. CASE \E r \in TopRegs : AbortExec(r)
    BY <2>1, <2>2, EndFacts DEF PlaceInv, Asleep
  <2>3. CASE ~\E r \in TopRegs : AbortExec(r)
    BY <1>6, <2>1, <2>3, SysreqSteps DEF PlaceInv, Asleep
  <2> QED BY <2>2, <2>3
<1>7. ASSUME NEW e \in NativeErrors, RaiseError(e) PROVE PlaceInv'
  <2>1. /\ InCaller /\ SameCallers /\ UNCHANGED <<act, saved>> /\ Len(ctx) \in 1 .. Len(ctx)
        /\ amx'.stk = amx.stk /\ amx'.hea = amx.hea /\ amx'.cip = amx.cip /\ amx'.error = e
    BY <1>7, RaiseSteps DEF IInv, TypeOK, Shape
  <2>2. e # "SLEEP"
    BY DEF OnlyHaltSleeps
  <2> QED BY <2>1, <2>2 DEF PlaceInv, Asleep, AtPlace, SameCallers
<1>8. CASE NativeReturn
  <2>1. act # <<>> /\ UNCHANGED saved
        /\ \/ UNCHANGED amx /\ ~InCaller'
           \/ \E r \in TopRegs : AbortExec(r)
    BY <1>8, NativeReturnSteps DEF PlaceInv
  <2>2. CASE \E r \in TopRegs : AbortExec(r)
    BY <2>1, <2>2, EndFacts DEF PlaceInv, Asleep
  <2>3. CASE UNCHANGED amx /\ ~InCaller'
    BY <2>1, <2>3 DEF PlaceInv, Asleep
  <2> QED BY <2>1, <2>2, <2>3
<1> QED BY <1>1, <1>2, <1>3, <1>4, <1>5, <1>6, <1>7, <1>8 DEF Next, HostApi, ApiCall, Native

\* A machine that its own HALT put to sleep is found with the STK and HEA it
\* had, and CIP behind the HALT, whatever natives do above it and whatever
\* events run on its copy meanwhile.
THEOREM SleeperStays ==
    ASSUME ~BadIndex, ~HugeAllots, OnlyHaltSleeps
    PROVE  Spec => []SleepKeepsPlace
<1>1. Init => PlaceInv
  BY DEF Init, PlaceInv, Asleep, NewCaller
<1>2. IInv /\ PlaceInv /\ [Next]_vars => PlaceInv'
  <2>1. ASSUME PlaceInv, UNCHANGED vars PROVE PlaceInv'
    BY <2>1 DEF vars, PlaceInv, Asleep, AtPlace
  <2> QED BY <2>1, PlaceStep
<1>3. PlaceInv => SleepKeepsPlace
  BY DEF PlaceInv, SleepKeepsPlace, AtPlace
<1> QED BY <1>1, <1>2, <1>3, InductiveInvariant, PTL DEF Spec

-----------------------------------------------------------------------------
(* A program on top leaves the memory of those underneath alone.           *)

(***************************************************************************)
(* Nothing in the interpreter keeps a program from popping more than it    *)
(* pushed (CHKSTACK knows only the top of the whole stack), so this holds  *)
(* of programs that stay within their own part of it.                      *)
(***************************************************************************)
OwnStack == Running => Regs.stk <= Regs.reset_stk

\* The callers' stack pointers are ordered, and each finds its memory intact;
\* the sleeping AMX and its caller lie under everything the copy runs.
CallersInv ==
    /\ \A k \in 1 .. Len(ctx) : \A j \in k .. Len(ctx) : ctx[j].stk <= ctx[k].stk
    /\ \A k \in 1 .. Len(ctx) : \A a \in Addr : a >= ctx[k].stk => mem[a] = ctx[k].mem[a]
    /\ InCaller => amx.stk <= Caller.stk

SleeperInv ==
    saved # <<>> =>
        /\ Len(saved) = 1
        /\ ctx[1].stk = saved[1].amx.stk
        /\ saved[1].amx.stk <= saved[1].ctx.stk
        /\ \A a \in Addr : a >= saved[1].amx.stk => mem[a] = saved[1].mem[a]
        /\ \A a \in Addr : a >= saved[1].ctx.stk => mem[a] = saved[1].ctx.mem[a]

MemoryInv == CallersInv /\ SleeperInv

LEMMA CallerTypes ==
    ASSUME IInv, NEW k \in 1 .. Len(ctx)
    PROVE  ctx[k] \in CtxType /\ ctx[k].stk \in Int
<1>1. ctx[k] \in CtxType
  BY ElementOfSeq DEF IInv, TypeOK
<1> QED BY <1>1 DEF CtxType

LEMMA SavedTypes ==
    ASSUME IInv, SleeperInv, saved # <<>>
    PROVE  /\ saved[1].amx.stk \in Int /\ saved[1].ctx.stk \in Int
           /\ saved[1].amx \in AmxType /\ saved[1].ctx \in CtxType
<1> DEFINE S == [amx : AmxType, ctx : CtxType, mem : MemType]
<1>1. saved \in Seq(S) /\ 1 \in 1 .. Len(saved)
  BY DEF IInv, TypeOK, SleeperInv
<1> HIDE DEF S
<1>2. saved[1] \in S
  BY <1>1, ElementOfSeq
<1> QED BY <1>2 DEF S, AmxType, CtxType

\* A step that keeps some of the callers and stores below all of them.
LEMMA CallersStep ==
    ASSUME IInv, MemoryInv, NEW m \in 1 .. Len(ctx), Len(ctx') = m,
           \A k \in 1 .. m : ctx'[k].stk = ctx[k].stk /\ ctx'[k].mem = ctx[k].mem,
           NEW b \in Int, KeptFrom(b), b <= ctx[Len(ctx)].stk,
           InCaller' => amx'.stk <= ctx[m].stk, UNCHANGED saved
    PROVE  MemoryInv'
<1>1. Len(ctx) \in Nat /\ Len(ctx) >= 1 /\ Len(ctx) \in 1 .. Len(ctx)
  BY DEF IInv, TypeOK, Shape
<1>2. ASSUME NEW k \in 1 .. Len(ctx), NEW a \in Addr, a >= ctx[k].stk
      PROVE  mem'[a] = mem[a]
  <2>1. ctx[Len(ctx)].stk <= ctx[k].stk
    BY <1>1 DEF MemoryInv, CallersInv
  <2>2. a \in Int /\ ctx[k].stk \in Int /\ ctx[Len(ctx)].stk \in Int
    BY <1>1, CallerTypes, MachineAssumption DEF Addr
  <2>3. a >= b
    BY <1>2, <2>1, <2>2
  <2> QED BY <2>3 DEF KeptFrom
<1>3. CallersInv'
  <2>1. \A k \in 1 .. m : \A j \in k .. m : ctx'[j].stk <= ctx'[k].stk
    <3>1. \A k \in 1 .. m : \A j \in k .. m : k \in 1 .. Len(ctx) /\ j \in k .. Len(ctx) /\ j \in 1 .. m
      BY <1>1
    <3> QED BY <3>1 DEF MemoryInv, CallersInv
  <2>2. \A k \in 1 .. m : \A a \in Addr : a >= ctx'[k].stk => mem'[a] = ctx'[k].mem[a]
    <3>1. \A k \in 1 .. m : k \in 1 .. Len(ctx)
      BY <1>1
    <3> QED BY <1>2, <3>1 DEF MemoryInv, CallersInv
  <2>3. m \in 1 .. m
    BY <1>1
  <2>4. InCaller' => amx'.stk <= Caller'.stk
    BY <2>3
  <2> QED BY <2>1, <2>2, <2>4 DEF CallersInv
<1>4. SleeperInv'
  <2> SUFFICES ASSUME saved # <<>> PROVE SleeperInv'
    BY DEF SleeperInv
  <2>1. 1 \in 1 .. Len(ctx) /\ 1 \in 1 .. m
    BY <1>1
  <2>2. \A a \in Addr : a >= saved[1].amx.stk => mem'[a] = mem[a]
    BY <1>2, <2>1 DEF MemoryInv, SleeperInv
  <2>3. \A a \in Addr : a >= saved[1].ctx.stk => a >= saved[1].amx.stk
    BY SavedTypes, MachineAssumption DEF MemoryInv, SleeperInv, Addr
  <2> QED BY <2>1, <2>2, <2>3 DEF MemoryInv, SleeperInv
<1> QED BY <1>3, <1>4 DEF MemoryInv

LEMMA MemoryStep ==
    ASSUME IInv, IInv', MemoryInv, OwnStack, Next, ~BadIndex, ~HugeAllots
    PROVE  MemoryInv'
<1> DEFINE n == Len(ctx)
<1>1. /\ n \in Nat /\ n >= 1 /\ n \in 1 .. n /\ Len(act) \in Nat /\ mem \in MemType
      /\ ctx[n] \in CtxType /\ ctx[n].stk \in Int /\ amx \in AmxType /\ amx.stk \in Int
  <2>1. n \in Nat /\ n >= 1 /\ n \in 1 .. n /\ Len(act) \in Nat
    BY DEF IInv, TypeOK, Shape
  <2> QED BY <2>1, CallerTypes DEF IInv, TypeOK, AmxType
<1>2. ASSUME SameCallers, UNCHANGED saved, NEW b \in Int, KeptFrom(b), b <= ctx[n].stk,
             InCaller' => amx'.stk <= ctx[n].stk
      PROVE  MemoryInv'
  <2>1. Len(ctx') = n
        /\ \A k \in 1 .. n : ctx'[k].stk = ctx[k].stk /\ ctx'[k].mem = ctx[k].mem
    BY <1>2 DEF SameCallers
  <2> QED BY <1>1, <1>2, <2>1, CallersStep
<1>3. InCaller' /\ Caller'.status = "ready" => amx'.stk <= Caller'.stk
  <2>1. ReadyInv' /\ amx'.stk \in Int /\ amx'.paramcount \in Nat
    BY DEF IInv, TypeOK, AmxType
  <2> QED BY <2>1 DEF ReadyInv
<1>4. ASSUME SameCallers PROVE Caller'.stk = ctx[n].stk /\ Caller'.status = Caller.status
  BY <1>1, <1>4 DEF SameCallers
<1>5. ASSUME UNCHANGED mem PROVE \A b : KeptFrom(b)
  BY <1>5 DEF KeptFrom
\* An activation ends; what was stored lies below its caller.
<1>6. ASSUME act # <<>>, LeavesCallers, UNCHANGED saved, NEW b \in Int, KeptFrom(b),
             b <= ctx[n].stk, amx'.stk <= ctx[Len(act)].stk
      PROVE  MemoryInv'
  <2>1. Len(act) \in 1 .. n
    BY <1>1, <1>6 DEF IInv, Shape, TypeOK
  <2> QED BY <1>6, <2>1, CallersStep DEF LeavesCallers
<1>7. CASE ApiCall
  <2>1. InCaller /\ Caller.status = "ready" /\ SameCallers /\ UNCHANGED saved
        /\ KeptFrom(amx.stk)
    BY <1>7, ApiSteps
  <2>2. amx.stk <= ctx[n].stk
    BY <2>1 DEF MemoryInv, CallersInv
  <2>3. InCaller' => amx'.stk <= ctx[n].stk
    BY <1>3, <1>4, <2>1
  <2> QED BY <1>1, <1>2, <2>1, <2>2, <2>3
<1>8. ASSUME NEW e \in NativeErrors, RaiseError(e) PROVE MemoryInv'
  <2>1. InCaller /\ SameCallers /\ UNCHANGED <<mem, saved>> /\ amx'.stk = amx.stk
    BY <1>8, RaiseSteps
  <2>2. amx.stk <= ctx[n].stk
    BY <2>1 DEF MemoryInv, CallersInv
  <2> QED BY <1>1, <1>2, <1>5, <2>1, <2>2
<1>9. CASE Continue
  <2> DEFINE c == [Caller EXCEPT !.status = "ready", !.slept = Awake]
  <2>1. InCaller /\ ctx' = [ctx EXCEPT ![n] = c] /\ UNCHANGED <<mem, saved>>
    BY <1>9 DEF Continue
  <2>2. c \in CtxType /\ c.stk = ctx[n].stk /\ c.mem = ctx[n].mem /\ c.status = "ready"
    BY <1>1, AwakeType DEF CtxType
  <2> HIDE DEF c
  <2>3. Len(ctx') = n /\ \A k \in 1 .. n : ctx'[k] = IF k = n THEN c ELSE ctx[k]
    <3> HIDE DEF n
    <3>1. ctx \in Seq(CtxType) /\ n = Len(ctx)
      BY DEF IInv, TypeOK, n
    <3> QED BY <1>1, <2>1, <2>2, <3>1, ExceptSeq
  <2>4. \A k \in 1 .. n : ctx'[k].stk = ctx[k].stk /\ ctx'[k].mem = ctx[k].mem
    BY <2>2, <2>3
  <2>5. InCaller' => amx'.stk <= ctx[n].stk
    BY <1>1, <1>3, <2>2, <2>3
  <2>6. KeptFrom(ctx[n].stk)
    BY <1>5, <2>1
  <2> QED BY <1>1, <2>1, <2>3, <2>4, <2>5, <2>6, CallersStep
<1>10. CASE Interpret
  <2>1. /\ Running /\ UNCHANGED saved /\ KeptFrom(Regs.stk)
        /\ GoesOn \/ Falls \/ Hooked
        /\ act # <<>> /\ Regs \in TopRegs /\ Regs.stk \in Int
    BY <1>10, InterpretSteps, RunningFacts, TopRegsInt
  <2>2. Regs.stk <= ctx[n].stk /\ Len(act) = n
    BY <1>1, <2>1 DEF OwnStack, IInv, ResetsMatch, Regs
  <2>3. ASSUME NEW r, act' = [act EXCEPT ![Len(act)] = r], ctx' = ctx PROVE MemoryInv'
    <3>1. ~InCaller' /\ SameCallers
      BY <1>1, <2>1, <2>3 DEF SameCallers
    <3> QED BY <1>2, <2>1, <2>2, <3>1
  <2>4. CASE GoesOn
    <3>1. PICK r \in TopRegs : Run(r) \/ AbortExec(r)
      BY <2>4 DEF GoesOn
    <3>2. CASE Run(r)
      BY <2>3, <3>2 DEF Run
    <3>3. CASE AbortExec(r)
      <4>1. LeavesCallers /\ amx'.stk = ctx[Len(act)].stk
        BY <2>1, <3>3, EndFacts
      <4> QED BY <1>1, <1>6, <2>1, <2>2, <4>1
    <3> QED BY <3>1, <3>2, <3>3
  <2>5. ASSUME NEW a \in AmxType, a.stk = Regs.stk, SleepExec(Regs, a) PROVE MemoryInv'
    <3>1. LeavesCallers /\ amx'.stk = Regs.stk
      BY <2>1, <2>5, EndFacts
    <3> QED BY <1>6, <2>1, <2>2, <3>1
  <2>6. CASE Falls
    <3> DEFINE a == [amx EXCEPT !.stk = Regs.stk, !.hea = Regs.hea, !.cip = Regs.cip + 1]
    <3>1. Regs.stk \in Int /\ Regs.hea \in Int /\ Regs.cip + 1 \in Int
      <4>1. Regs.stk \in Int /\ Regs.hea \in Int /\ Regs.cip \in Int
        BY <2>1, TopRegsInt
      <4> QED BY <4>1
    <3>2. a \in AmxType /\ a.stk = Regs.stk
      BY <1>1, <3>1 DEF AmxType
    <3>3. SleepExec(Regs, a)
      BY <2>6 DEF Falls
    <3> HIDE DEF a
    <3> QED BY <2>5, <3>2, <3>3
  <2>7. CASE Hooked
    <3>1. CASE act' = [act EXCEPT ![Len(act)] = Next1(Regs)] /\ ctx' = ctx
      BY <2>3, <3>1
    <3>2. CASE SleepExec(Regs, SaveRegs(Regs))
      <4>1. SaveRegs(Regs) \in AmxType /\ SaveRegs(Regs).stk = Regs.stk
        BY <1>1, <2>1, TopRegsInt DEF SaveRegs, AmxType
      <4> QED BY <2>5, <3>2, <4>1
    <3> QED BY <2>7, <3>1, <3>2 DEF Hooked
  <2> QED BY <2>1, <2>4, <2>6, <2>7
<1>11. CASE Sysreq
  <2>1. /\ Running /\ UNCHANGED saved /\ KeptFrom(Regs.stk) /\ act # <<>>
        /\ Regs.stk \in Int
    BY <1>11, SysreqSteps, RunningFacts, TopRegsInt
  <2>2. Regs.stk <= ctx[n].stk /\ Len(act) = n
    BY <1>1, <2>1 DEF OwnStack, IInv, ResetsMatch, Regs
  <2>3. ASSUME NEW r \in TopRegs, AbortExec(r) PROVE MemoryInv'
    <3>1. LeavesCallers /\ amx'.stk = ctx[Len(act)].stk
      BY <2>1, <2>3, EndFacts
    <3> QED BY <1>1, <1>6, <2>1, <2>2, <3>1
  <2>4. ASSUME Len(ctx') = n + 1, \A k \in 1 .. n : ctx'[k] = ctx[k],
               Caller'.mem = mem', amx'.stk = Caller'.stk, Caller'.stk <= Regs.stk,
               Caller'.stk \in Int
        PROVE  MemoryInv'
    <3>1. \A k \in 1 .. n : ctx[n].stk <= ctx[k].stk /\ ctx[k].stk \in Int
      BY <1>1, CallerTypes DEF MemoryInv, CallersInv
    <3>2. ctx'[n + 1].stk <= ctx[n].stk /\ ctx'[n + 1].stk \in Int
      BY <1>1, <2>1, <2>2, <2>4
    <3>3. ASSUME NEW k \in 1 .. n, NEW a \in Addr, a >= ctx[k].stk PROVE mem'[a] = mem[a]
      <4>1. a \in Int
        BY MachineAssumption DEF Addr
      <4>2. a >= Regs.stk
        BY <1>1, <2>1, <2>2, <3>1, <3>3, <4>1
      <4> QED BY <2>1, <4>2 DEF KeptFrom
    <3>4. \A k \in 1 .. n + 1 : \A j \in k .. n + 1 : ctx'[j].stk <= ctx'[k].stk
      <4> SUFFICES ASSUME NEW k \in 1 .. n + 1, NEW j \in k .. n + 1
                   PROVE  ctx'[j].stk <= ctx'[k].stk
        OBVIOUS
      <4>1. CASE j = n + 1 /\ k = n + 1
        BY <3>2, <4>1
      <4>2. CASE j = n + 1 /\ k \in 1 .. n
        BY <1>1, <2>4, <3>1, <3>2, <4>2
      <4>3. CASE j \in k .. n /\ k \in 1 .. n
        <5>1. ctx[j].stk <= ctx[k].stk /\ j \in 1 .. n
          BY <1>1, <4>3 DEF MemoryInv, CallersInv
        <5> QED BY <2>4, <4>3, <5>1
      <4> QED BY <1>1, <4>1, <4>2, <4>3
    <3>5. \A k \in 1 .. n + 1 : \A a \in Addr : a >= ctx'[k].stk => mem'[a] = ctx'[k].mem[a]
      <4> SUFFICES ASSUME NEW k \in 1 .. n + 1, NEW a \in Addr, a >= ctx'[k].stk
                   PROVE  mem'[a] = ctx'[k].mem[a]
        OBVIOUS
      <4>1. CASE k = n + 1
        BY <2>4, <4>1
      <4>2. CASE k \in 1 .. n
        BY <2>4, <3>3, <4>2 DEF MemoryInv, CallersInv
      <4> QED BY <1>1, <4>1, <4>2
    <3>6. CallersInv'
      <4>1. amx'.stk <= Caller'.stk
        BY <2>4
      <4> HIDE DEF n
      <4> QED BY <2>4, <3>4, <3>5, <4>1 DEF CallersInv
    <3>7. SleeperInv'
      <4> SUFFICES ASSUME saved # <<>> PROVE SleeperInv'
        BY <2>1 DEF SleeperInv
      <4>1. 1 \in 1 .. n
        BY <1>1
      <4>2. \A a \in Addr : a >= saved[1].amx.stk => mem'[a] = mem[a]
        BY <3>3, <4>1 DEF MemoryInv, SleeperInv
      <4>3. \A a \in Addr : a >= saved[1].ctx.stk => a >= saved[1].amx.stk
        BY SavedTypes, MachineAssumption DEF MemoryInv, SleeperInv, Addr
      <4> QED BY <2>1, <2>4, <4>1, <4>2, <4>3 DEF MemoryInv, SleeperInv
    <3> QED BY <3>6, <3>7 DEF MemoryInv
  <2>5. CASE \E r \in TopRegs : AbortExec(r)
    BY <2>3, <2>5
  <2>6. CASE ~\E r \in TopRegs : AbortExec(r)
    BY <1>11, <2>4, <2>6, SysreqSteps
  <2> QED BY <2>5, <2>6
<1>12. CASE NativeReturn
  <2>1. InCaller /\ act # <<>> /\ UNCHANGED <<mem, saved>>
    BY <1>12, NativeReturnSteps
  <2>2. /\ Len(act) \in 1 .. n /\ n \in Len(act) .. n
        /\ amx.stk <= ctx[n].stk /\ ctx[n].stk <= ctx[Len(act)].stk
        /\ ctx[Len(act)].stk \in Int
    <3>1. Len(act) \in 1 .. n /\ n \in Len(act) .. n
      BY <1>1, <2>1
    <3> QED BY <2>1, <3>1, CallerTypes DEF MemoryInv, CallersInv
  <2>3. amx.stk <= ctx[Len(act)].stk
    BY <1>1, <2>2
  <2>4. KeptFrom(amx.stk)
    BY <1>5, <2>1
  <2>5. ASSUME LeavesCallers, amx'.stk <= ctx[Len(act)].stk PROVE MemoryInv'
    BY <1>1, <1>6, <2>1, <2>2, <2>4, <2>5
  <2>6. ASSUME NEW q \in TopRegs, SleepExec(q, amx) PROVE MemoryInv'
    BY <1>1, <2>1, <2>3, <2>5, <2>6, EndFacts
  <2>7. ASSUME NEW q \in TopRegs, AbortExec(q) PROVE MemoryInv'
    <3>1. LeavesCallers /\ amx'.stk = ctx[Len(act)].stk
      BY <2>1, <2>7, EndFacts
    <3> QED BY <2>2, <2>5, <3>1
  <2>8. ASSUME ~InCaller', Len(ctx') = Len(act), \A k \in 1 .. Len(act) : ctx'[k] = ctx[k]
        PROVE  MemoryInv'
    BY <1>1, <2>1, <2>2, <2>4, <2>8, CallersStep
  <2>9. CASE \E q \in TopRegs : SleepExec(q, amx)
    BY <2>6, <2>9
  <2>10. CASE \E q \in TopRegs : AbortExec(q)
    BY <2>7, <2>10
  <2> QED BY <1>12, <2>8, <2>9, <2>10, NativeReturnSteps
<1>13. CASE HostCopy
  <2>1. /\ saved' = <<[amx |-> amx, ctx |-> Caller, mem |-> mem]>> /\ amx' = amx /\ mem' = mem
        /\ ctx' = <<NewCaller(amx.stk, amx.hea, mem, TRUE, Caller.heard)>> /\ act = <<>>
    BY <1>13 DEF HostCopy
  <2>2. InCaller /\ n = 1
    BY <2>1 DEF IInv, Shape
  <2>3. /\ ctx'[1].stk = amx.stk /\ ctx'[1].mem = mem /\ Len(ctx') = 1
        /\ saved'[1].amx = amx /\ saved'[1].ctx = ctx[1] /\ saved'[1].mem = mem /\ Len(saved') = 1
    BY <2>1, <2>2 DEF NewCaller
  <2>4. CallersInv'
    <3>1. mem' = mem /\ amx' = amx /\ Len(act') = 0
      BY <2>1, <1>13 DEF HostCopy
    <3> QED BY <1>1, <2>3, <3>1 DEF CallersInv
  <2>5. amx.stk <= ctx[1].stk /\ \A a \in Addr : a >= ctx[1].stk => mem[a] = ctx[1].mem[a]
    <3>1. Len(ctx) = 1
      BY <2>2
    <3>2. amx.stk <= ctx[Len(ctx)].stk
      BY <2>2 DEF MemoryInv, CallersInv
    <3>3. \A k \in 1 .. Len(ctx) : \A a \in Addr : a >= ctx[k].stk => mem[a] = ctx[k].mem[a]
      BY DEF MemoryInv, CallersInv
    <3> QED BY <3>1, <3>2, <3>3
  <2>6. SleeperInv'
    BY <2>1, <2>3, <2>5 DEF SleeperInv
  <2> QED BY <2>4, <2>6 DEF MemoryInv
<1>14. CASE HostDrop
  <2>1. /\ saved # <<>> /\ amx' = saved[1].amx /\ ctx' = <<saved[1].ctx>> /\ saved' = <<>>
        /\ mem' = mem
    BY <1>14 DEF HostDrop
  <2>2. /\ ctx'[1] = saved[1].ctx /\ Len(ctx') = 1
    BY <2>1
  <2>3. saved[1].ctx.stk \in Int
    BY <2>1, SavedTypes DEF MemoryInv
  <2>4. CallersInv'
    BY <2>1, <2>2, <2>3 DEF CallersInv, MemoryInv, SleeperInv
  <2>5. SleeperInv'
    BY <2>1 DEF SleeperInv
  <2> QED BY <2>4, <2>5 DEF MemoryInv
<1> QED BY <1>7, <1>8, <1>9, <1>10, <1>11, <1>12, <1>13, <1>14
        DEF Next, HostApi, ApiCall, Native

\* A program that pops no more than it pushed leaves every program underneath,
\* native's caller or sleeper, the memory it had when the one on top began.
THEOREM MemoryKept ==
    ASSUME ~BadIndex, ~HugeAllots
    PROVE  Spec /\ []OwnStack => []CallerMemoryIntact
<1>1. Init => MemoryInv
  <2> SUFFICES ASSUME Init PROVE MemoryInv
    OBVIOUS
  <2>1. CallersInv
    BY MachineAssumption DEF Init, CallersInv, NewCaller
  <2> QED BY <2>1 DEF Init, MemoryInv, SleeperInv
<1>2. IInv /\ IInv' /\ MemoryInv /\ OwnStack /\ [Next]_vars => MemoryInv'
  <2>1. ASSUME MemoryInv, UNCHANGED vars PROVE MemoryInv'
    BY <2>1 DEF vars, MemoryInv, CallersInv, SleeperInv
  <2> QED BY <2>1, MemoryStep
<1>3. IInv /\ MemoryInv => CallerMemoryIntact
  <2> SUFFICES ASSUME IInv, MemoryInv PROVE CallerMemoryIntact
    OBVIOUS
  <2>1. DOMAIN ctx = 1 .. Len(ctx) /\ DOMAIN saved = 1 .. Len(saved)
    BY DEF IInv, TypeOK
  <2>2. \A k \in 1 .. Len(saved) : saved # <<>> /\ k = 1
    <3>1. Len(saved) \in Nat /\ (saved = <<>> => Len(saved) = 0)
      BY DEF IInv, TypeOK
    <3>2. saved # <<>> => Len(saved) = 1
      BY DEF MemoryInv, SleeperInv
    <3> DEFINE l == Len(saved)
               none == saved = <<>>
    <3>3. l \in Nat /\ (none => l = 0) /\ (~none => l = 1)
      BY <3>1, <3>2
    <3> HIDE DEF l, none
    <3>4. \A k \in 1 .. l : ~none /\ k = 1
      BY <3>3
    <3> QED BY <3>4 DEF l, none
  <2> QED BY <2>1, <2>2 DEF MemoryInv, CallersInv, SleeperInv, CallerMemoryIntact
<1> QED BY <1>1, <1>2, <1>3, InductiveInvariant, PTL DEF Spec

-----------------------------------------------------------------------------
(* Errors of natives.                                                      *)

(***************************************************************************)
(* The entries of the callers say who heard of which error; the invariant  *)
(* adds the host, which is never without its entry, and the copy of the    *)
(* sleeper, which brings its own error back when it replaces the machine.  *)
(***************************************************************************)
ErrorInv ==
    /\ ErrorTravels
    /\ ctx[1].cleared
    /\ saved # <<>> => /\ saved[1].ctx.cleared
                       /\ saved[1].amx.error \in {"NONE"} \cup saved[1].ctx.heard

CtxLength == Len(ctx) \in Nat /\ Len(ctx) >= 1 /\ DOMAIN ctx = 1 .. Len(ctx)

LEMMA CtxFacts == IInv => CtxLength
BY DEF IInv, TypeOK, Shape, CtxLength

\* Steps that leave the error and forget nothing of the callers underneath.
LEMMA ErrorKept ==
    ASSUME CtxLength, CtxLength', ErrorInv, UNCHANGED saved, amx'.error = amx.error,
           Len(ctx') >= Len(ctx),
           \A k \in 1 .. Len(ctx) : ctx'[k].cleared = ctx[k].cleared
                                    /\ ctx[k].heard \subseteq ctx'[k].heard,
           \A k \in Len(ctx) + 1 .. Len(ctx') : ~ctx'[k].cleared
    PROVE  ErrorInv'
<1>1. ErrorTravels'
  <2> SUFFICES ASSUME NEW k \in 1 .. Len(ctx'), ctx'[k].cleared, amx.error # "NONE"
               PROVE  \E j \in k .. Len(ctx') : amx.error \in ctx'[j].heard
    BY DEF ErrorTravels, CtxLength
  <2>1. k \in 1 .. Len(ctx) /\ ctx[k].cleared
    BY DEF CtxLength
  <2>2. PICK j \in k .. Len(ctx) : amx.error \in ctx[j].heard
    BY <2>1 DEF ErrorInv, ErrorTravels, CtxLength
  <2>3. j \in k .. Len(ctx') /\ j \in 1 .. Len(ctx)
    BY <2>1, <2>2 DEF CtxLength
  <2> QED BY <2>2, <2>3
<1>2. ctx'[1].cleared
  BY DEF ErrorInv, CtxLength
<1> QED BY <1>1, <1>2 DEF ErrorInv

\* Steps after which there is no error.
LEMMA ErrorCleared ==
    ASSUME ErrorInv, UNCHANGED saved, amx'.error = "NONE", ctx'[1] = ctx[1]
    PROVE  ErrorInv'
BY DEF ErrorInv, ErrorTravels

\* The end of an activation: whoever called it is told the error, if a native
\* left one.
LEMMA ErrorLeaves ==
    ASSUME IInv, CtxLength', ErrorInv, act # <<>>, LeavesCallers, UNCHANGED saved,
           amx'.error = amx.error
    PROVE  ErrorInv'
<1>1. /\ Len(act) \in Nat /\ Len(act) >= 1 /\ Len(ctx') = Len(act) /\ CtxLength
      /\ Len(ctx) = Len(act) \/ Len(ctx) = Len(act) + 1
  BY CtxFacts DEF IInv, TypeOK, Shape, LeavesCallers
<1>2. CASE Len(ctx) = Len(act)
  BY <1>1, <1>2, ErrorKept DEF LeavesCallers, CtxLength
<1>3. CASE Len(ctx) = Len(act) + 1
  <2>1. amx.error \in ctx'[Len(act)].heard
    BY <1>3 DEF LeavesCallers, HandedOn
  <2>2. ErrorTravels'
    <3> DEFINE n == Len(act)
    <3>1. DOMAIN ctx' = 1 .. n /\ Len(ctx') = n /\ n \in Nat /\ amx'.error \in ctx'[n].heard
      BY <1>1, <2>1 DEF CtxLength
    <3> HIDE DEF n
    <3>2. \A k \in 1 .. n : n \in k .. n
      BY <3>1
    <3> QED BY <3>1, <3>2 DEF ErrorTravels
  <2>3. ctx'[1].cleared
    BY <1>1 DEF ErrorInv, LeavesCallers
  <2> QED BY <2>2, <2>3 DEF ErrorInv
<1> QED BY <1>1, <1>2, <1>3

LEMMA ErrorStep ==
    ASSUME IInv, IInv', ErrorInv, Next
    PROVE  ErrorInv'
<1>1. CtxLength /\ CtxLength' /\ act \in Seq(RegsType)
  BY CtxFacts DEF IInv, IInv, TypeOK, Shape, CtxLength
<1>2. ASSUME SameCallers, amx'.error = amx.error, UNCHANGED saved PROVE ErrorInv'
  BY <1>1, <1>2, ErrorKept DEF SameCallers, CtxLength
<1>3. ASSUME UNCHANGED ctx, amx'.error = amx.error, UNCHANGED saved PROVE ErrorInv'
  BY <1>1, <1>3, ErrorKept DEF CtxLength
<1>4. CASE ApiCall
  BY <1>2, <1>4, ApiSteps
<1>5. CASE Continue
  <2> DEFINE c == [Caller EXCEPT !.status = "ready", !.slept = Awake]
  <2>1. InCaller /\ ctx' = [ctx EXCEPT ![Len(ctx)] = c] /\ UNCHANGED saved
    BY <1>5 DEF Continue
  <2>2. Caller \in CtxType /\ amx \in AmxType /\ ctx \in Seq(CtxType)
    BY <2>1, CallerFacts
  <2>3. c \in CtxType /\ c.cleared = Caller.cleared /\ c.heard = Caller.heard
    BY <2>2, AwakeType DEF CtxType
  <2>4. amx'.error = amx.error
    BY <1>5, <2>2 DEF Continue, AmxType
  <2> HIDE DEF c
  <2>5. /\ Len(ctx') = Len(ctx)
        /\ \A k \in 1 .. Len(ctx) : ctx'[k] = IF k = Len(ctx) THEN c ELSE ctx[k]
    BY <1>1, <2>1, <2>2, <2>3, ExceptSeq DEF CtxLength
  <2> QED BY <1>1, <2>1, <2>3, <2>4, <2>5, ErrorKept DEF CtxLength
<1>6. CASE HostCopy
  <2>1. /\ amx' = amx /\ act = <<>> /\ saved'[1].amx = amx /\ saved'[1].ctx = Caller
        /\ ctx' = <<NewCaller(amx.stk, amx.hea, mem, TRUE, Caller.heard)>>
    BY <1>6 DEF HostCopy
  <2>2. Len(ctx) = 1 /\ Caller = ctx[1]
    BY <1>1, <2>1 DEF IInv, Shape, CtxLength
  <2>3. amx.error \in {"NONE"} \cup Caller.heard
    BY <1>1, <2>2 DEF ErrorInv, ErrorTravels, CtxLength
  <2>4. Len(ctx') = 1 /\ ctx'[1].cleared /\ ctx'[1].heard = Caller.heard
    BY <2>1 DEF NewCaller
  <2>5. ErrorTravels'
    <3>1. amx'.error = "NONE" \/ amx'.error \in ctx'[1].heard
      BY <2>1, <2>3, <2>4
    <3>2. DOMAIN ctx' = 1 .. 1 /\ 1 \in 1 .. 1 /\ \A k \in 1 .. 1 : k = 1
      BY <1>1, <2>4 DEF CtxLength
    <3> QED BY <2>4, <3>1, <3>2 DEF ErrorTravels
  <2> QED BY <2>1, <2>2, <2>3, <2>4, <2>5 DEF ErrorInv
<1>7. CASE HostDrop
  <2>1. saved # <<>> /\ amx' = saved[1].amx /\ ctx' = <<saved[1].ctx>> /\ saved' = <<>>
    BY <1>7 DEF HostDrop
  <2>2. Len(ctx') = 1 /\ ctx'[1] = saved[1].ctx
    BY <2>1
  <2>3. ErrorTravels'
    BY <1>1, <2>1, <2>2 DEF ErrorInv, ErrorTravels, CtxLength
  <2> QED BY <2>1, <2>2, <2>3 DEF ErrorInv
<1>8. CASE Interpret
  <2>1. /\ Running /\ UNCHANGED saved /\ act # <<>> /\ Regs \in TopRegs /\ amx \in AmxType
        /\ GoesOn \/ Falls \/ Hooked
        /\ Regs.stk \in Int /\ Regs.hea \in Int /\ Regs.cip \in Int /\ Regs.frm \in Int
    BY <1>8, InterpretSteps, RunningFacts, TopRegsInt
  <2>2. ASSUME NEW a \in AmxType, a.error = amx.error, SleepExec(Regs, a) PROVE ErrorInv'
    BY <1>1, <2>1, <2>2, EndFacts, ErrorLeaves
  <2>3. CASE GoesOn
    <3>1. PICK r \in TopRegs : Run(r) \/ AbortExec(r)
      BY <2>3 DEF GoesOn
    <3>2. CASE Run(r)
      BY <1>3, <2>1, <3>2 DEF Run
    <3>3. CASE AbortExec(r)
      BY <1>1, <2>1, <3>3, EndFacts, ErrorLeaves
    <3> QED BY <3>1, <3>2, <3>3
  <2>4. CASE Falls
    <3> DEFINE a == [amx EXCEPT !.stk = Regs.stk, !.hea = Regs.hea, !.cip = Regs.cip + 1]
    <3>1. Regs.cip + 1 \in Int
      BY <2>1
    <3>2. a \in AmxType /\ a.error = amx.error
      BY <2>1, <3>1 DEF AmxType
    <3>3. SleepExec(Regs, a)
      BY <2>4 DEF Falls
    <3> HIDE DEF a
    <3> QED BY <2>2, <3>2, <3>3
  <2>5. CASE Hooked
    <3>1. SaveRegs(Regs) \in AmxType /\ SaveRegs(Regs).error = amx.error
      BY <2>1 DEF SaveRegs, AmxType
    <3> QED BY <1>3, <2>1, <2>2, <2>5, <3>1 DEF Hooked
  <2> QED BY <2>1, <2>3, <2>4, <2>5
<1>9. CASE Sysreq
  <2>1. Running /\ act # <<>> /\ UNCHANGED saved
    BY <1>9, SysreqSteps, RunningFacts
  <2>2. CASE \E r \in TopRegs : AbortExec(r)
    BY <1>1, <2>1, <2>2, EndFacts, ErrorLeaves
  <2>3. CASE ~\E r \in TopRegs : AbortExec(r)
    <3>1. /\ Len(ctx') = Len(ctx) + 1 /\ \A k \in 1 .. Len(ctx) : ctx'[k] = ctx[k]
          /\ InCaller' /\ (Caller'.cleared <=> Regs.cip \notin patched)
          /\ amx'.error = (IF Regs.cip \in patched THEN amx.error ELSE "NONE")
      BY <1>9, <2>3, SysreqSteps
    <3>2. CASE Regs.cip \in patched
      <4>1. \A k \in Len(ctx) + 1 .. Len(ctx') : ~ctx'[k].cleared
        BY <1>1, <3>1, <3>2 DEF CtxLength
      <4> QED BY <1>1, <2>1, <3>1, <3>2, <4>1, ErrorKept DEF CtxLength
    <3>3. CASE Regs.cip \notin patched
      BY <1>1, <2>1, <3>1, <3>3, ErrorCleared DEF CtxLength
    <3> QED BY <3>2, <3>3
  <2> QED BY <2>2, <2>3
<1>10. ASSUME NEW e \in NativeErrors, RaiseError(e) PROVE ErrorInv'
  <2>1. /\ SameCallers /\ UNCHANGED saved /\ amx'.error = e /\ e \in Caller'.heard
    BY <1>10, RaiseSteps
  <2>2. ErrorTravels'
    BY <1>1, <2>1 DEF ErrorTravels, CtxLength
  <2>3. ctx'[1].cleared
    BY <1>1, <2>1 DEF ErrorInv, SameCallers, CtxLength
  <2> QED BY <2>1, <2>2, <2>3 DEF ErrorInv
<1>11. CASE NativeReturn
  <2>1. InCaller /\ act # <<>> /\ UNCHANGED saved /\ amx \in AmxType /\ Len(act) >= 1
    BY <1>1, <1>11, NativeReturnSteps, CallerFacts
  <2>2. CASE \E q \in TopRegs : SleepExec(q, amx)
    BY <1>1, <2>1, <2>2, EndFacts, ErrorLeaves
  <2>3. CASE \E q \in TopRegs : AbortExec(q)
    BY <1>1, <2>1, <2>3, EndFacts, ErrorLeaves
  <2>4. CASE amx.error = "NONE" /\ amx' = amx /\ \A k \in 1 .. Len(act) : ctx'[k] = ctx[k]
    <3>1. Len(act) \in Nat
      BY <1>1
    <3> QED BY <2>1, <2>4, <3>1, ErrorCleared
  <2> QED BY <1>11, <2>2, <2>3, <2>4, NativeReturnSteps
<1> QED BY <1>4, <1>5, <1>6, <1>7, <1>8, <1>9, <1>10, <1>11 DEF Next, HostApi, ApiCall, Native

\* Whatever natives run, at any depth and with any instruction patched, an error
\* that ends a program was raised above it: by the native it called or in a
\* program which that one ran.
THEOREM ErrorsTravel ==
    ASSUME ~BadIndex, ~HugeAllots
    PROVE  Spec => []ErrorTravels
<1>1. Init => ErrorInv
  BY DEF Init, ErrorInv, ErrorTravels, NewCaller
<1>2. IInv /\ IInv' /\ ErrorInv /\ [Next]_vars => ErrorInv'
  <2>1. ASSUME ErrorInv, UNCHANGED vars PROVE ErrorInv'
    BY <2>1 DEF vars, ErrorInv, ErrorTravels
  <2> QED BY <2>1, ErrorStep
<1>3. ErrorInv => ErrorTravels
  BY DEF ErrorInv
<1> QED BY <1>1, <1>2, <1>3, InductiveInvariant, PTL DEF Spec

-----------------------------------------------------------------------------
(* Compiled programs return where they were called from, and cleanly.      *)

(***************************************************************************)
(* CALL, RETN and the abort at address 0 trust what they find on the       *)
(* stack.  For code whose stack depth is known at every instruction        *)
(* (StackDepth) the invariant finds the frames of every activation again:  *)
(* the one that runs, those waiting in a native, the sleepers.             *)
(***************************************************************************)
Entries  == Publics \cup {MainEntry}
Compiled == \E t : IsTyping(Code, Entries, t)
Typing   == CHOOSE t : IsTyping(Code, Entries, t)
Depth    == Typing.depth
Exit     == Typing.exit
Live     == DOMAIN Depth
Exits    == {"RET", "RETN"}

Expects(a) == Code[a].op = "CALL" /\ Exit[Code[a].dst] = "RETN"

\* The program may go on at b with d cells on a frame that is left by e.
Joins(b, d, e) == b \in Live /\ Depth[b] = d /\ d >= 0 /\ Exit[b] = e /\ ~Expects(b)

LEMMA TypingFacts ==
    ASSUME Compiled
    PROVE  /\ IsTyping(Code, Entries, Typing)
           /\ Live \subseteq DOMAIN Code /\ Live \subseteq Int /\ 0 \notin Live
           /\ \A a \in Live : Depth[a] \in Int /\ Exit[a] \in Exits
           /\ Code[0].op = "HALT" /\ Code[0].err # "SLEEP"
           /\ \A a \in Entries : a \in Live /\ Depth[a] = -1 /\ Exit[a] = "RETN"
           /\ \A a \in Live : \/ Depth[a] = -1 /\ HeadTyped(Code, Typing, a)
                              \/ Depth[a] >= 0 /\ InstrTyped(Code, Typing, a)
<1>1. IsTyping(Code, Entries, Typing)
  BY DEF Compiled, Typing
<1> QED BY <1>1, CodeAssumption DEF IsTyping, Depth, Exit, Live, Exits

\* The same ahead of PROC.
Ahead(b, e) == b \in Live /\ Depth[b] = -1 /\ Exit[b] = e

LEMMA HeadFacts ==
    ASSUME Compiled, NEW a \in Live, Depth[a] < 0
    PROVE  /\ Code[a].op = "PROC" => Joins(a + 1, 0, Exit[a])
           /\ Code[a].op \in {"DATA", "JCOND"} => Ahead(a + 1, Exit[a])
           /\ Code[a].op \in {"JUMP", "JCOND"} => Ahead(Code[a].dst, Exit[a])
           /\ Code[a].op = "HALT" => Code[a].err # "SLEEP"
           /\ Code[a].op \in {"PROC", "DATA", "JUMP", "JCOND", "HALT"}
<1>1. HeadTyped(Code, Typing, a)
  BY TypingFacts
<1>2. \A b, d : Goes(Code, Typing, a, b, d) <=> Joins(b, d, Exit[a])
  BY DEF Goes, Reaches, Counted, Joins, Expects, Live, Depth, Exit
<1> QED BY <1>1, <1>2 DEF HeadTyped, Ahead, Live, Depth, Exit

LEMMA InstrFacts ==
    ASSUME Compiled, NEW a \in Live, Depth[a] >= 0
    PROVE  /\ Code[a].op = "PUSH" =>
                 /\ Code[a].n >= 0
                 /\ \/ Joins(a + 1, Depth[a] + Code[a].n, Exit[a])
                    \/ /\ Code[a].n >= 1 /\ a + 1 \in Live /\ Exit[a + 1] = Exit[a]
                       /\ Depth[a + 1] = Depth[a] + Code[a].n
           /\ Code[a].op = "POP" => Joins(a + 1, Depth[a] - 1, Exit[a])
           /\ Code[a].op \in {"STACK", "SYSREQ_N"} => Joins(a + 1, Depth[a] - Code[a].n, Exit[a])
           /\ Code[a].op = "CALL" =>
                 /\ Code[a].dst \in Live /\ Depth[Code[a].dst] = -1
                 /\ IF Exit[Code[a].dst] = "RETN"
                    THEN /\ Code[a - 1].dst \in Nat
                         /\ Joins(a + 1, Depth[a] - 1 - Code[a - 1].dst, Exit[a])
                    ELSE Joins(a + 1, Depth[a], Exit[a])
           /\ Code[a].op \in {"RET", "RETN"} => Depth[a] = 0 /\ Exit[a] = Code[a].op
           /\ Code[a].op = "HALT" /\ Code[a].err = "SLEEP" => Joins(a + 1, Depth[a], Exit[a])
           /\ Code[a].op \in {"JUMP", "JCOND"} => Joins(Code[a].dst, Depth[a], Exit[a])
           /\ Code[a].op \in {"JCOND", "HEAP", "SCTRL2", "DATA", "BREAK", "SYSREQ_C"} =>
                 Joins(a + 1, Depth[a], Exit[a])
           /\ Code[a].op \notin {"PROC", "SCTRL4", "SCTRL5", "SCTRL6", "CALL_PRI"}
<1>1. /\ InstrTyped(Code, Typing, a) /\ Depth[a] \in Int /\ Code[a].n \in Int /\ a \in Int
      /\ \A b \in Live : Code[b].dst \in Int
  BY TypingFacts, CodeAssumption
<1>2. \A b, d : Goes(Code, Typing, a, b, d) <=> Joins(b, d, Exit[a])
  BY DEF Goes, Reaches, Counted, Joins, Expects, Live, Depth, Exit
<1>3. \A b, d : Reaches(Code, Typing, a, b, d) => b \in Live /\ Exit[b] = Exit[a] /\ Depth[b] = d
  BY DEF Reaches, Live, Depth, Exit
<1>4. CASE Code[a].op = "CALL"
  <2>1. CallTyped(Code, Typing, a)
    BY <1>1, <1>4 DEF InstrTyped
  <2> QED BY <1>1, <1>2, <1>4, <2>1 DEF CallTyped, Live, Depth, Exit
<1>5. CASE Code[a].op # "CALL"
  BY <1>1, <1>2, <1>3, <1>5 DEF InstrTyped, Depth, Exit
<1> QED BY <1>4, <1>5

(***************************************************************************)
(* The frames below an instruction, outermost first: b[k] is the cell with *)
(* the saved FRM of frame k, e[k] the way it is left.  Above it lie the    *)
(* return address and, for RETN, the count and the parameters; then the    *)
(* next outer frame, as deep as it was at the call, or what the caller of  *)
(* amx_Exec had on the stack.                                              *)
(***************************************************************************)
Size(m, x, e) == IF e = "RETN" THEN 3 + m[x + 2] ELSE 2

Frames(m, b, e, n, top) ==
    /\ \A k \in 1 .. n : /\ b[k] + 1 \in Addr
                         /\ e[k] = "RETN" => b[k] + 2 \in Addr /\ m[b[k] + 2] >= 0
    /\ \A k \in 1 .. n : \A j \in k + 1 .. n : b[j] < b[k]
    /\ e[1] = "RETN" /\ m[b[1] + 1] = 0 /\ b[1] + Size(m, b[1], e[1]) = top
    /\ \A k \in 2 .. n :
         /\ Joins(m[b[k] + 1], Depth[m[b[k] + 1]], e[k - 1])
         /\ b[k] + Size(m, b[k], e[k]) = b[k - 1] - Depth[m[b[k] + 1]]

\* The innermost frame is at x.  The outermost one has saved the FRM amx_Exec
\* begins with.
Chain(m, x, e, top, n, b, q) ==
    /\ n \in Nat /\ n >= 1 /\ b \in [1 .. n -> Int] /\ q \in [1 .. n -> Exits]
    /\ Frames(m, b, q, n, top) /\ b[n] = x /\ q[n] = e

Inside(m, x, e, top) ==
    \E n, b, q : Chain(m, x, e, top, n, b, q) /\ b[1] \in Addr /\ m[b[1]] = 0

\* The same ahead of PROC, which will save FRM.
Entering(m, frm, x, e, top) ==
    \E n, b, q : /\ Chain(m, x, e, top, n, b, q)
                 /\ IF n = 1 THEN frm = 0 ELSE b[1] \in Addr /\ m[b[1]] = 0

LEMMA ChainBelow ==
    ASSUME NEW m, NEW x, NEW e, NEW top, NEW n, NEW b, NEW q, Chain(m, x, e, top, n, b, q)
    PROVE  /\ n \in Nat /\ n >= 1 /\ n \in 1 .. n /\ 1 \in 1 .. n /\ x \in Int /\ e \in Exits
           /\ \A k \in 1 .. n : b[k] \in Int /\ q[k] \in Exits /\ b[k] >= x /\ (k # n => b[k] > x)
<1>1. n \in Nat /\ n >= 1 /\ b \in [1 .. n -> Int] /\ q \in [1 .. n -> Exits]
      /\ b[n] = x /\ q[n] = e /\ \A k \in 1 .. n : \A j \in k + 1 .. n : b[j] < b[k]
  BY DEF Chain, Frames
<1>2. \A k \in 1 .. n : k # n => n \in k + 1 .. n
  BY <1>1
<1> QED BY <1>1, <1>2

\* Cells of frames are kept with everything above the innermost one.
LEMMA ChainKept ==
    ASSUME NEW m, NEW m2, NEW x, NEW e, NEW top, NEW n, NEW b, NEW q,
           Chain(m, x, e, top, n, b, q), \A a \in Addr : a > x => m2[a] = m[a]
    PROVE  Chain(m2, x, e, top, n, b, q)
<1>1. /\ n \in Nat /\ n >= 1 /\ 1 \in 1 .. n
      /\ \A k \in 1 .. n : b[k] \in Int /\ q[k] \in Exits /\ b[k] >= x
      /\ x \in Int
  BY ChainBelow
<1>2. Frames(m, b, q, n, top)
  BY DEF Chain
<1>3. \A k \in 1 .. n : /\ m2[b[k] + 1] = m[b[k] + 1]
                        /\ q[k] = "RETN" => m2[b[k] + 2] = m[b[k] + 2]
                        /\ Size(m2, b[k], q[k]) = Size(m, b[k], q[k])
  <2> SUFFICES ASSUME NEW k \in 1 .. n
               PROVE  /\ m2[b[k] + 1] = m[b[k] + 1]
                      /\ q[k] = "RETN" => m2[b[k] + 2] = m[b[k] + 2]
    BY DEF Size
  <2>1. b[k] + 1 \in Addr /\ (q[k] = "RETN" => b[k] + 2 \in Addr)
    BY <1>2 DEF Frames
  <2>2. b[k] + 1 > x /\ b[k] + 2 > x
    BY <1>1
  <2> QED BY <2>1, <2>2
<1>4. \A k \in 2 .. n : k \in 1 .. n
  BY <1>1
<1>5. Frames(m2, b, q, n, top)
  BY <1>1, <1>2, <1>3, <1>4 DEF Frames
<1> QED BY <1>5 DEF Chain

LEMMA InsideKept ==
    ASSUME NEW m, NEW m2, NEW x, NEW e, NEW top, Inside(m, x, e, top),
           \A a \in Addr : a >= x => m2[a] = m[a]
    PROVE  Inside(m2, x, e, top)
<1>1. PICK n, b, q : Chain(m, x, e, top, n, b, q) /\ b[1] \in Addr /\ m[b[1]] = 0
  BY DEF Inside
<1>2. x \in Int /\ b[1] >= x
  BY <1>1, ChainBelow
<1>3. \A a \in Addr : a > x => m2[a] = m[a]
  BY <1>2, MachineAssumption DEF Addr
<1>4. Chain(m2, x, e, top, n, b, q)
  BY <1>1, <1>3, ChainKept
<1>5. m2[b[1]] = 0
  BY <1>1, <1>2
<1> QED BY <1>1, <1>4, <1>5 DEF Inside

\* amx_Exec has pushed the parameter count and a zero return address.
LEMMA FirstFrame ==
    ASSUME NEW m, NEW x \in Int, x + 1 \in Addr, x + 2 \in Addr, m[x + 1] = 0, m[x + 2] \in Nat
    PROVE  Entering(m, 0, x, "RETN", x + 3 + m[x + 2])
<1> DEFINE b == [k \in 1 .. 1 |-> x]
           q == [k \in 1 .. 1 |-> "RETN"]
           top == x + 3 + m[x + 2]
<1>1. b \in [1 .. 1 -> Int] /\ q \in [1 .. 1 -> Exits] /\ b[1] = x /\ q[1] = "RETN"
      /\ \A k \in 1 .. 1 : b[k] = x
  BY DEF Exits
<1> HIDE DEF b, q
<1>2. Frames(m, b, q, 1, top)
  BY <1>1 DEF Frames, Size
<1>3. Chain(m, x, "RETN", top, 1, b, q)
  BY <1>1, <1>2 DEF Chain
<1> QED BY <1>3 DEF Entering

\* PROC saves FRM in the frame it completes.
LEMMA FrameSaved ==
    ASSUME NEW m \in MemType, NEW frm \in Int, NEW x \in Addr, NEW e, NEW top,
           Entering(m, frm, x, e, top)
    PROVE  Inside([m EXCEPT ![x] = frm], x, e, top)
<1> DEFINE m2 == [m EXCEPT ![x] = frm]
<1>1. PICK n, b, q : /\ Chain(m, x, e, top, n, b, q)
                     /\ IF n = 1 THEN frm = 0 ELSE b[1] \in Addr /\ m[b[1]] = 0
  BY DEF Entering
<1>2. m2[x] = frm /\ \A a \in Addr : a # x => m2[a] = m[a]
  BY DEF MemType
<1> HIDE DEF m2
<1>3. Chain(m2, x, e, top, n, b, q)
  <2>1. \A a \in Addr : a > x => m2[a] = m[a]
    BY <1>2, MachineAssumption DEF Addr
  <2> QED BY <1>1, <2>1, ChainKept
<1>4. b[1] \in Addr /\ m2[b[1]] = 0
  <2>1. /\ b[n] = x /\ (n # 1 => b[1] > x) /\ x \in Int
    BY <1>1, ChainBelow DEF Chain
  <2>2. CASE n = 1
    BY <1>1, <1>2, <2>1, <2>2
  <2>3. CASE n # 1
    <3>1. b[1] \in Addr /\ m[b[1]] = 0 /\ b[1] # x
      BY <1>1, <2>1, <2>3
    <3> QED BY <1>2, <3>1
  <2> QED BY <2>2, <2>3
<1> QED BY <1>3, <1>4 DEF Inside, m2

\* CALL has pushed the return address; x is where the callee saves FRM.
LEMMA NextFrame ==
    ASSUME NEW m, NEW base, NEW e \in Exits, NEW top, Inside(m, base, e, top),
           NEW x \in Int, x < base, x + 1 \in Addr,
           NEW f \in Exits, f = "RETN" => x + 2 \in Addr /\ m[x + 2] >= 0,
           Joins(m[x + 1], Depth[m[x + 1]], e),
           x + Size(m, x, f) = base - Depth[m[x + 1]], NEW frm
    PROVE  Entering(m, frm, x, f, top)
<1>1. PICK n, b, q : Chain(m, base, e, top, n, b, q) /\ b[1] \in Addr /\ m[b[1]] = 0
  BY DEF Inside
<1>2. /\ n \in Nat /\ n >= 1 /\ base \in Int /\ b[n] = base /\ q[n] = e
      /\ \A k \in 1 .. n : b[k] \in Int /\ q[k] \in Exits /\ b[k] >= base
  BY <1>1, ChainBelow DEF Chain
<1> DEFINE b2 == [k \in 1 .. n + 1 |-> IF k = n + 1 THEN x ELSE b[k]]
           q2 == [k \in 1 .. n + 1 |-> IF k = n + 1 THEN f ELSE q[k]]
<1>3. /\ b2 \in [1 .. n + 1 -> Int] /\ q2 \in [1 .. n + 1 -> Exits]
      /\ b2[n + 1] = x /\ q2[n + 1] = f
      /\ \A k \in 1 .. n : b2[k] = b[k] /\ q2[k] = q[k]
  BY <1>2
<1>4. \A k \in 1 .. n + 1 : k \in 1 .. n \/ k = n + 1
  BY <1>2
<1> HIDE DEF b2, q2
<1>5. Frames(m, b, q, n, top)
  BY <1>1 DEF Chain
<1>6. 1 \in 1 .. n /\ n \in 1 .. n /\ n + 1 - 1 = n /\ \A k \in 2 .. n : k \in 1 .. n /\ k - 1 \in 1 .. n
  BY <1>2
<1>7. Frames(m, b2, q2, n + 1, top)
  <2>1. \A k \in 1 .. n + 1 : /\ b2[k] + 1 \in Addr
                              /\ q2[k] = "RETN" => b2[k] + 2 \in Addr /\ m[b2[k] + 2] >= 0
    BY <1>3, <1>4, <1>5 DEF Frames
  <2>2. \A k \in 1 .. n + 1 : \A j \in k + 1 .. n + 1 : b2[j] < b2[k]
    <3> SUFFICES ASSUME NEW k \in 1 .. n + 1, NEW j \in k + 1 .. n + 1 PROVE b2[j] < b2[k]
      OBVIOUS
    <3>1. k \in 1 .. n /\ (j = n + 1 \/ (j \in k + 1 .. n /\ j \in 1 .. n))
      BY <1>2
    <3>2. CASE j = n + 1
      BY <1>2, <1>3, <3>1, <3>2
    <3>3. CASE j \in k + 1 .. n /\ j \in 1 .. n
      BY <1>3, <1>5, <3>1, <3>3 DEF Frames
    <3> QED BY <3>1, <3>2, <3>3
  <2>3. q2[1] = "RETN" /\ m[b2[1] + 1] = 0 /\ b2[1] + Size(m, b2[1], q2[1]) = top
    BY <1>3, <1>5, <1>6 DEF Frames
  <2>4. \A k \in 2 .. n + 1 :
          /\ Joins(m[b2[k] + 1], Depth[m[b2[k] + 1]], q2[k - 1])
          /\ b2[k] + Size(m, b2[k], q2[k]) = b2[k - 1] - Depth[m[b2[k] + 1]]
    <3> SUFFICES ASSUME NEW k \in 2 .. n + 1
                 PROVE  /\ Joins(m[b2[k] + 1], Depth[m[b2[k] + 1]], q2[k - 1])
                        /\ b2[k] + Size(m, b2[k], q2[k]) = b2[k - 1] - Depth[m[b2[k] + 1]]
      OBVIOUS
    <3>1. k = n + 1 \/ k \in 2 .. n
      BY <1>2
    <3>2. CASE k = n + 1
      BY <1>2, <1>3, <1>6, <3>2
    <3>3. CASE k \in 2 .. n
      BY <1>3, <1>5, <1>6, <3>3 DEF Frames
    <3> QED BY <3>1, <3>2, <3>3
  <2> QED BY <2>1, <2>2, <2>3, <2>4 DEF Frames
<1>8. Chain(m, x, f, top, n + 1, b2, q2)
  BY <1>2, <1>3, <1>7 DEF Chain
<1>9. n + 1 # 1 /\ b2[1] = b[1]
  BY <1>2, <1>3, <1>6
<1> QED BY <1>1, <1>8, <1>9 DEF Entering

\* What RET and RETN find: the way out of the program, or to an outer frame.
LEMMA FrameLeft ==
    ASSUME Compiled, NEW m \in MemType, NEW x, NEW e, NEW top, Inside(m, x, e, top)
    PROVE  /\ x \in Int /\ e \in Exits /\ x + 1 \in Addr
           /\ e = "RETN" => x + 2 \in Addr /\ m[x + 2] >= 0
           /\ \/ e = "RETN" /\ x \in Addr /\ m[x] = 0 /\ m[x + 1] = 0 /\ x + 3 + m[x + 2] = top
              \/ \E d : /\ Joins(m[x + 1], d, Exit[m[x + 1]])
                        /\ Inside(m, x + Size(m, x, e) + d, Exit[m[x + 1]], top)
<1>1. PICK n, b, q : Chain(m, x, e, top, n, b, q) /\ b[1] \in Addr /\ m[b[1]] = 0
  BY DEF Inside
<1>2. /\ n \in Nat /\ n >= 1 /\ n \in 1 .. n /\ x \in Int /\ b[n] = x /\ q[n] = e /\ e \in Exits
      /\ \A k \in 1 .. n : b[k] \in Int /\ q[k] \in Exits
      /\ b \in [1 .. n -> Int] /\ q \in [1 .. n -> Exits]
  BY <1>1, ChainBelow DEF Chain
<1>3. Frames(m, b, q, n, top)
  BY <1>1 DEF Chain
<1>4. x + 1 \in Addr /\ (e = "RETN" => x + 2 \in Addr /\ m[x + 2] >= 0)
  BY <1>2, <1>3 DEF Frames
<1>5. CASE n = 1
  <2>1. e = "RETN" /\ x \in Addr /\ m[x] = 0 /\ m[x + 1] = 0
    BY <1>1, <1>2, <1>3, <1>5 DEF Frames
  <2>2. x + Size(m, x, e) = top
    BY <1>2, <1>3, <1>5 DEF Frames
  <2>3. m[x + 2] \in Int
    BY <1>4, <2>1 DEF MemType
  <2>4. x + (3 + m[x + 2]) = top
    BY <2>1, <2>2 DEF Size
  <2>5. x + 3 + m[x + 2] = top
    <3>1. x \in Int
      BY <1>2
    <3> QED BY <2>3, <2>4, <3>1
  <2> QED BY <1>2, <1>4, <2>1, <2>5
<1>6. CASE n # 1
  <2> DEFINE ra == m[x + 1]
             y  == b[n - 1]
  <2>1. n \in 2 .. n /\ n - 1 \in 1 .. n /\ n - 1 \in Nat /\ n - 1 >= 1 /\ 1 \in 1 .. n - 1
    BY <1>2, <1>6
  <2>2. Joins(ra, Depth[ra], q[n - 1]) /\ x + Size(m, x, e) = y - Depth[ra]
    BY <1>2, <1>3, <2>1 DEF Frames
  <2>3. Exit[ra] = q[n - 1] /\ Depth[ra] \in Int
    BY <2>2, TypingFacts DEF Joins
  <2>4. Size(m, x, e) \in Int
    BY <1>2, <1>4 DEF Size, MemType
  <2>5. y = x + Size(m, x, e) + Depth[ra]
    BY <1>2, <2>1, <2>2, <2>3, <2>4
  <2> DEFINE b2 == [k \in 1 .. n - 1 |-> b[k]]
             q2 == [k \in 1 .. n - 1 |-> q[k]]
  <2>6. /\ b2 \in [1 .. n - 1 -> Int] /\ q2 \in [1 .. n - 1 -> Exits]
        /\ \A k \in 1 .. n - 1 : k \in 1 .. n /\ b2[k] = b[k] /\ q2[k] = q[k]
    BY <1>2, <2>1
  <2> HIDE DEF b2, q2, y, ra
  <2>7. Frames(m, b2, q2, n - 1, top)
    <3>1. \A k \in 2 .. n - 1 : k \in 2 .. n /\ k \in 1 .. n - 1 /\ k - 1 \in 1 .. n - 1
      BY <1>2
    <3>2. \A k \in 1 .. n - 1 : \A j \in k + 1 .. n - 1 : j \in k + 1 .. n /\ j \in 1 .. n - 1
      BY <1>2
    <3> QED BY <1>3, <2>1, <2>6, <3>1, <3>2 DEF Frames
  <2>8. b2[n - 1] = y /\ q2[n - 1] = Exit[ra]
    BY <2>1, <2>3, <2>6 DEF y
  <2>9. Chain(m, y, Exit[ra], top, n - 1, b2, q2)
    BY <2>1, <2>6, <2>7, <2>8 DEF Chain
  <2>10. b2[1] = b[1]
    BY <2>1, <2>6
  <2>11. Inside(m, y, Exit[ra], top)
    BY <1>1, <2>9, <2>10 DEF Inside
  <2>12. Joins(m[x + 1], Depth[m[x + 1]], Exit[m[x + 1]])
    BY <2>2, <2>3 DEF ra
  <2>13. Inside(m, x + Size(m, x, e) + Depth[m[x + 1]], Exit[m[x + 1]], top)
    BY <2>5, <2>11 DEF ra
  <2> QED BY <1>2, <1>4, <2>12, <2>13
<1> QED BY <1>5, <1>6

\* A frame lies in the program's own part of the stack.
LEMMA ChainOwn ==
    ASSUME NEW m \in MemType, NEW x, NEW e, NEW top, NEW n, NEW b, NEW q,
           Chain(m, x, e, top, n, b, q)
    PROVE  x \in Int /\ top \in Int /\ x + 3 <= top
<1>1. /\ n \in Nat /\ n >= 1 /\ x \in Int /\ b[1] \in Int /\ b[1] >= x /\ 1 \in 1 .. n
  BY ChainBelow
<1>2. /\ q[1] = "RETN" /\ b[1] + Size(m, b[1], q[1]) = top
      /\ b[1] + 2 \in Addr /\ m[b[1] + 2] >= 0
  BY <1>1 DEF Chain, Frames
<1>3. m[b[1] + 2] \in Int
  BY <1>2 DEF MemType
<1> QED BY <1>1, <1>2, <1>3 DEF Size

-----------------------------------------------------------------------------
(* Where a program is, and where an instruction takes it.                  *)

Within(m, p, stk, top) ==
    p \in Live /\ Depth[p] >= 0 /\ Inside(m, stk + Depth[p], Exit[p], top)

\* A place at which a program can be left and taken up again.
Rests(m, p, stk, top) == Within(m, p, stk, top) /\ ~Expects(p)

\* At the HALT the outermost function returns to, ahead of a PROC, or within
\* a function; a call finds the parameter count pushed.
Sits(m, r) ==
    \/ r.cip = 0 /\ r.stk = r.reset_stk /\ r.frm = 0
    \/ /\ r.cip \in Live /\ Depth[r.cip] = -1
       /\ Entering(m, r.frm, r.stk - 1, Exit[r.cip], r.reset_stk)
    \/ /\ Within(m, r.cip, r.stk, r.reset_stk)
       /\ Expects(r.cip) => r.stk \in Addr /\ m[r.stk] = Code[r.cip - 1].dst

LEMMA OwnPart ==
    ASSUME Compiled, NEW m \in MemType, NEW r \in RegsType, Sits(m, r)
    PROVE  r.stk <= r.reset_stk
<1>1. r.stk \in Int /\ r.reset_stk \in Int
  BY DEF RegsType
<1>2. ASSUME NEW x, NEW e, Inside(m, x, e, r.reset_stk) PROVE x \in Int /\ x + 3 <= r.reset_stk
  BY <1>2, ChainOwn DEF Inside
<1>3. ASSUME NEW frm, NEW x, NEW e, Entering(m, frm, x, e, r.reset_stk)
      PROVE  x \in Int /\ x + 3 <= r.reset_stk
  BY <1>3, ChainOwn DEF Entering
<1>4. CASE Within(m, r.cip, r.stk, r.reset_stk)
  <2>1. Depth[r.cip] \in Int /\ Depth[r.cip] >= 0 /\ r.stk + Depth[r.cip] + 3 <= r.reset_stk
    BY <1>2, <1>4, TypingFacts DEF Within
  <2> QED BY <1>1, <2>1
<1>5. CASE Entering(m, r.frm, r.stk - 1, Exit[r.cip], r.reset_stk)
  <2>1. r.stk - 1 + 3 <= r.reset_stk
    BY <1>3, <1>5
  <2> QED BY <1>1, <2>1
<1> QED BY <1>1, <1>4, <1>5 DEF Sits

\* A step to another instruction on the same frame.
LEMMA WithinKept ==
    ASSUME Compiled, NEW m, NEW m2, NEW a, NEW stk \in Int, NEW top, Within(m, a, stk, top),
           NEW p \in Live, Depth[p] >= 0, Exit[p] = Exit[a], NEW s \in Int,
           s + Depth[p] = stk + Depth[a], \A c \in Addr : c >= stk => m2[c] = m[c]
    PROVE  Within(m2, p, s, top)
<1>1. Depth[a] \in Int /\ Depth[a] >= 0 /\ Inside(m, stk + Depth[a], Exit[a], top)
  BY TypingFacts DEF Within
<1>2. \A c \in Addr : c >= stk + Depth[a] => c >= stk
  BY <1>1, MachineAssumption DEF Addr
<1>3. Inside(m2, stk + Depth[a], Exit[a], top)
  BY <1>1, <1>2, InsideKept
<1> QED BY <1>3 DEF Within

Proceeds ==
    \E r \in TopRegs : /\ act' = [act EXCEPT ![Len(act)] = r] /\ ctx' = ctx
                       /\ Sits(mem', r) /\ r.hea >= HLW
Aborts == \E r \in TopRegs : AbortExec(r)
Pauses == \E a \in AmxType : SleepExec(Regs, a) /\ Rests(mem', a.cip, a.stk, Regs.reset_stk)

LEMMA NextRegs ==
    ASSUME NEW q \in TopRegs
    PROVE  /\ Next1(q) \in TopRegs /\ Next1(q).cip = q.cip + 1 /\ Next1(q).stk = q.stk
           /\ Next1(q).hea = q.hea /\ Next1(q).frm = q.frm
<1>1. q.cip + 1 \in Int
  BY TopRegsInt
<1> QED BY <1>1, TopRegsNext DEF Next1, TopRegs, RegsType

\* The frame stays the one it was.
LEMMA StepOn ==
    ASSUME Compiled, Regs \in TopRegs, Within(mem, Regs.cip, Regs.stk, Regs.reset_stk),
           KeptFrom(Regs.stk), NEW r \in TopRegs, act' = [act EXCEPT ![Len(act)] = r], ctx' = ctx,
           r.hea >= HLW, NEW d, Joins(r.cip, d, Exit[Regs.cip]),
           r.stk + d = Regs.stk + Depth[Regs.cip]
    PROVE  Proceeds
<1>1. Regs.stk \in Int /\ r.stk \in Int /\ r.reset_stk = Regs.reset_stk
  BY TopRegsInt DEF TopRegs
<1>2. /\ r.cip \in Live /\ Depth[r.cip] = d /\ d >= 0 /\ Exit[r.cip] = Exit[Regs.cip]
      /\ ~Expects(r.cip)
  BY DEF Joins
<1>3. Within(mem', r.cip, r.stk, Regs.reset_stk)
  BY <1>1, <1>2, WithinKept DEF KeptFrom
<1>4. Sits(mem', r)
  BY <1>1, <1>2, <1>3 DEF Sits
<1> QED BY <1>4 DEF Proceeds

LEMMA CallStep ==
    ASSUME IInv, Compiled, Call, Within(mem, Regs.cip, Regs.stk, Regs.reset_stk),
           Expects(Regs.cip) => Regs.stk \in Addr /\ mem[Regs.stk] = Code[Regs.cip - 1].dst,
           Regs.hea >= HLW, KeptFrom(Regs.stk), mem' \in MemType
    PROVE  Proceeds \/ Aborts
<1> DEFINE p == Regs.cip
           f == Instr.dst
           r == [Regs EXCEPT !.stk = @ - 1]
           q == [r EXCEPT !.cip = f]
           x == Regs.stk - 2
           base == Regs.stk + Depth[p]
<1>1. /\ Running /\ Instr = Code[p] /\ p \in Live
      /\ Instr.op = "CALL" \/ Instr.op = "CALL_PRI"
  BY DEF Call, At, Instr, Within
<1>2. Instr.op = "CALL" /\ Code[p].op = "CALL"
  BY <1>1, InstrFacts DEF Within
<1>3. /\ Regs \in TopRegs /\ mem \in MemType /\ Regs.stk \in Int /\ p \in Int /\ Regs.hea \in Int
      /\ Depth[p] \in Int /\ Exit[p] \in Exits /\ Depth[p] >= 0
      /\ Inside(mem, base, Exit[p], Regs.reset_stk)
  BY <1>1, RunningFacts, TopRegsInt, TypingFacts DEF Within
<1>4. /\ f \in Live /\ Depth[f] = -1 /\ Exit[f] \in Exits /\ f \in Int
      /\ Expects(p) <=> Exit[f] = "RETN"
      /\ IF Exit[f] = "RETN"
         THEN Code[p - 1].dst \in Nat /\ Joins(p + 1, Depth[p] - 1 - Code[p - 1].dst, Exit[p])
         ELSE Joins(p + 1, Depth[p], Exit[p])
  <2>1. f \in Live /\ Depth[f] = -1
        /\ IF Exit[f] = "RETN"
           THEN Code[p - 1].dst \in Nat /\ Joins(p + 1, Depth[p] - 1 - Code[p - 1].dst, Exit[p])
           ELSE Joins(p + 1, Depth[p], Exit[p])
    BY <1>1, <1>2, InstrFacts DEF Within
  <2> QED BY <1>1, <1>2, <2>1, TypingFacts DEF Expects
<1>5. /\ r \in TopRegs /\ r.stk = Regs.stk - 1 /\ r.cip = p /\ r.hea = Regs.hea
      /\ q \in TopRegs /\ q.stk = Regs.stk - 1 /\ q.cip = f /\ q.hea = Regs.hea
      /\ q.reset_stk = Regs.reset_stk
  <2>1. r \in TopRegs /\ r.stk = Regs.stk - 1 /\ r.cip = p /\ r.hea = Regs.hea
    <3>1. Regs.stk - 1 \in Int
      BY <1>3
    <3> QED BY <1>3, <3>1, TopRegsSet DEF TopRegs, RegsType
  <2> HIDE DEF r
  <2>2. q \in TopRegs
    BY <1>4, <2>1, TopRegsSet
  <2> QED BY <2>1, <2>2 DEF TopRegs, RegsType
<1>6. \/ AbortExec(r)
      \/ Run(q) /\ mem' = Store(r.stk, r.cip + 1) /\ PushOk(r)
  BY <1>2 DEF Call
<1>7. CASE Run(q) /\ mem' = Store(r.stk, r.cip + 1) /\ PushOk(r)
  <2>1. base + 1 \in Addr /\ base \in Int
    BY <1>3, FrameLeft
  <2>2. x + 1 \in Addr /\ x + 1 = r.stk /\ x \in Int /\ x < base
    BY <1>3, <1>5, <1>7, <2>1, MachineAssumption DEF PushOk, Addr
  <2>3. mem'[x + 1] = p + 1
    BY <1>3, <1>5, <1>7, <2>2 DEF Store, MemType
  <2>4. Inside(mem', base, Exit[p], Regs.reset_stk)
    <3>1. \A c \in Addr : c >= base => mem'[c] = mem[c]
      BY <1>3, MachineAssumption DEF KeptFrom, Addr
    <3> QED BY <1>3, <3>1, InsideKept
  <2>5. Exit[f] = "RETN" => x + 2 \in Addr /\ mem'[x + 2] = Code[p - 1].dst
    <3>1. x + 2 = Regs.stk
      BY <1>3
    <3> QED BY <1>3, <1>4, <3>1 DEF KeptFrom
  <2>6. /\ Joins(p + 1, Depth[p + 1], Exit[p])
        /\ x + Size(mem', x, Exit[f]) = base - Depth[p + 1]
    <3>1. CASE Exit[f] = "RETN"
      BY <1>3, <1>4, <2>5, <3>1 DEF Joins, Size
    <3>2. CASE Exit[f] # "RETN"
      BY <1>3, <1>4, <3>2 DEF Joins, Size
    <3> QED BY <3>1, <3>2
  <2>7. Exit[f] = "RETN" => x + 2 \in Addr /\ mem'[x + 2] >= 0
    BY <1>4, <2>5
  <2>8. q.stk - 1 = x
    BY <1>3, <1>5
  <2> HIDE DEF q, f, x, base, p
  <2>9. Entering(mem', q.frm, x, Exit[f], Regs.reset_stk)
    BY <1>3, <1>4, <2>2, <2>3, <2>4, <2>6, <2>7, NextFrame
  <2>10. Sits(mem', q)
    BY <1>4, <1>5, <2>8, <2>9 DEF Sits
  <2> QED BY <1>5, <1>7, <2>10 DEF Proceeds, Run
<1> QED BY <1>5, <1>6, <1>7 DEF Aborts

LEMMA ReturnStep ==
    ASSUME IInv, Compiled, Return, Within(mem, Regs.cip, Regs.stk, Regs.reset_stk),
           Regs.hea >= HLW
    PROVE  Proceeds \/ Aborts
<1> DEFINE p == Regs.cip
           top == Regs.reset_stk
           r0 == [Regs EXCEPT !.stk = @ + 2]
           r1 == [r0 EXCEPT !.frm = Cell(Regs.stk)]
           r2 == IF Instr.op = "RETN" THEN [r1 EXCEPT !.stk = @ + Cell(@) + 1] ELSE r1
           ra == Cell(Regs.stk + 1)
           r3 == [r2 EXCEPT !.cip = ra]
<1>1. /\ Running /\ Instr = Code[p] /\ p \in Live /\ Instr.op \in {"RET", "RETN"}
      /\ mem' = mem
  BY DEF Return, At, Instr, Within
<1>2. Regs \in TopRegs /\ mem \in MemType /\ Regs.stk \in Int
  BY <1>1, RunningFacts, TopRegsInt
<1>3. Depth[p] = 0 /\ Exit[p] = Instr.op /\ Inside(mem, Regs.stk, Instr.op, top)
  <2>1. Depth[p] = 0 /\ Exit[p] = Instr.op /\ Inside(mem, Regs.stk + 0, Instr.op, top)
    BY <1>1, InstrFacts DEF Within
  <2> QED BY <1>2, <2>1
<1>4. AbortExec(r0) \/ AbortExec(r1) \/ AbortExec(r2) \/ Run(r3)
  BY DEF Return
<1>5. r0 \in TopRegs /\ r0.stk = Regs.stk + 2 /\ r0.hea = Regs.hea
  <2>1. Regs.stk + 2 \in Int
    BY <1>2
  <2> QED BY <1>2, <2>1, TopRegsSet DEF TopRegs, RegsType
<1> HIDE DEF r0
<1>6. r1 \in TopRegs /\ r1.stk = Regs.stk + 2 /\ r1.frm = Cell(Regs.stk) /\ r1.hea = Regs.hea
  BY <1>2, <1>5, CellInt, TopRegsSet DEF TopRegs, RegsType
<1> HIDE DEF r1
<1>7. /\ Regs.stk + 1 \in Addr /\ ra = mem[Regs.stk + 1]
      /\ Instr.op = "RETN" => /\ Regs.stk + 2 \in Addr /\ mem[Regs.stk + 2] \in Int
                              /\ Cell(Regs.stk + 2) = mem[Regs.stk + 2]
  BY <1>2, <1>3, FrameLeft DEF Cell, MemType
<1>8. /\ r2 \in TopRegs /\ r2.stk = Regs.stk + Size(mem, Regs.stk, Instr.op)
      /\ r2.frm = Cell(Regs.stk) /\ r2.hea = Regs.hea
  <2>1. CASE Instr.op = "RETN"
    <3>1. r1.stk + Cell(r1.stk) + 1 = Regs.stk + 3 + mem[Regs.stk + 2]
      BY <1>2, <1>6, <1>7, <2>1
    <3>2. r1.stk + Cell(r1.stk) + 1 \in Int
      BY <1>2, <1>7, <2>1, <3>1
    <3>3. r2 = [r1 EXCEPT !.stk = r1.stk + Cell(r1.stk) + 1]
      BY <2>1
    <3>4. r2 \in TopRegs /\ r2.stk = r1.stk + Cell(r1.stk) + 1 /\ r2.frm = r1.frm
          /\ r2.hea = r1.hea
      BY <1>6, <3>2, <3>3, TopRegsSet DEF TopRegs, RegsType
    <3>5. Regs.stk + Size(mem, Regs.stk, Instr.op) = Regs.stk + 3 + mem[Regs.stk + 2]
      BY <1>2, <1>7, <2>1 DEF Size
    <3> HIDE DEF r2
    <3> QED BY <1>6, <3>1, <3>4, <3>5
  <2>2. CASE Instr.op # "RETN"
    BY <1>2, <1>6, <2>2 DEF Size
  <2> QED BY <2>1, <2>2
<1> HIDE DEF r2
<1>9. /\ r3 \in TopRegs /\ r3.stk = Regs.stk + Size(mem, Regs.stk, Instr.op) /\ r3.cip = ra
      /\ r3.frm = Cell(Regs.stk) /\ r3.hea = Regs.hea /\ r3.reset_stk = top
  BY <1>2, <1>8, CellInt, TopRegsSet DEF TopRegs, RegsType
<1> HIDE DEF r3
<1>10. Sits(mem, r3)
  <2>1. \/ /\ Instr.op = "RETN" /\ Regs.stk \in Addr /\ mem[Regs.stk] = 0
           /\ mem[Regs.stk + 1] = 0 /\ Regs.stk + 3 + mem[Regs.stk + 2] = top
        \/ \E d : /\ Joins(ra, d, Exit[ra])
                  /\ Inside(mem, Regs.stk + Size(mem, Regs.stk, Instr.op) + d, Exit[ra], top)
    <3> HIDE DEF ra, top
    <3> QED BY <1>2, <1>3, <1>7, FrameLeft
  <2>2. CASE /\ Instr.op = "RETN" /\ Regs.stk \in Addr /\ mem[Regs.stk] = 0
             /\ mem[Regs.stk + 1] = 0 /\ Regs.stk + 3 + mem[Regs.stk + 2] = top
    <3>1. r3.cip = 0 /\ r3.frm = 0
      BY <1>7, <1>9, <2>2 DEF Cell
    <3>2. r3.stk = top
      BY <1>2, <1>7, <1>9, <2>2 DEF Size
    <3> QED BY <1>9, <3>1, <3>2 DEF Sits
  <2>3. ASSUME NEW d, Joins(ra, d, Exit[ra]),
               Inside(mem, Regs.stk + Size(mem, Regs.stk, Instr.op) + d, Exit[ra], top)
        PROVE  Sits(mem, r3)
    BY <1>9, <2>3 DEF Sits, Joins, Within
  <2> QED BY <2>1, <2>2, <2>3
<1>11. CASE Run(r3)
  BY <1>1, <1>9, <1>10, <1>11 DEF Proceeds, Run
<1> QED BY <1>4, <1>5, <1>6, <1>8, <1>11 DEF Aborts

LEMMA PushStep ==
    ASSUME IInv, Compiled, PushCells, Within(mem, Regs.cip, Regs.stk, Regs.reset_stk),
           Regs.hea >= HLW, KeptFrom(Regs.stk), mem' \in MemType
    PROVE  Proceeds \/ Aborts
<1> DEFINE p == Regs.cip
           n == Instr.n
           r == [Regs EXCEPT !.stk = @ - n]
           q == Next1(r)
<1>1. /\ Running /\ Instr = Code[p] /\ p \in Live /\ Instr.op = "PUSH" /\ n \in Int
  BY InstrType DEF PushCells, At, Instr, Within
<1>2. /\ Regs \in TopRegs /\ mem \in MemType /\ Regs.stk \in Int /\ Regs.hea \in Int /\ p \in Int
      /\ Depth[p] \in Int /\ Depth[p] >= 0 /\ Inside(mem, Regs.stk + Depth[p], Exit[p], Regs.reset_stk)
  BY <1>1, RunningFacts, TopRegsInt, TypingFacts DEF Within
<1>3. /\ n >= 0
      /\ \/ Joins(p + 1, Depth[p] + n, Exit[p])
         \/ /\ n >= 1 /\ p + 1 \in Live /\ Exit[p + 1] = Exit[p] /\ Depth[p + 1] = Depth[p] + n
  BY <1>1, <1>2, InstrFacts DEF Within
<1>4. /\ \/ AbortExec(r) \/ AbortExec(Regs)
         \/ /\ Run(q) /\ PushOk(r)
            /\ mem' = [a \in Addr |-> IF a \in r.stk .. r.stk + n - 1 THEN Instr.dst ELSE mem[a]]
  BY DEF PushCells
<1>5. r \in TopRegs /\ r.stk = Regs.stk - n /\ r.hea = Regs.hea /\ r.cip = p
  BY <1>1, <1>2, MovedStk DEF TopRegs, RegsType
<1> HIDE DEF r
<1>6. /\ q \in TopRegs /\ q.cip = p + 1 /\ q.stk = Regs.stk - n /\ q.hea = Regs.hea
      /\ q.reset_stk = Regs.reset_stk
  BY <1>5, NextRegs DEF TopRegs
<1> HIDE DEF q
<1>7. CASE Run(q) /\ Joins(p + 1, Depth[p] + n, Exit[p])
  <2>1. q.stk + (Depth[p] + n) = Regs.stk + Depth[p]
    BY <1>1, <1>2, <1>6
  <2>2. act' = [act EXCEPT ![Len(act)] = q] /\ ctx' = ctx
    BY <1>7 DEF Run
  <2> QED BY <1>2, <1>6, <1>7, <2>1, <2>2, StepOn
<1>8. CASE /\ Run(q) /\ PushOk(r) /\ n >= 1 /\ p + 1 \in Live /\ Exit[p + 1] = Exit[p]
           /\ Depth[p + 1] = Depth[p] + n
           /\ mem' = [a \in Addr |-> IF a \in r.stk .. r.stk + n - 1 THEN Instr.dst ELSE mem[a]]
  <2>1. q.stk \in Int /\ q.stk + Depth[p + 1] = Regs.stk + Depth[p] /\ Depth[p + 1] >= 0
    BY <1>1, <1>2, <1>6, <1>8
  <2>2. Within(mem', p + 1, q.stk, Regs.reset_stk)
    BY <1>2, <1>8, <2>1, WithinKept DEF KeptFrom
  <2>3. q.stk \in Addr
    <3>1. Regs.stk + Depth[p] + 1 \in Addr
      BY <1>2, FrameLeft
    <3>2. q.stk \in Int /\ q.stk <= Regs.stk + Depth[p] + 1
      BY <1>1, <1>2, <1>6, <1>8
    <3>3. q.stk >= HLW
      BY <1>2, <1>5, <1>6, <1>8, <3>2, MachineAssumption DEF PushOk, TopRegs, RegsType
    <3> QED BY <3>1, <3>2, <3>3, MachineAssumption DEF Addr
  <2>4. mem'[q.stk] = Code[q.cip - 1].dst
    <3>1. q.stk \in r.stk .. r.stk + n - 1
      BY <1>1, <1>2, <1>5, <1>6, <1>8
    <3>2. q.cip - 1 = p
      BY <1>2, <1>6
    <3> QED BY <1>1, <1>8, <2>3, <3>1, <3>2
  <2>5. Sits(mem', q)
    BY <1>6, <2>2, <2>3, <2>4 DEF Sits
  <2> QED BY <1>2, <1>6, <1>8, <2>5 DEF Proceeds, Run
<1> QED BY <1>2, <1>3, <1>4, <1>5, <1>7, <1>8 DEF Aborts

LEMMA ProcStep ==
    ASSUME IInv, Compiled, Proc, Sits(mem, Regs), Regs.hea >= HLW
    PROVE  Proceeds \/ Aborts
<1> DEFINE p == Regs.cip
           r == [Regs EXCEPT !.stk = @ - 1]
           q == [Next1(r) EXCEPT !.frm = r.stk]
<1>1. Running /\ Instr = Code[p] /\ Instr.op = "PROC"
  BY DEF Proc, At, Instr
<1>2. /\ Regs \in TopRegs /\ mem \in MemType /\ Regs.stk \in Int /\ Regs.hea \in Int /\ p \in Int
      /\ Regs.frm \in Int
  BY <1>1, RunningFacts, TopRegsInt
<1>3. /\ p \in Live /\ Depth[p] = -1 /\ Joins(p + 1, 0, Exit[p])
      /\ Entering(mem, Regs.frm, Regs.stk - 1, Exit[p], Regs.reset_stk)
  <2>1. p \in Live /\ Depth[p] = -1
        /\ Entering(mem, Regs.frm, Regs.stk - 1, Exit[p], Regs.reset_stk)
    <3>1. p # 0
      BY <1>1, TypingFacts
    <3>2. ~Within(mem, p, Regs.stk, Regs.reset_stk)
      BY <1>1, InstrFacts DEF Within
    <3> QED BY <3>1, <3>2 DEF Sits
  <2>2. Joins(p + 1, 0, Exit[p])
    BY <1>1, <2>1, HeadFacts
  <2> QED BY <2>1, <2>2
<1>4. /\ r \in TopRegs /\ r.stk = Regs.stk - 1 /\ r.hea = Regs.hea /\ r.cip = p
      /\ r.frm = Regs.frm
  <2>1. Regs.stk - 1 \in Int
    BY <1>2
  <2> QED BY <1>2, <2>1, TopRegsSet DEF TopRegs, RegsType
<1>5. AbortExec(r) \/ (Run(q) /\ mem' = Store(r.stk, r.frm) /\ PushOk(r))
  BY DEF Proc
<1> HIDE DEF r
<1>6. /\ q \in TopRegs /\ q.cip = p + 1 /\ q.stk = Regs.stk - 1 /\ q.hea = Regs.hea
      /\ q.reset_stk = Regs.reset_stk
  <2>1. Next1(r) \in TopRegs /\ Next1(r).cip = p + 1 /\ Next1(r).stk = r.stk /\ Next1(r).hea = r.hea
    BY <1>4, NextRegs
  <2>2. r.stk \in Int
    BY <1>4, TopRegsInt
  <2> QED BY <1>4, <2>1, <2>2, TopRegsSet DEF TopRegs, RegsType
<1> HIDE DEF q
<1>7. CASE Run(q) /\ mem' = Store(r.stk, r.frm) /\ PushOk(r)
  <2>1. r.stk \in Addr
    <3>1. Regs.stk - 1 + 1 \in Addr
      BY <1>3 DEF Entering, Chain, Frames
    <3> QED BY <1>2, <1>4, <1>7, <3>1, MachineAssumption DEF PushOk, Addr
  <2>2. mem' = [mem EXCEPT ![r.stk] = Regs.frm]
    BY <1>4, <1>7, <2>1 DEF Store
  <2>3. Inside(mem', Regs.stk - 1, Exit[p], Regs.reset_stk)
    BY <1>2, <1>3, <1>4, <2>1, <2>2, FrameSaved
  <2>4. Regs.stk - 1 + 0 = Regs.stk - 1
    BY <1>2
  <2>5. Sits(mem', q)
    BY <1>3, <1>6, <2>3, <2>4 DEF Sits, Within, Joins
  <2> QED BY <1>6, <1>7, <2>5 DEF Proceeds, Run, KeptFrom
<1> QED BY <1>4, <1>5, <1>7 DEF Aborts

\* What a stub does ahead of PROC: it reads the state and branches on it.
LEMMA HeadFrames ==
    ASSUME IInv, Compiled, Interpret, ~Proc, Regs.cip \in Live, Depth[Regs.cip] = -1,
           Entering(mem, Regs.frm, Regs.stk - 1, Exit[Regs.cip], Regs.reset_stk), Regs.hea >= HLW
    PROVE  Proceeds \/ Aborts
<1> DEFINE p == Regs.cip
<1>1. Running /\ Regs \in TopRegs /\ p \in Int /\ Instr = Code[p]
  BY InterpretSteps, RunningFacts, TopRegsInt DEF Instr
<1>2. /\ Instr.op \in {"DATA", "JUMP", "JCOND", "HALT"}
      /\ Instr.op = "HALT" => Instr.err # "SLEEP"
      /\ Instr.op \in {"DATA", "JCOND"} => Ahead(p + 1, Exit[p])
      /\ Instr.op \in {"JUMP", "JCOND"} => Ahead(Instr.dst, Exit[p])
  <2>1. Instr.op # "PROC"
    BY DEF Interpret, PushCells, Pop, MoveStk, MoveHea, SetFrame, Call, Return, Jump, Data, Halt,
           Break, At
  <2> QED BY <1>1, <2>1, HeadFacts
<1>3. /\ mem' = mem
      /\ \/ AbortExec(Regs)
         \/ Instr.op \in {"DATA", "JCOND"} /\ Run(Next1(Regs))
         \/ Instr.op \in {"JUMP", "JCOND"} /\ Run([Regs EXCEPT !.cip = Instr.dst])
  <2>1. CASE Data
    BY <2>1 DEF Data, At
  <2>2. CASE Jump
    BY <1>2, <2>2 DEF Jump, At
  <2>3. CASE Halt
    BY <1>2, <2>3 DEF Halt, At
  <2> QED BY <1>2, <2>1, <2>2, <2>3
          DEF Interpret, PushCells, Pop, MoveStk, MoveHea, SetFrame, Call, Return, Break, At
<1>4. ASSUME NEW r \in TopRegs, Run(r), Ahead(r.cip, Exit[p]), r.stk = Regs.stk,
             r.frm = Regs.frm, r.hea = Regs.hea
      PROVE  Proceeds
  <2>1. r.reset_stk = Regs.reset_stk
    BY <1>1, <1>4 DEF TopRegs
  <2>2. Sits(mem', r)
    BY <1>3, <1>4, <2>1 DEF Sits, Ahead
  <2> QED BY <1>4, <2>2 DEF Proceeds, Run
<1>5. CASE Instr.op \in {"DATA", "JCOND"} /\ Run(Next1(Regs))
  BY <1>1, <1>2, <1>4, <1>5, NextRegs
<1>6. CASE Instr.op \in {"JUMP", "JCOND"} /\ Run([Regs EXCEPT !.cip = Instr.dst])
  <2> DEFINE r == [Regs EXCEPT !.cip = Instr.dst]
  <2>1. Instr.dst \in Int
    BY <1>2, <1>6, TypingFacts DEF Ahead
  <2>2. r \in TopRegs /\ r.cip = Instr.dst /\ r.stk = Regs.stk /\ r.frm = Regs.frm
        /\ r.hea = Regs.hea
    BY <1>1, <2>1, TopRegsSet DEF TopRegs, RegsType
  <2> HIDE DEF r
  <2>3. Run(r)
    BY <1>6 DEF r
  <2> QED BY <1>2, <1>4, <1>6, <2>2, <2>3
<1> QED BY <1>1, <1>3, <1>5, <1>6 DEF Aborts

\* Every instruction of a compiled program takes it to such a place, or ends
\* it, or leaves it at a place where it can be taken up again.
LEMMA InstrFrames ==
    ASSUME IInv, Compiled, Interpret, Sits(mem, Regs), Regs.hea >= HLW
    PROVE  Proceeds \/ Aborts \/ Pauses
<1> DEFINE p == Regs.cip
<1>1. /\ Running /\ KeptFrom(Regs.stk) /\ mem' \in MemType /\ Regs \in TopRegs /\ amx \in AmxType
      /\ Regs.stk \in Int /\ Regs.hea \in Int /\ p \in Int /\ Regs.frm \in Int /\ Instr = Code[p]
      /\ HLW \in Int
  BY InterpretSteps, RunningFacts, TopRegsInt, MachineAssumption DEF Instr
<1>2. Instr.n \in Int /\ Instr.dst \in Int
  BY InstrType DEF Interpret, PushCells, Pop, MoveStk, MoveHea, SetFrame, Proc, Call, Return,
                   Jump, Data, Halt, Break
<1>3. CASE p = 0
  <2>1. Instr.op = "HALT" /\ Instr.err # "SLEEP"
    BY <1>1, <1>3, TypingFacts
  <2>2. Halt
    BY <2>1 DEF Interpret, PushCells, Pop, MoveStk, MoveHea, SetFrame, Proc, Call, Return,
                Jump, Data, Break, At
  <2>3. AbortExec(Regs)
    BY <2>1, <2>2 DEF Halt
  <2> QED BY <1>1, <2>3 DEF Aborts
<1>4. CASE Proc
  BY <1>4, ProcStep
<1>5. CASE p \in Live /\ Depth[p] = -1 /\ ~Proc
           /\ Entering(mem, Regs.frm, Regs.stk - 1, Exit[p], Regs.reset_stk)
  BY <1>5, HeadFrames
<1>6. CASE /\ Within(mem, p, Regs.stk, Regs.reset_stk) /\ ~Proc
           /\ Expects(p) => Regs.stk \in Addr /\ mem[Regs.stk] = Code[p - 1].dst
  <2>1. /\ Within(mem, p, Regs.stk, Regs.reset_stk)
        /\ Expects(p) => Regs.stk \in Addr /\ mem[Regs.stk] = Code[p - 1].dst
    BY <1>6
  <2>2. p \in Live /\ Depth[p] \in Int /\ Depth[p] >= 0
    BY <2>1, TypingFacts DEF Within
  \* An instruction that stays on its frame.
  <2>3. ASSUME NEW r \in TopRegs, Run(r), r.hea >= HLW, NEW d, Joins(r.cip, d, Exit[p]),
               r.stk + d = Regs.stk + Depth[p]
        PROVE  Proceeds
    <3>1. act' = [act EXCEPT ![Len(act)] = r] /\ ctx' = ctx
      BY <2>3 DEF Run
    <3> HIDE DEF p
    <3>2. p = Regs.cip
      BY DEF p
    <3> QED BY <1>1, <2>1, <2>3, <3>1, <3>2, StepOn
  \* The same at the instruction behind.
  <2>4. ASSUME NEW r \in TopRegs, Run(Next1(r)), r.cip = p, r.hea >= HLW,
               NEW d, Joins(p + 1, d, Exit[p]), r.stk + d = Regs.stk + Depth[p]
        PROVE  Proceeds
    <3>1. /\ Next1(r) \in TopRegs /\ Next1(r).cip = p + 1 /\ Next1(r).stk = r.stk
          /\ Next1(r).hea = r.hea
      BY <2>4, NextRegs
    <3> QED BY <2>3, <2>4, <3>1
  <2>5. ASSUME Run(Next1(Regs)), Joins(p + 1, Depth[p], Exit[p]) PROVE Proceeds
    BY <1>1, <2>4, <2>5
  <2>6. ASSUME NEW a \in AmxType, SleepExec(Regs, a), Joins(a.cip, Depth[p], Exit[p]),
               a.stk = Regs.stk
        PROVE  Pauses
    <3>1. Within(mem', a.cip, a.stk, Regs.reset_stk)
      BY <1>1, <2>1, <2>2, <2>6, WithinKept DEF KeptFrom, Joins
    <3> QED BY <2>6, <3>1 DEF Pauses, Rests, Joins
  <2>7. CASE PushCells
    BY <1>1, <2>1, <2>7, PushStep
  <2>8. CASE Pop
    <3> DEFINE r == [Regs EXCEPT !.stk = @ + 1]
    <3>1. Run(Next1(r)) \/ AbortExec(r)
      BY <2>8 DEF Pop
    <3>2. Joins(p + 1, Depth[p] - 1, Exit[p])
      BY <1>1, <2>2, <2>8, InstrFacts DEF Pop, At
    <3>3. r \in TopRegs /\ r.cip = p /\ r.hea = Regs.hea /\ r.stk = Regs.stk + 1
      <4>1. Regs.stk + 1 \in Int
        BY <1>1
      <4> QED BY <1>1, <4>1, TopRegsSet DEF TopRegs, RegsType
    <3> HIDE DEF r
    <3>4. r.stk + (Depth[p] - 1) = Regs.stk + Depth[p]
      <4>1. Regs.stk \in Int /\ Depth[p] \in Int /\ r.stk = Regs.stk + 1
        BY <1>1, <2>2, <3>3
      <4> QED BY <4>1
    <3> QED BY <2>4, <3>1, <3>2, <3>3, <3>4 DEF Aborts
  <2>9. CASE MoveStk
    <3> DEFINE r == [Regs EXCEPT !.stk = IF Instr.op = "STACK" THEN @ + Instr.n ELSE Instr.n]
    <3>1. Run(Next1(r)) \/ AbortExec(r)
      BY <2>9 DEF MoveStk
    <3>2. Instr.op = "STACK" /\ Joins(p + 1, Depth[p] - Instr.n, Exit[p])
      BY <1>1, <2>2, <2>9, InstrFacts DEF MoveStk, At
    <3>3. r \in TopRegs /\ r.cip = p /\ r.hea = Regs.hea /\ r.stk = Regs.stk + Instr.n
      BY <1>1, <1>2, <3>2, MovedStk DEF TopRegs, RegsType
    <3> HIDE DEF r
    <3>4. r.stk + (Depth[p] - Instr.n) = Regs.stk + Depth[p]
      BY <1>1, <1>2, <2>2, <3>3
    <3> QED BY <2>4, <3>1, <3>2, <3>3, <3>4 DEF Aborts
  <2>10. CASE MoveHea
    <3> DEFINE r == [Regs EXCEPT !.hea = IF Instr.op = "HEAP" THEN @ + Instr.n ELSE Instr.n]
    <3>1. (Run(Next1(r)) /\ HeapOk(r)) \/ AbortExec(r)
      BY <2>10 DEF MoveHea
    <3>2. Joins(p + 1, Depth[p], Exit[p])
      BY <1>1, <2>2, <2>10, InstrFacts DEF MoveHea, At
    <3>3. r \in TopRegs /\ r.cip = p /\ r.stk = Regs.stk
      <4>1. Regs.hea + Instr.n \in Int
        BY <1>1, <1>2
      <4> QED BY <1>1, <1>2, <4>1, TopRegsSet DEF TopRegs, RegsType
    <3>4. (Run(Next1(r)) /\ r.hea >= HLW) \/ AbortExec(r)
      BY <3>1 DEF HeapOk
    <3> HIDE DEF r
    <3> QED BY <2>4, <3>2, <3>3, <3>4 DEF Aborts
  <2>11. CASE SetFrame
    BY <1>1, <2>2, <2>11, InstrFacts DEF SetFrame, At
  <2>12. CASE Call
    BY <1>1, <2>1, <2>12, CallStep
  <2>13. CASE Return
    BY <1>1, <2>1, <2>13, ReturnStep
  <2>14. CASE Jump
    <3> DEFINE r == [Regs EXCEPT !.cip = Instr.dst]
    <3>1. /\ Instr.op \in {"JUMP", "JCOND"}
          /\ Run(r) \/ (Instr.op = "JCOND" /\ Run(Next1(Regs)))
      <4>1. Instr.op # "SCTRL6"
        BY <1>1, <2>2, InstrFacts
      <4> QED BY <2>14, <4>1 DEF Jump, At
    <3>2. /\ Joins(Instr.dst, Depth[p], Exit[p])
          /\ Instr.op = "JCOND" => Joins(p + 1, Depth[p], Exit[p])
      BY <1>1, <2>2, <3>1, InstrFacts
    <3>3. r \in TopRegs /\ r.cip = Instr.dst /\ r.hea = Regs.hea /\ r.stk = Regs.stk
      BY <1>1, <1>2, TopRegsSet DEF TopRegs, RegsType
    <3> HIDE DEF r
    <3>4. CASE Run(r)
      BY <2>3, <3>2, <3>3, <3>4
    <3>5. CASE Instr.op = "JCOND" /\ Run(Next1(Regs))
      BY <2>5, <3>2, <3>5
    <3> QED BY <3>1, <3>4, <3>5
  <2>15. CASE Data
    <3>1. Joins(p + 1, Depth[p], Exit[p])
      BY <1>1, <2>2, <2>15, InstrFacts DEF Data, At
    <3>2. Run(Next1(Regs)) \/ AbortExec(Regs)
      BY <2>15 DEF Data
    <3> QED BY <1>1, <2>5, <3>1, <3>2 DEF Aborts
  <2>16. CASE Halt
    <3>1. CASE Instr.err = "SLEEP"
      <4> DEFINE a == [amx EXCEPT !.stk = Regs.stk, !.hea = Regs.hea, !.cip = Regs.cip + 1]
      <4>1. SleepExec(Regs, a)
        BY <2>16, <3>1 DEF Halt
      <4>2. a \in AmxType /\ a.stk = Regs.stk /\ a.cip = p + 1
        <5>1. Regs.cip + 1 \in Int
          BY <1>1
        <5> QED BY <1>1, <5>1 DEF AmxType
      <4>3. Joins(p + 1, Depth[p], Exit[p])
        BY <1>1, <2>2, <2>16, <3>1, InstrFacts DEF Halt, At
      <4> HIDE DEF a
      <4> QED BY <2>6, <4>1, <4>2, <4>3
    <3>2. CASE Instr.err # "SLEEP"
      BY <1>1, <2>16, <3>2 DEF Halt, Aborts
    <3> QED BY <3>1, <3>2
  <2>17. CASE Break
    <3>1. Joins(p + 1, Depth[p], Exit[p]) /\ Code[p].op = "BREAK"
      BY <1>1, <2>2, <2>17, InstrFacts DEF Break, At
    <3>2. \/ act' = [act EXCEPT ![Len(act)] = Next1(Regs)] /\ ctx' = ctx
          \/ SleepExec(Regs, SaveRegs(Regs))
          \/ AbortExec(Regs)
      BY <2>17 DEF Break
    <3>3. CASE act' = [act EXCEPT ![Len(act)] = Next1(Regs)] /\ ctx' = ctx
      <4>1. /\ Next1(Regs) \in TopRegs /\ Next1(Regs).cip = p + 1
            /\ Next1(Regs).stk = Regs.stk /\ Next1(Regs).hea = Regs.hea
        BY <1>1, NextRegs
      <4> QED BY <1>1, <2>1, <3>1, <3>3, <4>1, StepOn
    <3>4. CASE SleepExec(Regs, SaveRegs(Regs))
      <4>1. /\ SaveRegs(Regs) \in AmxType /\ SaveRegs(Regs).stk = Regs.stk
            /\ SaveRegs(Regs).cip = p
        BY <1>1 DEF SaveRegs, AmxType
      <4>2. Joins(p, Depth[p], Exit[p])
        BY <2>2, <3>1 DEF Joins, Expects
      <4> QED BY <2>6, <3>4, <4>1, <4>2
    <3> QED BY <1>1, <3>2, <3>3, <3>4 DEF Aborts
  <2> QED BY <1>6, <2>7, <2>8, <2>9, <2>10, <2>11, <2>12, <2>13, <2>14, <2>15, <2>16, <2>17
          DEF Interpret
<1> QED BY <1>3, <1>4, <1>5, <1>6 DEF Sits

-----------------------------------------------------------------------------
(* The frames of everything that is not finished.                          *)

\* A program whose native was called with c on top of it.
Waits(r, c) ==
    /\ r.cip \in Live /\ Code[r.cip].op \in {"SYSREQ_C", "SYSREQ_N"} /\ c.stk = r.stk
    /\ Within(c.mem, r.cip, IF Code[r.cip].op = "SYSREQ_N" THEN r.stk + 1 ELSE r.stk,
              r.reset_stk)

SleeperFrames ==
    saved # <<>> => /\ Rests(saved[1].mem, saved[1].amx.cip, saved[1].amx.stk, saved[1].ctx.stk)
                    /\ saved[1].amx.error # "SLEEP"

FrameInv ==
    /\ Running => Sits(mem, Regs)
    /\ \A k \in 1 .. Len(act) : act[k].hea >= HLW
    /\ \A k \in 1 .. Len(ctx) - 1 : Waits(act[k], ctx[k + 1])
    /\ Asleep => Rests(mem, amx.cip, amx.stk, Caller.stk)
    /\ SleeperFrames
    /\ amx.error # "SLEEP"

LEMMA FrameOwnStack == ASSUME IInv, FrameInv, Compiled PROVE OwnStack
<1> SUFFICES ASSUME Running PROVE Regs.stk <= Regs.reset_stk
  BY DEF OwnStack
<1>1. mem \in MemType /\ Regs \in RegsType
  BY RunningFacts DEF TopRegs
<1> QED BY <1>1, OwnPart DEF FrameInv

LEMMA RestsKept ==
    ASSUME Compiled, NEW m, NEW m2, NEW p, NEW stk \in Int, NEW top, Rests(m, p, stk, top),
           \A c \in Addr : c >= stk => m2[c] = m[c]
    PROVE  Rests(m2, p, stk, top)
BY WithinKept DEF Rests, Within

\* A program starts or is taken up again.
LEMMA BeginFrames ==
    ASSUME IInv, FrameInv, InCaller, NEW r \in RegsType, act' = Append(act, r),
           Len(ctx') = Len(ctx),
           \A k \in 1 .. Len(ctx) : ctx'[k].stk = ctx[k].stk /\ ctx'[k].mem = ctx[k].mem,
           Sits(mem', r), r.hea >= HLW, UNCHANGED saved, amx'.error = amx.error
    PROVE  FrameInv'
<1> DEFINE n == Len(act)
<1>1. n \in Nat /\ Len(ctx) = n + 1 /\ act \in Seq(RegsType)
  BY CallerFacts
<1>2. /\ Len(act') = n + 1 /\ act'[n + 1] = r /\ \A k \in 1 .. n : act'[k] = act[k]
  BY <1>1, AppendProperties
<1> HIDE DEF n
<1>3. ~InCaller' /\ Regs' = r
  BY <1>1, <1>2 DEF Regs
<1>4. \A k \in 1 .. n : Waits(act'[k], ctx'[k + 1])
  <2> SUFFICES ASSUME NEW k \in 1 .. n PROVE Waits(act'[k], ctx'[k + 1])
    OBVIOUS
  <2>1. k \in 1 .. Len(ctx) - 1 /\ k + 1 \in 1 .. Len(ctx)
    BY <1>1
  <2>2. Waits(act[k], ctx[k + 1])
    BY <2>1 DEF FrameInv
  <2>3. act'[k] = act[k] /\ ctx'[k + 1].stk = ctx[k + 1].stk /\ ctx'[k + 1].mem = ctx[k + 1].mem
    BY <1>2, <2>1
  <2> QED BY <2>2, <2>3 DEF Waits
<1>5. \A k \in 1 .. n + 1 : act'[k].hea >= HLW
  <2>1. \A k \in 1 .. n + 1 : k \in 1 .. n \/ k = n + 1
    BY <1>1
  <2> QED BY <1>2, <2>1 DEF FrameInv, n
<1>6. Len(ctx') - 1 = n
  BY <1>1
<1>7. SleeperFrames'
  BY DEF FrameInv, SleeperFrames
<1>8. ~Asleep'
  BY <1>3 DEF Asleep
<1> QED BY <1>2, <1>3, <1>4, <1>5, <1>6, <1>7, <1>8 DEF FrameInv

\* A program ends, or falls asleep.
LEMMA LeaveFrames ==
    ASSUME IInv, FrameInv, Compiled, act # <<>>, NEW r \in TopRegs, UNCHANGED saved,
           AbortExec(r) \/ \E a \in AmxType : SleepExec(r, a) /\ a.error = amx.error
                                              /\ Rests(mem', a.cip, a.stk, Regs.reset_stk)
    PROVE  FrameInv'
<1> DEFINE n == Len(act)
<1>1. /\ n \in Nat /\ n >= 1 /\ n <= Len(ctx) /\ act \in Seq(RegsType) /\ Len(ctx) \in Nat
      /\ act' = SubSeq(act, 1, n - 1)
  <2>1. AbortExec(r) \/ \E a \in AmxType : SleepExec(r, a)
    OBVIOUS
  <2>2. act' = SubSeq(act, 1, Len(act) - 1)
    BY <2>1 DEF AbortExec, SleepExec
  <2> QED BY <2>2 DEF IInv, TypeOK, Shape
<1>2. /\ InCaller' /\ LeavesCallers /\ amx'.error = amx.error
      /\ Asleep' => Rests(mem', amx'.cip, amx'.stk, Regs.reset_stk)
  <2>1. CASE AbortExec(r)
    BY <2>1, EndFacts DEF Asleep
  <2>2. ASSUME NEW a \in AmxType, SleepExec(r, a), a.error = amx.error,
               Rests(mem', a.cip, a.stk, Regs.reset_stk)
        PROVE  /\ InCaller' /\ LeavesCallers /\ amx'.error = amx.error
               /\ Rests(mem', amx'.cip, amx'.stk, Regs.reset_stk)
    BY <2>2, EndFacts
  <2> QED BY <2>1, <2>2
<1>3. Len(act') = n - 1 /\ \A k \in 1 .. n - 1 : act'[k] = act[k]
  <2>1. n - 1 \in 0 .. Len(act)
    BY <1>1
  <2> HIDE DEF n
  <2> QED BY <1>1, <2>1, PrefixSeq
<1>4. Len(ctx') = n /\ \A k \in 1 .. n : ctx'[k].stk = ctx[k].stk /\ ctx'[k].mem = ctx[k].mem
  BY <1>2 DEF LeavesCallers
<1>5. Regs.reset_stk = ctx[n].stk
  BY <1>1 DEF IInv, ResetsMatch, Regs
<1>6. \A k \in 1 .. n - 1 : Waits(act'[k], ctx'[k + 1])
  <2> SUFFICES ASSUME NEW k \in 1 .. n - 1 PROVE Waits(act'[k], ctx'[k + 1])
    OBVIOUS
  <2>1. k \in 1 .. Len(ctx) - 1 /\ k + 1 \in 1 .. n
    BY <1>1
  <2>2. Waits(act[k], ctx[k + 1])
    BY <2>1 DEF FrameInv
  <2>3. act'[k] = act[k] /\ ctx'[k + 1].stk = ctx[k + 1].stk /\ ctx'[k + 1].mem = ctx[k + 1].mem
    BY <1>3, <1>4, <2>1
  <2> QED BY <2>2, <2>3 DEF Waits
<1>7. \A k \in 1 .. n - 1 : act'[k].hea >= HLW
  <2>1. \A k \in 1 .. n - 1 : k \in 1 .. n
    BY <1>1
  <2> QED BY <1>3, <2>1 DEF FrameInv
<1>8. ~Running' /\ Caller' = ctx'[n] /\ ctx'[n].stk = ctx[n].stk
  BY <1>1, <1>3, <1>4
<1>9. SleeperFrames'
  BY DEF FrameInv, SleeperFrames
<1> HIDE DEF n
<1> QED BY <1>2, <1>3, <1>4, <1>5, <1>6, <1>7, <1>8, <1>9 DEF FrameInv

\* A program goes on.
LEMMA GoFrames ==
    ASSUME IInv, FrameInv, act # <<>>, NEW r \in TopRegs, act' = [act EXCEPT ![Len(act)] = r],
           Len(ctx') = Len(act), \A k \in 1 .. Len(act) : ctx'[k] = ctx[k],
           Sits(mem', r), r.hea >= HLW, UNCHANGED saved, amx'.error = amx.error
    PROVE  FrameInv'
<1> DEFINE n == Len(act)
<1>1. n \in Nat /\ n >= 1 /\ n <= Len(ctx) /\ act \in Seq(RegsType) /\ r \in RegsType
      /\ Len(ctx) \in Nat
  BY DEF IInv, TypeOK, Shape, TopRegs
<1>2. /\ Len(act') = n /\ \A k \in 1 .. n : act'[k] = IF k = n THEN r ELSE act[k]
  BY <1>1, ExceptSeq
<1> HIDE DEF n
<1>3. ~InCaller' /\ Regs' = r
  BY <1>1, <1>2 DEF Regs, n
<1>4. \A k \in 1 .. n - 1 : Waits(act'[k], ctx'[k + 1])
  <2> SUFFICES ASSUME NEW k \in 1 .. n - 1 PROVE Waits(act'[k], ctx'[k + 1])
    OBVIOUS
  <2>1. k \in 1 .. Len(ctx) - 1 /\ k + 1 \in 1 .. n /\ k \in 1 .. n /\ k # n
    BY <1>1
  <2>2. Waits(act[k], ctx[k + 1])
    BY <2>1 DEF FrameInv
  <2> QED BY <1>2, <2>1, <2>2 DEF n
<1>5. \A k \in 1 .. n : act'[k].hea >= HLW
  BY <1>2 DEF FrameInv, n
<1>6. SleeperFrames' /\ ~Asleep'
  BY <1>3 DEF FrameInv, SleeperFrames, Asleep
<1> QED BY <1>2, <1>3, <1>4, <1>5, <1>6 DEF FrameInv, n

\* A step of the caller in control that starts and ends nothing.
LEMMA StayFrames ==
    ASSUME IInv, FrameInv, InCaller, act' = act, SameCallers, UNCHANGED saved,
           amx'.error # "SLEEP",
           Asleep => /\ UNCHANGED mem /\ amx'.cip = amx.cip /\ amx'.stk = amx.stk
    PROVE  FrameInv'
<1>1. Len(act) \in Nat /\ Len(ctx) = Len(act) + 1
  BY CallerFacts
<1>2. /\ InCaller' /\ (Asleep' <=> Asleep) /\ Caller'.stk = Caller.stk /\ ~Running'
  BY <1>1 DEF SameCallers, Asleep
<1>3. \A k \in 1 .. Len(ctx') - 1 : Waits(act'[k], ctx'[k + 1])
  <2> SUFFICES ASSUME NEW k \in 1 .. Len(ctx) - 1 PROVE Waits(act[k], ctx'[k + 1])
    BY DEF SameCallers
  <2>1. k + 1 \in 1 .. Len(ctx)
    BY <1>1
  <2>2. Waits(act[k], ctx[k + 1])
    BY DEF FrameInv
  <2>3. ctx'[k + 1].stk = ctx[k + 1].stk /\ ctx'[k + 1].mem = ctx[k + 1].mem
    BY <2>1 DEF SameCallers
  <2> QED BY <2>2, <2>3 DEF Waits
<1>4. Asleep' => Rests(mem', amx'.cip, amx'.stk, Caller'.stk)
  <2> SUFFICES ASSUME Asleep PROVE Rests(mem', amx'.cip, amx'.stk, Caller'.stk)
    BY <1>2
  <2>1. mem' = mem /\ amx'.cip = amx.cip /\ amx'.stk = amx.stk
    OBVIOUS
  <2>2. Rests(mem, amx.cip, amx.stk, Caller.stk)
    BY DEF FrameInv
  <2> QED BY <1>2, <2>1, <2>2
<1>5. SleeperFrames'
  BY DEF FrameInv, SleeperFrames
<1> QED BY <1>2, <1>3, <1>4, <1>5 DEF FrameInv

-----------------------------------------------------------------------------
(* One lemma per group of actions.                                         *)

LEMMA InterpretFrames ==
    ASSUME IInv, FrameInv, Compiled, Interpret
    PROVE  FrameInv'
<1>1. /\ Running /\ UNCHANGED saved /\ act # <<>> /\ Regs \in TopRegs /\ amx \in AmxType
      /\ GoesOn \/ Falls \/ Hooked
  BY InterpretSteps, RunningFacts
<1>2. Regs.stk \in Int /\ Regs.hea \in Int /\ Regs.cip \in Int /\ Regs.cip + 1 \in Int
      /\ Regs.frm \in Int
  <2>1. Regs.stk \in Int /\ Regs.hea \in Int /\ Regs.cip \in Int /\ Regs.frm \in Int
    BY <1>1, TopRegsInt
  <2> QED BY <2>1
<1>3. Len(act) \in 1 .. Len(act) /\ Len(ctx) = Len(act)
  BY <1>1 DEF IInv, TypeOK
<1>4. Sits(mem, Regs) /\ Regs.hea >= HLW
  BY <1>1, <1>3 DEF FrameInv, Regs
\* No instruction touches amx->error.
<1>5. \A a \in AmxType : SleepExec(Regs, a) => amx'.error = a.error
  BY <1>1, EndFacts
<1>6. amx'.error = amx.error
  <2>1. CASE GoesOn
    BY <1>1, <2>1, EndFacts DEF GoesOn, Run
  <2>2. CASE Falls
    <3> DEFINE a == [amx EXCEPT !.stk = Regs.stk, !.hea = Regs.hea, !.cip = Regs.cip + 1]
    <3>1. a \in AmxType /\ a.error = amx.error
      BY <1>1, <1>2 DEF AmxType
    <3>2. SleepExec(Regs, a)
      BY <2>2 DEF Falls
    <3> HIDE DEF a
    <3> QED BY <1>5, <3>1, <3>2
  <2>3. CASE Hooked
    <3>1. SaveRegs(Regs) \in AmxType /\ SaveRegs(Regs).error = amx.error
      BY <1>1, <1>2 DEF SaveRegs, AmxType
    <3> QED BY <1>5, <2>3, <3>1 DEF Hooked
  <2> QED BY <1>1, <2>1, <2>2, <2>3
<1>7. Proceeds \/ Aborts \/ Pauses
  BY <1>4, InstrFrames
<1>8. CASE Proceeds
  <2>1. PICK r \in TopRegs : /\ act' = [act EXCEPT ![Len(act)] = r] /\ ctx' = ctx
                             /\ Sits(mem', r) /\ r.hea >= HLW
    BY <1>8 DEF Proceeds
  <2>2. Len(ctx') = Len(act) /\ \A k \in 1 .. Len(act) : ctx'[k] = ctx[k]
    BY <1>3, <2>1
  <2> QED BY <1>1, <1>6, <2>1, <2>2, GoFrames
<1>9. CASE Aborts
  BY <1>1, <1>9, LeaveFrames DEF Aborts
<1>10. CASE Pauses
  <2>1. PICK a \in AmxType : SleepExec(Regs, a) /\ Rests(mem', a.cip, a.stk, Regs.reset_stk)
    BY <1>10 DEF Pauses
  <2>2. a.error = amx.error
    BY <1>5, <1>6, <2>1
  <2> QED BY <1>1, <2>1, <2>2, LeaveFrames
<1> QED BY <1>7, <1>8, <1>9, <1>10

LEMMA ExecFrames ==
    ASSUME IInv, FrameInv, Compiled, NEW entry \in Publics \cup {MainEntry}, Exec(entry)
    PROVE  FrameInv'
<1> DEFINE check == EntryCheck(FALSE)
           start == [cip |-> entry, frm |-> 0, hea |-> amx.hea, stk |-> amx.stk - 2,
                     reset_stk |-> amx.stk + amx.paramcount, reset_hea |-> amx.hea]
           m == [a \in Addr |-> CASE a = amx.stk - 1 -> amx.paramcount
                                  [] a = amx.stk - 2 -> 0
                                  [] OTHER -> mem[a]]
           x == amx.stk - 3
<1>1. /\ InCaller /\ Caller.status = "ready" /\ UNCHANGED <<ctx, saved>>
      /\ check = "NONE" => act' = Append(act, start) /\ mem' = m
      /\ check # "NONE" => UNCHANGED <<act, mem>>
      /\ amx'.error = amx.error
  <2>1. InCaller /\ amx'.error = amx.error
    <3>1. ApiCall
      BY DEF ApiCall
    <3> QED BY <3>1, ApiSteps
  <2> QED BY <2>1 DEF Exec
<1>2. /\ amx.stk \in Int /\ amx.hea \in Int /\ amx.paramcount \in Nat /\ entry \in Int
      /\ HLW \in Int /\ STP \in Int /\ STKMARGIN \in Nat
  BY <1>1, CallerFacts, CodeAssumption, MachineAssumption
<1>3. CASE check = "NONE"
  <2>1. amx.stk <= STP /\ amx.hea >= HLW /\ amx.hea + STKMARGIN <= amx.stk - 2
    BY <1>2, <1>3 DEF EntryCheck
  <2>2. /\ x \in Int /\ x + 1 \in Addr /\ x + 2 \in Addr /\ x + 1 = amx.stk - 2
        /\ x + 2 = amx.stk - 1 /\ x + 1 # x + 2 /\ x + 3 = amx.stk /\ amx.stk - 2 - 1 = x
    BY <1>2, <2>1 DEF Addr
  <2>3. mem' = m
    BY <1>1, <1>3
  <2>4. m[x + 1] = 0 /\ m[x + 2] = amx.paramcount
    <3>1. amx.stk - 2 # amx.stk - 1
      BY <1>2
    <3> QED BY <2>2, <3>1
  <2>5. x + 3 + m[x + 2] = amx.stk + amx.paramcount /\ m[x + 2] \in Nat
    BY <1>2, <2>2, <2>4
  <2> HIDE DEF m, x
  <2>6. Entering(m, 0, x, "RETN", amx.stk + amx.paramcount)
    BY <2>2, <2>4, <2>5, FirstFrame
  <2>7. entry \in Live /\ Depth[entry] = -1 /\ Exit[entry] = "RETN"
    BY TypingFacts DEF Entries
  <2>8. Sits(mem', start)
    BY <2>2, <2>3, <2>6, <2>7 DEF Sits
  <2>9. start \in RegsType /\ start.hea >= HLW
    BY <1>2, <2>1 DEF RegsType
  <2>10. act' = Append(act, start)
    BY <1>1, <1>3
  <2> HIDE DEF start
  <2> QED BY <1>1, <2>8, <2>9, <2>10, BeginFrames
<1>4. CASE check # "NONE"
  <2>1. act' = act /\ SameCallers /\ ~Asleep
    BY <1>1, <1>4 DEF SameCallers, Asleep
  <2> QED BY <1>1, <2>1, StayFrames DEF FrameInv
<1> QED BY <1>3, <1>4

LEMMA ApiFrames ==
    ASSUME IInv, FrameInv, Compiled, ApiCall
    PROVE  FrameInv'
<1>1. CASE \E entry \in Publics \cup {MainEntry} : Exec(entry)
  BY <1>1, ExecFrames
<1>2. CASE ~\E entry \in Publics \cup {MainEntry} : Exec(entry)
  <2>1. /\ InCaller /\ Caller.status = "ready" /\ SameCallers /\ UNCHANGED saved
        /\ amx'.error = amx.error
    BY ApiSteps
  <2>2. act' = act
    BY <1>2 DEF ApiCall, Push, Allot, PushArray, Release
  <2> QED BY <2>1, <2>2, StayFrames DEF FrameInv, Asleep
<1> QED BY <1>1, <1>2

LEMMA ContinueFrames ==
    ASSUME IInv, FrameInv, Compiled, Continue
    PROVE  FrameInv'
<1> DEFINE c == [Caller EXCEPT !.status = "ready", !.slept = Awake]
           a == [amx EXCEPT !.stk = amx.reset_stk, !.hea = amx.reset_hea, !.cip = @ - 1]
           n == Len(ctx)
<1>1. /\ InCaller /\ Caller.status = "asleep" /\ UNCHANGED <<mem, saved>>
      /\ ctx' = [ctx EXCEPT ![n] = c]
      /\ \/ EntryCheck(TRUE) = "NONE" /\ act' = Append(act, ResumeRegs) /\ amx' = amx
         \/ amx' = a /\ act' = act
  <2>1. /\ InCaller /\ Caller.status = "asleep" /\ UNCHANGED <<mem, saved>>
        /\ ctx' = [ctx EXCEPT ![n] = c]
    BY DEF Continue
  <2>2. CASE EntryCheck(TRUE) = "NONE"
    BY <2>1, <2>2 DEF Continue
  <2>3. CASE EntryCheck(TRUE) # "NONE"
    BY <2>1, <2>3 DEF Continue
  <2> QED BY <2>1, <2>2, <2>3
<1>2. /\ amx \in AmxType /\ ctx \in Seq(CtxType) /\ Caller \in CtxType
      /\ Len(act) \in Nat /\ n = Len(act) + 1
  BY <1>1, CallerFacts
<1>3. c \in CtxType /\ c.stk = Caller.stk /\ c.mem = Caller.mem /\ c.status = "ready"
  BY <1>2, AwakeType DEF CtxType
<1> HIDE DEF c
<1>4. /\ Len(ctx') = n /\ \A k \in 1 .. n : ctx'[k] = IF k = n THEN c ELSE ctx[k]
  <2>1. ctx \in Seq(CtxType) /\ n = Len(ctx) /\ n \in 1 .. n /\ c \in CtxType
    BY <1>2, <1>3
  <2>2. ctx' = [ctx EXCEPT ![n] = c]
    BY <1>1
  <2> HIDE DEF n
  <2> QED BY <2>1, <2>2
<1>5. \A k \in 1 .. n : ctx'[k].stk = ctx[k].stk /\ ctx'[k].mem = ctx[k].mem
  BY <1>3, <1>4
<1>6. amx'.error = amx.error
  BY <1>1, <1>2 DEF AmxType
<1>7. CASE EntryCheck(TRUE) = "NONE" /\ act' = Append(act, ResumeRegs) /\ amx' = amx
  <2>1. amx.reset_stk = Caller.stk
    BY <1>1, CallerBalance DEF Balance, SleepOk
  <2>2. /\ ResumeRegs \in RegsType /\ ResumeRegs.cip = amx.cip /\ ResumeRegs.stk = amx.stk
        /\ ResumeRegs.hea = amx.hea /\ ResumeRegs.reset_stk = Caller.stk
    BY <1>2, <2>1 DEF ResumeRegs, RegsType, AmxType
  <2>3. Rests(mem, amx.cip, amx.stk, Caller.stk)
    BY <1>1 DEF FrameInv, Asleep
  <2>4. Sits(mem', ResumeRegs)
    BY <1>1, <2>2, <2>3 DEF Sits, Rests
  <2>5. amx.hea >= HLW
    BY <1>2, <1>7, MachineAssumption DEF EntryCheck, AmxType
  <2> QED BY <1>1, <1>4, <1>5, <1>6, <1>7, <2>2, <2>4, <2>5, BeginFrames
<1>8. CASE act' = act
  <2>1. InCaller' /\ ~Running' /\ Caller' = c /\ ~Asleep'
    BY <1>2, <1>3, <1>4, <1>8 DEF Asleep
  <2>2. \A k \in 1 .. Len(ctx') - 1 : Waits(act'[k], ctx'[k + 1])
    <3> SUFFICES ASSUME NEW k \in 1 .. n - 1 PROVE Waits(act[k], ctx'[k + 1])
      BY <1>4, <1>8
    <3>1. k \in 1 .. Len(ctx) - 1 /\ k + 1 \in 1 .. n
      BY <1>2
    <3>2. Waits(act[k], ctx[k + 1])
      BY <3>1 DEF FrameInv
    <3> QED BY <1>5, <3>1, <3>2 DEF Waits
  <2>3. SleeperFrames'
    BY <1>1 DEF FrameInv, SleeperFrames
  <2> QED BY <1>6, <1>8, <2>1, <2>2, <2>3 DEF FrameInv
<1> QED BY <1>1, <1>7, <1>8

\* The copy begins with the sleeper asleep; it finds its frames again.
LEMMA CopyFrames ==
    ASSUME IInv, MemoryInv, FrameInv, Compiled, HostCopy \/ HostDrop
    PROVE  FrameInv'
<1>1. Len(ctx') = 1 /\ act' = act /\ act = <<>> /\ mem' = mem /\ Len(act) = 0
  BY DEF HostCopy, HostDrop
<1>2. InCaller' /\ ~Running' /\ Caller' = ctx'[1]
  BY <1>1
<1>3. CASE HostCopy
  <2>1. /\ Asleep /\ amx' = amx /\ ctx' = <<NewCaller(amx.stk, amx.hea, mem, TRUE, Caller.heard)>>
        /\ saved' = <<[amx |-> amx, ctx |-> Caller, mem |-> mem]>>
    <3>1. InCaller
      BY <1>1 DEF IInv, Shape
    <3> QED BY <1>3, <3>1 DEF HostCopy, Asleep
  <2>2. saved'[1].amx = amx /\ saved'[1].ctx = Caller /\ saved'[1].mem = mem
    BY <2>1
  <2>3. Rests(mem, amx.cip, amx.stk, Caller.stk)
    BY <2>1 DEF FrameInv
  <2>4. SleeperFrames'
    BY <2>2, <2>3 DEF SleeperFrames, FrameInv
  <2>5. ~Asleep' /\ ctx'[1].stk = amx.stk
    BY <1>2, <2>1 DEF Asleep, NewCaller
  <2>6. amx' = amx
    BY <2>1
  <2> QED BY <1>1, <1>2, <2>4, <2>5, <2>6 DEF FrameInv
<1>4. CASE HostDrop
  <2>1. saved # <<>> /\ amx' = saved[1].amx /\ ctx' = <<saved[1].ctx>> /\ saved' = <<>>
    BY <1>4 DEF HostDrop
  <2>2. /\ Rests(saved[1].mem, saved[1].amx.cip, saved[1].amx.stk, saved[1].ctx.stk)
        /\ saved[1].amx.error # "SLEEP"
    BY <2>1 DEF FrameInv, SleeperFrames
  <2>3. \A a \in Addr : a >= saved[1].amx.stk => mem[a] = saved[1].mem[a]
    BY <2>1 DEF MemoryInv, SleeperInv
  <2>4. saved[1].amx.stk \in Int
    BY <2>1, SavedTypes DEF MemoryInv
  <2>5. Rests(mem, saved[1].amx.cip, saved[1].amx.stk, saved[1].ctx.stk)
    BY <2>2, <2>3, <2>4, RestsKept
  <2>6. Caller'.stk = saved[1].ctx.stk
    BY <1>2, <2>1
  <2>7. SleeperFrames'
    BY <2>1 DEF SleeperFrames
  <2> QED BY <1>1, <1>2, <2>1, <2>2, <2>5, <2>6, <2>7 DEF FrameInv
<1> QED BY <1>3, <1>4

\* The native's program waits, with the frames it had.
LEMMA SysreqFrames ==
    ASSUME IInv, FrameInv, Compiled, Sysreq
    PROVE  FrameInv'
<1> DEFINE n == Len(act)
           p == Regs.cip
           r == IF Instr.op = "SYSREQ_N" THEN [Regs EXCEPT !.stk = @ - 1] ELSE Regs
           c == NewCaller(r.stk, r.hea, mem', Regs.cip \notin patched, {})
<1>1. /\ Running /\ act # <<>> /\ UNCHANGED saved /\ KeptFrom(Regs.stk) /\ Regs \in TopRegs
      /\ Regs.stk \in Int /\ amx \in AmxType /\ Instr = Code[p]
      /\ Instr.op \in {"SYSREQ_C", "SYSREQ_N"}
  BY SysreqSteps, RunningFacts, TopRegsInt DEF Sysreq, At, Instr
<1>2. /\ n \in Nat /\ n >= 1 /\ Len(ctx) = n /\ act \in Seq(RegsType) /\ ctx \in Seq(CtxType)
      /\ n \in 1 .. n
  BY <1>1 DEF IInv, TypeOK
<1>3. Within(mem, p, Regs.stk, Regs.reset_stk) /\ Regs.hea >= HLW
  <2>1. ~(p = 0) /\ ~(p \in Live /\ Depth[p] = -1)
    BY <1>1, TypingFacts, HeadFacts
  <2>2. Sits(mem, Regs)
    BY <1>1 DEF FrameInv
  <2>3. Regs.hea >= HLW
    BY <1>2 DEF FrameInv, Regs
  <2> QED BY <2>1, <2>2, <2>3 DEF Sits
<1>4. /\ r \in TopRegs /\ r.cip = p /\ r.hea = Regs.hea /\ r.reset_stk = Regs.reset_stk
      /\ Regs.stk = IF Instr.op = "SYSREQ_N" THEN r.stk + 1 ELSE r.stk
  <2>1. CASE Instr.op = "SYSREQ_N"
    <3>1. Regs.stk - 1 \in Int
      BY <1>1
    <3>2. r = [Regs EXCEPT !.stk = Regs.stk - 1]
      BY <2>1
    <3>3. r \in TopRegs /\ r.cip = p /\ r.hea = Regs.hea /\ r.stk = Regs.stk - 1
      BY <1>1, <3>1, <3>2, TopRegsSet DEF TopRegs, RegsType
    <3> HIDE DEF r
    <3> QED BY <1>1, <2>1, <3>3 DEF TopRegs
  <2>2. CASE Instr.op # "SYSREQ_N"
    BY <1>1, <2>2
  <2> QED BY <2>1, <2>2
<1>5. \/ /\ amx' = [SaveRegs(r) EXCEPT !.error = IF Regs.cip \in patched THEN @ ELSE "NONE"]
         /\ act' = [act EXCEPT ![n] = r] /\ ctx' = Append(ctx, c)
      \/ AbortExec(r)
  BY DEF Sysreq
<1> HIDE DEF r
<1>6. CASE AbortExec(r)
  BY <1>1, <1>4, <1>6, LeaveFrames
<1>7. CASE /\ amx' = [SaveRegs(r) EXCEPT !.error = IF Regs.cip \in patched THEN @ ELSE "NONE"]
           /\ act' = [act EXCEPT ![n] = r] /\ ctx' = Append(ctx, c)
  <2>1. amx'.error = amx.error \/ amx'.error = "NONE"
    BY <1>1, <1>7 DEF SaveRegs, AmxType
  <2>2. c.stk = r.stk /\ c.mem = mem' /\ c.status = "ready"
    BY DEF NewCaller
  <2> HIDE DEF c
  <2>3. /\ Len(ctx') = n + 1 /\ ctx'[n + 1] = c /\ \A k \in 1 .. n : ctx'[k] = ctx[k]
    BY <1>2, <1>7
  <2>4. /\ Len(act') = n /\ \A k \in 1 .. n : act'[k] = IF k = n THEN r ELSE act[k]
    BY <1>2, <1>4, <1>7, ExceptSeq DEF TopRegs
  <2>5. Waits(r, c)
    <3>1. Within(mem', p, Regs.stk, Regs.reset_stk)
      <4>1. \A a \in Addr : a >= Regs.stk => mem'[a] = mem[a]
        BY <1>1 DEF KeptFrom
      <4>2. p \in Live /\ Depth[p] >= 0
        BY <1>3 DEF Within
      <4>3. Depth[p] \in Int /\ Regs.stk + Depth[p] = Regs.stk + Depth[p]
        BY <4>2, TypingFacts
      <4> HIDE DEF p
      <4> QED BY <1>1, <1>3, <4>1, <4>2, <4>3, WithinKept
    <3>2. p \in Live
      BY <1>3 DEF Within
    <3> HIDE DEF p
    <3> QED BY <1>1, <1>4, <2>2, <3>1, <3>2 DEF Waits
  <2>6. \A k \in 1 .. n : Waits(act'[k], ctx'[k + 1])
    <3> SUFFICES ASSUME NEW k \in 1 .. n PROVE Waits(act'[k], ctx'[k + 1])
      OBVIOUS
    <3>1. CASE k = n
      BY <1>2, <2>3, <2>4, <2>5, <3>1
    <3>2. CASE k # n
      <4>1. k \in 1 .. Len(ctx) - 1 /\ k + 1 \in 1 .. n
        BY <1>2, <3>2
      <4>2. Waits(act[k], ctx[k + 1])
        BY <4>1 DEF FrameInv
      <4> HIDE DEF n
      <4> QED BY <2>3, <2>4, <3>2, <4>1, <4>2
    <3> QED BY <3>1, <3>2
  <2>7. \A k \in 1 .. n : act'[k].hea >= HLW
    BY <1>3, <1>4, <2>4 DEF FrameInv
  <2>8. ~Running' /\ ~Asleep'
    BY <1>2, <2>2, <2>3, <2>4 DEF Asleep
  <2>9. SleeperFrames' /\ Len(ctx') - 1 = n
    BY <1>1, <1>2, <2>3 DEF FrameInv, SleeperFrames
  <2>10. Len(act') = n /\ amx'.error # "SLEEP"
    BY <2>1, <2>4 DEF FrameInv
  <2> HIDE DEF n
  <2>11. \A k \in 1 .. Len(act') : act'[k].hea >= HLW
    BY <2>7, <2>10
  <2>12. \A k \in 1 .. Len(ctx') - 1 : Waits(act'[k], ctx'[k + 1])
    BY <2>6, <2>9
  <2> QED BY <2>8, <2>9, <2>10, <2>11, <2>12 DEF FrameInv
<1> QED BY <1>5, <1>6, <1>7

\* The program finds the frames it left when it called the native.
LEMMA NativeReturnFrames ==
    ASSUME IInv, MemoryInv, FrameInv, Compiled, NativeReturn
    PROVE  FrameInv'
<1> DEFINE n == Len(act)
           p == Regs.cip
           r == IF Instr.op = "SYSREQ_N" THEN [Regs EXCEPT !.stk = @ + Instr.n + 1] ELSE Regs
<1>1. /\ InCaller /\ act # <<>> /\ UNCHANGED <<mem, saved>>
      /\ \/ amx' = amx /\ act' = [act EXCEPT ![n] = Next1(r)] /\ ctx' = SubSeq(ctx, 1, n)
         \/ AbortExec(r)
  BY DEF NativeReturn, FrameInv
<1>2. /\ Regs \in TopRegs /\ act \in Seq(RegsType) /\ ctx \in Seq(CtxType) /\ Regs = act[n]
      /\ n \in Nat /\ n >= 1 /\ Len(ctx) = n + 1 /\ Instr = Code[p] /\ Regs.stk \in Int
      /\ n \in 1 .. Len(ctx) - 1 /\ n + 1 \in 1 .. Len(ctx) /\ n \in 1 .. n
  <2>1. /\ Regs \in TopRegs /\ act \in Seq(RegsType) /\ ctx \in Seq(CtxType) /\ Regs = act[n]
        /\ n \in Nat /\ n >= 1 /\ Len(ctx) = n + 1 /\ Instr = Code[p]
    BY <1>1 DEF IInv, TypeOK, TopRegs, Regs, Instr
  <2> QED BY <2>1, TopRegsInt
<1>3. Waits(Regs, ctx[n + 1])
  <2> HIDE DEF n
  <2> QED BY <1>2 DEF FrameInv
<1>4. /\ p \in Live /\ Instr.op \in {"SYSREQ_C", "SYSREQ_N"} /\ Instr.n \in Int
      /\ ctx[n + 1].stk = Regs.stk /\ Depth[p] \in Int
  BY <1>2, <1>3, TypingFacts, CodeAssumption DEF Waits
<1> DEFINE s == IF Instr.op = "SYSREQ_N" THEN Regs.stk + 1 ELSE Regs.stk
           d == IF Instr.op = "SYSREQ_N" THEN Depth[p] - Instr.n ELSE Depth[p]
<1>5. Within(ctx[n + 1].mem, p, s, Regs.reset_stk) /\ s \in Int /\ s >= Regs.stk
  BY <1>2, <1>3, <1>4 DEF Waits
<1>6. Joins(p + 1, d, Exit[p])
  BY <1>2, <1>4, <1>5, InstrFacts DEF Within
<1>7. /\ r \in TopRegs /\ r.cip = p /\ r.hea = Regs.hea /\ r.stk \in Int
      /\ r.stk + d = s + Depth[p] /\ r.reset_stk = Regs.reset_stk
  <2>1. CASE Instr.op = "SYSREQ_N"
    <3>1. Regs.stk + Instr.n + 1 \in Int
      BY <1>2, <1>4
    <3>2. r = [Regs EXCEPT !.stk = Regs.stk + Instr.n + 1]
      BY <2>1
    <3>3. r \in TopRegs /\ r.cip = p /\ r.hea = Regs.hea /\ r.stk = Regs.stk + Instr.n + 1
      BY <1>2, <3>1, <3>2, TopRegsSet DEF TopRegs, RegsType
    <3> HIDE DEF r
    <3>4. r.stk + d = s + Depth[p]
      BY <1>2, <1>4, <2>1, <3>3
    <3> QED BY <3>1, <3>3, <3>4 DEF TopRegs
  <2>2. CASE Instr.op # "SYSREQ_N"
    BY <1>2, <2>2
  <2> QED BY <2>1, <2>2
<1> HIDE DEF r, s, d
<1>8. CASE AbortExec(r)
  BY <1>1, <1>7, <1>8, LeaveFrames
<1>9. CASE amx' = amx /\ act' = [act EXCEPT ![n] = Next1(r)] /\ ctx' = SubSeq(ctx, 1, n)
  <2>1. /\ Next1(r) \in TopRegs /\ Next1(r).cip = p + 1 /\ Next1(r).stk = r.stk
        /\ Next1(r).hea = r.hea /\ Next1(r).reset_stk = Regs.reset_stk
    BY <1>7, NextRegs DEF TopRegs
  <2>2. \A a \in Addr : a >= s => mem'[a] = ctx[n + 1].mem[a]
    <3>1. \A a \in Addr : a >= ctx[n + 1].stk => mem[a] = ctx[n + 1].mem[a]
      BY <1>2 DEF MemoryInv, CallersInv
    <3>2. \A a \in Addr : a >= s => a >= Regs.stk
      BY <1>2, <1>5, MachineAssumption DEF Addr
    <3> QED BY <1>1, <1>4, <3>1, <3>2
  <2>3. /\ p + 1 \in Live /\ Depth[p + 1] = d /\ d >= 0 /\ Exit[p + 1] = Exit[p]
        /\ ~Expects(p + 1)
    BY <1>6 DEF Joins
  <2>4. Within(mem', p + 1, r.stk, Regs.reset_stk)
    <3> HIDE DEF p
    <3> QED BY <1>5, <1>7, <2>2, <2>3, WithinKept
  <2>5. Sits(mem', Next1(r))
    BY <2>1, <2>3, <2>4 DEF Sits
  <2>6. Len(ctx') = Len(act) /\ \A k \in 1 .. Len(act) : ctx'[k] = ctx[k]
    <3>1. n \in 0 .. Len(ctx) /\ ctx' = SubSeq(ctx, 1, n)
      BY <1>2, <1>9
    <3> HIDE DEF n
    <3> QED BY <1>2, <3>1, PrefixSeq DEF n
  <2>7. r.hea >= HLW
    BY <1>2, <1>7 DEF FrameInv
  <2> QED BY <1>1, <1>9, <2>1, <2>5, <2>6, <2>7, GoFrames
<1> QED BY <1>1, <1>8, <1>9

(***************************************************************************)
(* A native that asks for a sleep leaves in the AMX whatever was there     *)
(* last: the place of its own call or, after a program it ran, of that     *)
(* one.  A resume would begin there, so this is left out.                  *)
(***************************************************************************)
NativesAwake == "SLEEP" \notin NativeErrors

LEMMA FrameStep ==
    ASSUME IInv, MemoryInv, FrameInv, Compiled, NativesAwake, Next
    PROVE  FrameInv'
<1>1. ASSUME NEW e \in NativeErrors, RaiseError(e) PROVE FrameInv'
  <2>1. /\ InCaller /\ SameCallers /\ act' = act /\ UNCHANGED <<mem, saved>>
        /\ amx'.stk = amx.stk /\ amx'.cip = amx.cip /\ amx'.error = e
    BY <1>1, RaiseSteps
  <2> QED BY <2>1, StayFrames DEF NativesAwake
<1> QED BY <1>1, ApiFrames, ContinueFrames, CopyFrames, InterpretFrames, SysreqFrames,
           NativeReturnFrames
        DEF Next, HostApi, ApiCall, Native

LEMMA FramesKept ==
    ASSUME ~BadIndex, ~HugeAllots, NativesAwake, Compiled
    PROVE  Spec => [](IInv /\ MemoryInv /\ FrameInv)
<1>1. Init => MemoryInv /\ FrameInv
  <2> SUFFICES ASSUME Init PROVE MemoryInv /\ FrameInv
    OBVIOUS
  <2>1. CallersInv
    BY MachineAssumption DEF Init, CallersInv, NewCaller
  <2>2. MemoryInv
    BY <2>1 DEF Init, MemoryInv, SleeperInv
  <2>3. FrameInv
    BY DEF Init, FrameInv, SleeperFrames, Asleep, NewCaller
  <2> QED BY <2>2, <2>3
<1>2. IInv /\ IInv' /\ MemoryInv /\ FrameInv /\ [Next]_vars => MemoryInv' /\ FrameInv'
  <2>1. ASSUME IInv, MemoryInv, FrameInv, UNCHANGED vars PROVE MemoryInv' /\ FrameInv'
    <3>1. MemoryInv'
      BY <2>1 DEF vars, MemoryInv, CallersInv, SleeperInv
    <3>2. Regs' = Regs /\ (Asleep' <=> Asleep) /\ (SleeperFrames' <=> SleeperFrames)
      BY <2>1 DEF vars, Regs, Asleep, SleeperFrames
    <3>3. FrameInv'
      BY <2>1, <3>2 DEF vars, FrameInv
    <3> QED BY <3>1, <3>3
  <2>2. ASSUME IInv, IInv', MemoryInv, FrameInv, Next PROVE MemoryInv' /\ FrameInv'
    BY <2>2, FrameOwnStack, MemoryStep, FrameStep
  <2> QED BY <2>1, <2>2
<1> QED BY <1>1, <1>2, InductiveInvariant, PTL DEF Spec

\* Compiled code, however deep its calls, whatever its natives run above it and
\* whatever events run while it sleeps, returns to the zero address only with
\* everything dropped that it pushed.
THEOREM CompiledReturnsClean ==
    ASSUME ~BadIndex, ~HugeAllots, NativesAwake, Compiled
    PROVE  Spec => []ReturnIsClean
<1>1. IInv /\ FrameInv => ReturnIsClean
  <2> SUFFICES ASSUME FrameInv, Running, Regs.cip = 0
               PROVE  Regs.stk = Regs.reset_stk /\ Regs.frm = 0
    BY DEF ReturnIsClean
  <2>1. Sits(mem, Regs)
    BY DEF FrameInv
  <2>2. 0 \notin Live
    BY TypingFacts
  <2> QED BY <2>1, <2>2 DEF Sits, Within
<1> QED BY <1>1, FramesKept, PTL

\* Compiled programs stay in their own part of the stack, so they leave those
\* underneath alone, without anything assumed of how they run.
THEOREM CompiledKeepsMemory ==
    ASSUME ~BadIndex, ~HugeAllots, NativesAwake, Compiled
    PROVE  Spec => []CallerMemoryIntact
<1>1. IInv /\ FrameInv => OwnStack
  BY FrameOwnStack
<1> QED BY <1>1, FramesKept, MemoryKept, PTL
=============================================================================
