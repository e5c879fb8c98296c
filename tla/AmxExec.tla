------------------------------ MODULE AmxExec ------------------------------
(***************************************************************************)
(* One abstract machine (struct tagAMX) and the C functions that drive it: *)
(* amx_Exec with its interpreter loop (amx_exec.c), amx_Callback and the   *)
(* host API amx_Push / amx_Allot / amx_Release / amx_RaiseError (amx.c),   *)
(* and the way pawnrun.c runs events on a copy of a sleeping machine.      *)
(*                                                                         *)
(* The C call stack is explicit.  act is the stack of running amx_Exec     *)
(* calls, each with the registers that live in C locals; ctx is the stack  *)
(* of their callers: the host program at the bottom, then one entry for    *)
(* every native function that is being called.  A caller is in control     *)
(* when ctx is one longer than act, the interpreter when they are equally  *)
(* long.                                                                   *)
(*                                                                         *)
(* Addresses are counted in cells.  Code addresses index instructions, so  *)
(* an operand never shows as an instruction; the byte layout is another    *)
(* module's subject.  Of the memory only cells that steer control          *)
(* are kept: return addresses, saved frames and argument counts.           *)
(***************************************************************************)
EXTENDS Integers, Sequences, FiniteSets

CONSTANTS
    Code,           \* address -> [op, n, dst, err]; address 0 holds HALT 0
    MainEntry,      \* hdr->cip
    Publics,        \* the addresses of the public functions
    HLW, STP,       \* bottom of the heap, top of the stack
    STKMARGIN,      \* 16 cells in amx_internal.h
    AllotSizes,     \* numbers of cells a caller passes to amx_Allot
    MaxParams,      \* bound: parameters pushed for one call
    MaxDepth,       \* bound: amx_Exec calls that are active at once
    NativeErrors,   \* what natives pass to amx_RaiseError
    HookResults,    \* what the debug hook returns
    BadIndex,       \* natives may call amx_Exec with an index not in the table
    HugeAllots,     \* callers may ask amx_Allot for more than the whole gap
    Relocate,       \* pointers fit in a cell: SYSREQ.C may be patched
    SleepCopies     \* the host runs events on a copy while amx sleeps

Errors == {"NONE", "EXIT", "STACKERR", "BOUNDS", "MEMACCESS", "INVINSTR", "INVSTATE",
           "STACKLOW", "HEAPLOW", "NATIVE", "DIVIDE", "SLEEP", "INDEX"}

ASSUME MachineAssumption ==
    /\ HLW \in Int /\ STP \in Int /\ HLW <= STP
    /\ STKMARGIN \in Nat /\ STKMARGIN >= 2

ASSUME CodeAssumption ==
    /\ DOMAIN Code \subseteq Int
    /\ \A a \in DOMAIN Code : Code[a] \in [op : STRING, n : Int, dst : Int, err : Errors]
    /\ Publics \cup {MainEntry} \subseteq DOMAIN Code

ASSUME CallerAssumption ==
    /\ AllotSizes \subseteq Nat
    /\ MaxParams \in Nat /\ MaxDepth \in Nat
    /\ NativeErrors \subseteq Errors /\ HookResults \subseteq Errors
    /\ {BadIndex, HugeAllots, Relocate, SleepCopies} \subseteq BOOLEAN

VARIABLES
    amx,        \* the fields of the AMX structure that change
    act,        \* activations of amx_Exec, outermost first
    ctx,        \* their callers, outermost first
    mem,        \* control cells of [HLW, STP]
    patched,    \* SYSREQ instructions that amx_Callback has patched
    saved       \* pawnrun's sleeping AMX while nested_amx is in use

vars == <<amx, act, ctx, mem, patched, saved>>

Addr == HLW .. STP

InCaller == Len(ctx) = Len(act) + 1
Running  == Len(act) = Len(ctx) /\ act # <<>>
Caller   == ctx[Len(ctx)]
Regs     == act[Len(act)]
Instr    == Code[Regs.cip]

\* A load from the stack; cells outside it carry no control data.
Cell(a) == IF a \in Addr THEN mem[a] ELSE 0
Store(a, v) == IF a \in Addr THEN [mem EXCEPT ![a] = v] ELSE mem

(***************************************************************************)
(* A caller's entry.  stk and hea are what the caller may expect to find   *)
(* in the AMX once its calls are over; the rest is history: the errors it  *)
(* raised itself or was told of by an amx_Exec that a native ended,        *)
(* whether amx->error was clear when it took over, the state of the        *)
(* program at the moment it went to sleep, and the memory at the start.    *)
(***************************************************************************)
Awake == [stk |-> 0, hea |-> 0, frm |-> 0, next |-> 0]
NewCaller(stk, hea, m, cleared, heard) ==
    [stk |-> stk, hea |-> hea, status |-> "ready", heard |-> heard,
     cleared |-> cleared, slept |-> Awake, mem |-> m]

Init ==
    /\ amx = [cip |-> 0, frm |-> 0, hea |-> HLW, stk |-> STP, paramcount |-> 0,
              error |-> "NONE", reset_stk |-> 0, reset_hea |-> 0]
    /\ act = <<>>
    /\ mem = [a \in Addr |-> 0]
    /\ ctx = <<NewCaller(STP, HLW, mem, TRUE, {})>>
    /\ patched = {}
    /\ saved = <<>>

-----------------------------------------------------------------------------
(* Leaving amx_Exec.                                                       *)

\* The error that amx_Exec hands on: the one its native left in the AMX.
HandedOn == IF InCaller THEN {amx.error} ELSE {}

\* The caller below the finished activation sees it complete or asleep.
Marked(c, status, slept) ==
    [c EXCEPT !.status = status, !.slept = slept, !.heard = @ \cup HandedOn]
SetCaller(c, status, slept) == [c EXCEPT ![Len(act)] = Marked(@, status, slept)]

\* abort_exec: every way out except a sleep.  r holds the C locals.
AbortExec(r) ==
    /\ amx' = [amx EXCEPT !.stk = r.reset_stk, !.hea = r.reset_hea,
                          !.frm = r.frm, !.cip = r.cip]
    /\ act' = SubSeq(act, 1, Len(act) - 1)
    /\ ctx' = SetCaller(SubSeq(ctx, 1, Len(act)), "ready", Awake)

\* What the program would have to resume with.
SleepPoint(r) == [stk |-> r.stk, hea |-> r.hea, frm |-> r.frm, next |-> r.cip + 1]

\* sysreq_err and its twins: the return with AMX_ERR_SLEEP.  Whatever else a
\* resume needs was stored before the call and is still taken from the AMX.
SleepExec(r, a) ==
    /\ amx' = [a EXCEPT !.reset_stk = r.reset_stk, !.reset_hea = r.reset_hea]
    /\ act' = SubSeq(act, 1, Len(act) - 1)
    /\ ctx' = SetCaller(SubSeq(ctx, 1, Len(act)), "asleep", SleepPoint(r))

\* Mutant: STK is not saved, so a nested program starts above this one's frames.
SaveRegsNoStk(r) == [amx EXCEPT !.cip = r.cip, !.hea = r.hea, !.frm = r.frm]

\* "save a few registers" ahead of a native function or the debug hook.
SaveRegs(r) ==
    [amx EXCEPT !.cip = r.cip, !.hea = r.hea, !.frm = r.frm, !.stk = r.stk]

-----------------------------------------------------------------------------
(* The host API.  Each function is available to the host and to natives.   *)

\* Mutant: the parameter count runs backwards.
PushMiscount ==
    /\ InCaller
    /\ Caller.status = "ready"
    /\ amx.paramcount < MaxParams
    /\ amx.hea + STKMARGIN <= amx.stk
    /\ amx' = [amx EXCEPT !.stk = @ - 1, !.paramcount = @ - 1]
    /\ mem' = Store(amx.stk - 1, 0)
    /\ UNCHANGED <<act, ctx, patched, saved>>

\* amx_Push; where the margin is too small it returns STACKERR unchanged.
Push ==
    /\ InCaller
    /\ Caller.status = "ready"
    /\ amx.paramcount < MaxParams
    /\ amx.hea + STKMARGIN <= amx.stk
    /\ amx' = [amx EXCEPT !.stk = @ - 1, !.paramcount = @ + 1]
    /\ mem' = Store(amx.stk - 1, 0)
    /\ UNCHANGED <<act, ctx, patched, saved>>

\* The room test of amx_Allot.  The C expression is unsigned: a request larger
\* than the gap wraps around and passes.
AllotFits(cells) ==
    LET room == amx.stk - amx.hea - cells IN room >= STKMARGIN \/ room < 0

\* What callers ask for.
Asked(cells) == cells <= amx.stk - amx.hea \/ HugeAllots

\* amx_Allot; the caller knows of the cells it now owns.
Allot(cells) ==
    /\ InCaller
    /\ Caller.status = "ready"
    /\ Asked(cells) /\ AllotFits(cells)
    /\ amx' = [amx EXCEPT !.hea = @ + cells]
    /\ ctx' = [ctx EXCEPT ![Len(ctx)].hea = @ + cells]
    /\ UNCHANGED <<act, mem, patched, saved>>

\* amx_PushArray and amx_PushString: an allotment whose address is pushed.
PushArray(cells) ==
    /\ InCaller
    /\ Caller.status = "ready"
    /\ amx.paramcount < MaxParams
    /\ Asked(cells) /\ AllotFits(cells)
    /\ amx' = [amx EXCEPT !.hea = @ + cells, !.stk = @ - 1, !.paramcount = @ + 1]
    /\ ctx' = [ctx EXCEPT ![Len(ctx)].hea = @ + cells]
    /\ mem' = Store(amx.stk - 1, amx.hea)
    /\ UNCHANGED <<act, patched, saved>>

\* amx_Release of cells this caller has allotted.
HeapBase == IF Len(act) = 0 THEN HLW ELSE Regs.hea
Release(addr) ==
    /\ InCaller
    /\ Caller.status = "ready"
    /\ addr \in HeapBase .. amx.hea - 1
    /\ amx' = [amx EXCEPT !.hea = addr]
    /\ ctx' = [ctx EXCEPT ![Len(ctx)].hea = addr]
    /\ UNCHANGED <<act, mem, patched, saved>>

\* amx_RaiseError, called by a native.
RaiseError(e) ==
    /\ InCaller
    /\ act # <<>>
    /\ amx' = [amx EXCEPT !.error = e]
    /\ ctx' = [ctx EXCEPT ![Len(ctx)].heard = @ \cup {e}]
    /\ UNCHANGED <<act, mem, patched, saved>>

-----------------------------------------------------------------------------
(* Entering amx_Exec.                                                      *)

\* The first of the checks on entry that fails; "PUSH" is the one on the
\* parameter count, the only one between the two changes to reset_stk and
\* paramcount.
EntryCheck(isCont) ==
    CASE amx.stk > STP -> "STACKLOW"
      [] amx.hea < HLW -> "HEAPLOW"
      [] ~isCont /\ amx.hea > amx.stk - 1 -> "PUSH"
      [] ~isCont /\ amx.hea > amx.stk - 2 -> "STACKERR"
      [] amx.hea + STKMARGIN > amx.stk - (IF isCont THEN 0 ELSE 2) -> "STACKERR"
      [] OTHER -> "NONE"

\* Mutant: the pending parameters are not part of what is dropped at the end.
ExecKeepsParams(entry) ==
    /\ InCaller
    /\ Caller.status = "ready"
    /\ Len(act) < MaxDepth
    /\ EntryCheck(FALSE) = "NONE"
    /\ amx' = [amx EXCEPT !.paramcount = 0]
    /\ act' = Append(act, [cip |-> entry, frm |-> 0, hea |-> amx.hea, stk |-> amx.stk - 2,
                           reset_stk |-> amx.stk, reset_hea |-> amx.hea])
    /\ mem' = [a \in Addr |-> CASE a = amx.stk - 1 -> amx.paramcount
                                 [] a = amx.stk - 2 -> 0
                                 [] OTHER -> mem[a]]
    /\ UNCHANGED <<ctx, patched, saved>>

\* amx_Exec(amx, &ret, AMX_EXEC_MAIN or the index of a public function).
Exec(entry) ==
    LET check == EntryCheck(FALSE)
        early == check \in {"STACKLOW", "HEAPLOW"}
        reset == IF early THEN amx.stk ELSE amx.stk + amx.paramcount
        start == [cip |-> entry, frm |-> 0, hea |-> amx.hea, stk |-> amx.stk - 2,
                  reset_stk |-> reset, reset_hea |-> amx.hea]
        counted == IF check \in {"STACKLOW", "HEAPLOW", "PUSH"}
                   THEN amx ELSE [amx EXCEPT !.paramcount = 0]
    IN /\ InCaller
       /\ Caller.status = "ready"
       /\ Len(act) < MaxDepth
       /\ IF check = "NONE"
          THEN /\ amx' = counted
               /\ act' = Append(act, start)
               /\ mem' = [a \in Addr |->
                            CASE a = amx.stk - 1 -> amx.paramcount
                              [] a = amx.stk - 2 -> 0
                              [] OTHER -> mem[a]]
          ELSE /\ amx' = [counted EXCEPT !.stk = reset, !.frm = 0, !.cip = entry - 1]
               /\ UNCHANGED <<act, mem>>
       /\ UNCHANGED <<ctx, patched, saved>>

\* amx_Exec(amx, &ret, AMX_EXEC_CONT).
ResumeRegs == [cip |-> amx.cip, frm |-> amx.frm, hea |-> amx.hea, stk |-> amx.stk,
               reset_stk |-> amx.reset_stk, reset_hea |-> amx.reset_hea]
Continue ==
    /\ InCaller
    /\ Caller.status = "asleep"
    /\ amx.paramcount = 0
    /\ Len(act) < MaxDepth
    /\ IF EntryCheck(TRUE) = "NONE"
       THEN /\ act' = Append(act, ResumeRegs)
            /\ ctx' = [ctx EXCEPT ![Len(ctx)] = [@ EXCEPT !.status = "ready", !.slept = Awake]]
            /\ UNCHANGED amx
       ELSE /\ amx' = [amx EXCEPT !.stk = amx.reset_stk, !.hea = amx.reset_hea, !.cip = @ - 1]
            /\ ctx' = [ctx EXCEPT ![Len(ctx)] = [@ EXCEPT !.status = "ready", !.slept = Awake]]
            /\ UNCHANGED act
    /\ UNCHANGED <<mem, patched, saved>>

-----------------------------------------------------------------------------
(* pawnrun.c: while amx sleeps, events run on the copy nested_amx.         *)

HostCopy ==
    /\ SleepCopies
    /\ act = <<>>
    /\ saved = <<>>
    /\ Caller.status = "asleep"
    /\ saved' = <<[amx |-> amx, ctx |-> Caller, mem |-> mem]>>
    /\ ctx' = <<NewCaller(amx.stk, amx.hea, mem, TRUE, Caller.heard)>>
    /\ UNCHANGED <<amx, act, mem, patched>>

\* Mutant: the events ran on the sleeping AMX itself.
HostDropNoCopy ==
    /\ act = <<>>
    /\ saved # <<>>
    /\ Caller.status = "ready"
    /\ ctx' = <<saved[1].ctx>>
    /\ saved' = <<>>
    /\ UNCHANGED <<amx, act, mem, patched>>

HostDrop ==
    /\ act = <<>>
    /\ saved # <<>>
    /\ Caller.status = "ready"
    /\ amx' = saved[1].amx
    /\ ctx' = <<saved[1].ctx>>
    /\ saved' = <<>>
    /\ UNCHANGED <<act, mem, patched>>

-----------------------------------------------------------------------------
(* The interpreter.  Every step is one instruction of the running program. *)

At(op) == Running /\ Regs.cip \in DOMAIN Code /\ Instr.op = op

\* Go on with the registers r.
Run(r) ==
    /\ act' = [act EXCEPT ![Len(act)] = r]
    /\ UNCHANGED <<amx, ctx>>
Next1(r) == [r EXCEPT !.cip = @ + 1]

\* CHKPUSH, CHKMARGIN, CHKSTACK and CHKHEAP on registers just computed.
PushOk(r)   == r.hea <= r.stk
MarginOk(r) == r.hea + STKMARGIN <= r.stk
StackOk(r)  == r.stk <= STP
HeapOk(r)   == r.hea >= HLW

\* The PUSH family: n cells (ALLOCSTACK), all holding dst.  PUSH.S and its kin
\* can also fail on the address they read from.
PushCells ==
    LET r == [Regs EXCEPT !.stk = @ - Instr.n]
    IN /\ At("PUSH")
       /\ \/ /\ PushOk(r)
             /\ Run(Next1(r))
             /\ mem' = [a \in Addr |-> IF a \in r.stk .. r.stk + Instr.n - 1
                                      THEN Instr.dst ELSE mem[a]]
          \/ ~PushOk(r) /\ AbortExec(r) /\ UNCHANGED mem
          \/ Instr.err # "NONE" /\ AbortExec(Regs) /\ UNCHANGED mem
       /\ UNCHANGED <<patched, saved>>

\* POP.PRI and POP.ALT.
Pop ==
    LET r == [Regs EXCEPT !.stk = @ + 1]
    IN /\ At("POP")
       /\ IF StackOk(r) THEN Run(Next1(r)) ELSE AbortExec(r)
       /\ UNCHANGED <<mem, patched, saved>>

\* STACK and SCTRL 4 move STK, HEAP and SCTRL 2 move HEA.
MoveStk ==
    LET r == [Regs EXCEPT !.stk = IF Instr.op = "STACK" THEN @ + Instr.n ELSE Instr.n]
    IN /\ At("STACK") \/ At("SCTRL4")
       /\ IF MarginOk(r) /\ StackOk(r) THEN Run(Next1(r)) ELSE AbortExec(r)
       /\ UNCHANGED <<mem, patched, saved>>

MoveHea ==
    LET r == [Regs EXCEPT !.hea = IF Instr.op = "HEAP" THEN @ + Instr.n ELSE Instr.n]
    IN /\ At("HEAP") \/ At("SCTRL2")
       /\ IF MarginOk(r) /\ HeapOk(r) THEN Run(Next1(r)) ELSE AbortExec(r)
       /\ UNCHANGED <<mem, patched, saved>>

\* SCTRL 5 sets FRM.
SetFrame ==
    LET r == [Regs EXCEPT !.frm = Instr.n]
    IN /\ At("SCTRL5")
       /\ IF r.frm >= r.hea + STKMARGIN /\ r.frm < STP
          THEN Run(Next1(r)) ELSE AbortExec(r)
       /\ UNCHANGED <<mem, patched, saved>>

\* PROC saves the caller's frame; CALL pushes the return address.
Proc ==
    LET r == [Regs EXCEPT !.stk = @ - 1]
    IN /\ At("PROC")
       /\ IF PushOk(r)
          THEN /\ Run([Next1(r) EXCEPT !.frm = r.stk])
               /\ mem' = Store(r.stk, r.frm)
          ELSE AbortExec(r) /\ UNCHANGED mem
       /\ UNCHANGED <<patched, saved>>

Call ==
    LET r == [Regs EXCEPT !.stk = @ - 1]
    IN /\ At("CALL") \/ At("CALL_PRI")
       /\ IF Instr.op = "CALL_PRI" /\ Instr.dst \notin DOMAIN Code
          THEN AbortExec(Regs) /\ UNCHANGED mem
          ELSE IF ~PushOk(r)
          THEN AbortExec(r) /\ UNCHANGED mem
          ELSE /\ Run([r EXCEPT !.cip = Instr.dst])
               /\ mem' = Store(r.stk, r.cip + 1)
       /\ UNCHANGED <<patched, saved>>

\* Mutant: RETN drops the parameters and forgets their count.
ReturnKeepsCount ==
    LET r0 == [Regs EXCEPT !.stk = @ + 2]
        r1 == [r0 EXCEPT !.frm = Cell(Regs.stk), !.cip = Cell(Regs.stk + 1)]
    IN /\ At("RET") \/ At("RETN")
       /\ r1.cip \in DOMAIN Code
       /\ Run(IF Instr.op = "RETN" THEN [r1 EXCEPT !.stk = @ + Cell(@)] ELSE r1)
       /\ UNCHANGED <<mem, patched, saved>>

\* RET and RETN: drop the frame, check the return address, and for RETN drop
\* the parameters with their count.
Return ==
    LET r0 == [Regs EXCEPT !.stk = @ + 2]
        r1 == [r0 EXCEPT !.frm = Cell(Regs.stk)]
        target == Cell(Regs.stk + 1)
        r2 == IF Instr.op = "RETN" THEN [r1 EXCEPT !.stk = @ + Cell(@) + 1] ELSE r1
    IN /\ At("RET") \/ At("RETN")
       /\ IF ~StackOk(r0) THEN AbortExec(r0)
          ELSE IF target \notin DOMAIN Code THEN AbortExec(r1)
          ELSE IF ~StackOk(r2) THEN AbortExec(r2)
          ELSE Run([r2 EXCEPT !.cip = target])
       /\ UNCHANGED <<mem, patched, saved>>

\* Jumps: JUMP always, the conditional jumps and SWITCH on the value of PRI;
\* SCTRL 6 goes to the address in PRI if an instruction starts there.
Jump ==
    /\ At("JUMP") \/ At("JCOND") \/ At("SCTRL6")
    /\ \/ Instr.dst \in DOMAIN Code /\ Run([Regs EXCEPT !.cip = Instr.dst])
       \/ Instr.op = "JCOND" /\ Run(Next1(Regs))
       \/ Instr.op = "SCTRL6" /\ Instr.dst \notin DOMAIN Code /\ AbortExec(Regs)
    /\ UNCHANGED <<mem, patched, saved>>

\* Instructions that only move data, and the check some of them can fail.  What
\* they store is kept out of mem: compiled code never stores through a pointer
\* to a return address or a saved frame.
Data ==
    /\ At("DATA")
    /\ \/ Run(Next1(Regs))
       \/ Instr.err # "NONE" /\ AbortExec(Regs)
    /\ UNCHANGED <<mem, patched, saved>>

\* Mutant: the sleep saves the address of the HALT.
HaltAgain ==
    /\ At("HALT")
    /\ IF Instr.err = "SLEEP"
       THEN SleepExec(Regs, [amx EXCEPT !.stk = Regs.stk, !.hea = Regs.hea, !.cip = Regs.cip])
       ELSE AbortExec(Regs)
    /\ UNCHANGED <<mem, patched, saved>>

\* HALT.  The sleep path stores STK, HEA, CIP and the reset pair.
Halt ==
    /\ At("HALT")
    /\ IF Instr.err = "SLEEP"
       THEN SleepExec(Regs, [amx EXCEPT !.stk = Regs.stk, !.hea = Regs.hea,
                                        !.cip = Regs.cip + 1])
       ELSE AbortExec(Regs)
    /\ UNCHANGED <<mem, patched, saved>>

\* BREAK with a debug hook installed.
Break ==
    /\ At("BREAK")
    /\ \E res \in HookResults :
         CASE res = "NONE"  -> /\ act' = [act EXCEPT ![Len(act)] = Next1(Regs)]
                               /\ amx' = SaveRegs(Regs)
                               /\ UNCHANGED ctx
           [] res = "SLEEP" -> SleepExec(Regs, SaveRegs(Regs))
           [] OTHER         -> AbortExec(Regs)
    /\ UNCHANGED <<mem, patched, saved>>

-----------------------------------------------------------------------------
(* Native functions.                                                       *)

\* sysreq_d is set only for programs that use one form of SYSREQ.
SysreqD == Relocate /\ Cardinality({Code[a].op : a \in DOMAIN Code}
                                   \cap {"SYSREQ_C", "SYSREQ_N"}) = 1

\* Mutant: amx_Callback leaves the previous error in place.
SysreqKeepsError ==
    LET r == IF Instr.op = "SYSREQ_N" THEN [Regs EXCEPT !.stk = @ - 1] ELSE Regs
    IN /\ At("SYSREQ_C") \/ At("SYSREQ_N")
       /\ Instr.op = "SYSREQ_C" \/ PushOk(r)
       /\ amx' = SaveRegs(r)
       /\ act' = [act EXCEPT ![Len(act)] = r]
       /\ mem' = IF Instr.op = "SYSREQ_N" THEN Store(r.stk, Instr.n) ELSE mem
       /\ ctx' = Append(ctx, NewCaller(r.stk, r.hea, mem', TRUE, {}))
       /\ UNCHANGED <<patched, saved>>

\* SYSREQ.C and SYSREQ.N up to the call of the native.  The first call goes
\* through amx_Callback, which clears amx->error and patches the instruction;
\* a patched one (SYSREQ.D, SYSREQ.ND) calls the native straight away.
Sysreq ==
    LET r == IF Instr.op = "SYSREQ_N" THEN [Regs EXCEPT !.stk = @ - 1] ELSE Regs
        direct == Regs.cip \in patched
    IN /\ At("SYSREQ_C") \/ At("SYSREQ_N")
       /\ IF Instr.op = "SYSREQ_C" \/ PushOk(r)
          THEN /\ amx' = [SaveRegs(r) EXCEPT !.error = IF direct THEN @ ELSE "NONE"]
               /\ act' = [act EXCEPT ![Len(act)] = r]
               /\ mem' = IF Instr.op = "SYSREQ_N" THEN Store(r.stk, Instr.n) ELSE mem
               /\ ctx' = Append(ctx, NewCaller(r.stk, r.hea, mem', ~direct, {}))
               /\ patched' = IF SysreqD THEN patched \cup {Regs.cip} ELSE patched
          ELSE AbortExec(r) /\ UNCHANGED <<mem, patched>>
       /\ UNCHANGED saved

\* The native returns and the interpreter looks at amx->error.  A native calls
\* amx_Exec for the parameters it pushed, unless that fails on the index.
NativeReturn ==
    LET r == IF Instr.op = "SYSREQ_N" THEN [Regs EXCEPT !.stk = @ + Instr.n + 1] ELSE Regs
    IN /\ InCaller
       /\ act # <<>>
       /\ amx.paramcount = 0 \/ BadIndex
       /\ CASE amx.error = "NONE"  -> /\ act' = [act EXCEPT ![Len(act)] = Next1(r)]
                                      /\ ctx' = SubSeq(ctx, 1, Len(act))
                                      /\ UNCHANGED amx
            [] amx.error = "SLEEP" -> SleepExec(r, amx)
            [] OTHER               -> AbortExec(r)
       /\ UNCHANGED <<mem, patched, saved>>

-----------------------------------------------------------------------------
HostApi ==
    \/ Push
    \/ \E cells \in AllotSizes : Allot(cells) \/ PushArray(cells)
    \/ \E addr \in Addr : Release(addr)
    \/ \E entry \in Publics \cup {MainEntry} : Exec(entry)
    \/ Continue
    \/ HostCopy
    \/ HostDrop

Interpret ==
    \/ PushCells \/ Pop \/ MoveStk \/ MoveHea \/ SetFrame \/ Proc \/ Call \/ Return
    \/ Jump \/ Data \/ Halt \/ Break

Native ==
    \/ Sysreq
    \/ \E e \in NativeErrors : RaiseError(e)
    \/ NativeReturn

Next == HostApi \/ Interpret \/ Native

Spec == Init /\ [][Next]_vars
-----------------------------------------------------------------------------
AmxType  == [cip : Int, frm : Int, hea : Int, stk : Int, paramcount : Nat,
             error : Errors, reset_stk : Int, reset_hea : Int]
RegsType == [cip : Int, frm : Int, hea : Int, stk : Int,
             reset_stk : Int, reset_hea : Int]
MemType  == [Addr -> Int]
SleptType == [stk : Int, hea : Int, frm : Int, next : Int]
CtxType  == [stk : Int, hea : Int, status : {"ready", "asleep"},
             heard : SUBSET Errors, cleared : BOOLEAN, slept : SleptType, mem : MemType]

TypeOK ==
    /\ amx \in AmxType
    /\ act \in Seq(RegsType)
    /\ ctx \in Seq(CtxType)
    /\ mem \in MemType
    /\ patched \subseteq DOMAIN Code
    /\ saved \in Seq([amx : AmxType, ctx : CtxType, mem : MemType])

\* Whatever a program did, and however it ended, its caller gets back exactly
\* the stack and the heap it had: once it has control again, STK is what it
\* was before the pending parameters were pushed, and HEA what it allotted.
\* (amx_Exec's reset_stk/reset_hea against amx_Push's paramcount.)
CallerBalanced ==
    InCaller /\ Caller.status = "ready" =>
        /\ amx.stk + amx.paramcount = Caller.stk
        /\ amx.hea = Caller.hea

\* A program that runs on top of another one (called from a native, or as an
\* event while the other sleeps) leaves the other's frames, return addresses
\* and arguments as they were.
CallerMemoryIntact ==
    /\ \A k \in DOMAIN ctx : \A a \in Addr : a >= ctx[k].stk => mem[a] = ctx[k].mem[a]
    /\ \A k \in DOMAIN saved : \A a \in Addr : a >= saved[k].amx.stk => mem[a] = saved[k].mem[a]

\* A program that returns to the zero return address has dropped everything it
\* pushed: HALT 0 at address 0 finds STK where abort_exec is about to put it.
ReturnIsClean ==
    Running /\ Regs.cip = 0 => Regs.stk = Regs.reset_stk /\ Regs.frm = 0

\* Every error that ends a program has an origin above it: what a native finds
\* in amx->error was raised by itself, or is what an amx_Exec it called was ended
\* with, and so on up the calls (amx_Callback's reset against amx_RaiseError).
\* Natives that a patched instruction calls are the exception: nobody has
\* cleared the error they find.
ErrorTravels ==
    \A k \in DOMAIN ctx : ctx[k].cleared =>
        amx.error = "NONE" \/ \E j \in k .. Len(ctx) : amx.error \in ctx[j].heard

Asleep == InCaller /\ Caller.status = "asleep"

\* A sleeping machine's STK and HEA are those it went to sleep with, also after events ran on its
\* copy, and it resumes behind the instruction that put it to sleep.
SleepKeepsPlace ==
    Asleep => <<amx.stk, amx.hea, amx.cip>> = <<Caller.slept.stk, Caller.slept.hea, Caller.slept.next>>
=============================================================================
