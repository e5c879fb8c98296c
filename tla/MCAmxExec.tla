----------------------------- MODULE MCAmxExec -----------------------------
(***************************************************************************)
(* Programs, as the compiler would emit them, for model-checking AmxExec.  *)
(***************************************************************************)
EXTENDS AmxExec, StackDepth

I(op)      == [op |-> op, n |-> 0, dst |-> 0, err |-> "NONE"]
N(op, n)   == [I(op) EXCEPT !.n = n]
P(n, v)    == [I("PUSH") EXCEPT !.n = n, !.dst = v]
J(op, dst) == [I(op) EXCEPT !.dst = dst]
E(op, e)   == [I(op) EXCEPT !.err = e]

FromZero(seq) == [a \in 0 .. Len(seq) - 1 |-> seq[a + 1]]

\* main() { f(x) }   f(x) { sleep; a[x] }   @event() { native(0) }
Sleeper == FromZero(<<
    E("HALT", "NONE"),
    I("PROC"), P(1, 7), P(1, 1), J("CALL", 6), I("RETN"),
    I("PROC"), E("HALT", "SLEEP"), E("DATA", "BOUNDS"), I("RETN"),
    I("PROC"), P(1, 0), I("SYSREQ_C"), N("STACK", 1), I("RETN")>>)

\* A native called through a macro instruction, under the debugger's BREAK.
Macro == FromZero(<<
    E("HALT", "NONE"),
    I("PROC"), I("BREAK"), P(1, 7), N("SYSREQ_N", 1), I("RETN")>>)

\* main uses the heap, branches and moves its registers; the event's function
\* goes through every check on an operand, and fails some of them.
Mixed == FromZero(<<
    E("HALT", "NONE"),
    I("PROC"), N("HEAP", 1), J("JCOND", 6), N("STACK", -2), I("POP"),
    N("SCTRL5", 7), J("CALL", 10), N("SCTRL4", 7), I("RETN"),
    I("PROC"), N("HEAP", -1), J("JUMP", 13), I("RET"),
    I("PROC"), J("CALL_PRI", 17), J("CALL_PRI", 99),
    I("PROC"), [P(1, 0) EXCEPT !.err = "MEMACCESS"], N("SCTRL2", 1), J("SCTRL6", 21),
    I("POP"), J("JCOND", 24), J("SCTRL6", 99),
    J("JCOND", 26), N("SCTRL2", -1), N("SCTRL2", 0), I("RETN")>>)

\* Both in one program: Macro's function is public, at 27.
Whole == [a \in 0 .. 31 |-> IF a <= 26 THEN Mixed[a] ELSE Macro[a - 26]]

Main == 1

(***************************************************************************)
(* Two programs with a static stack depth, for which the theorems about    *)
(* compiled code hold: the depths are those the compiler counts.           *)
(***************************************************************************)

\* main() { new x; if (c) f(1); state s; native(); }   entry() <s> { native(); }
\* f(x) <s> { new y; native(4); }, reached by a stub that reads the state.
Stately == FromZero(<<
    E("HALT", "NONE"),
    I("PROC"), P(1, 3), J("JCOND", 8), P(1, 7), P(1, 1), J("CALL", 12), J("JUMP", 9),
    I("BREAK"), J("CALL", 23), N("STACK", 1), I("RETN"),
    I("DATA"), J("JCOND", 15), E("HALT", "INVSTATE"),
    I("PROC"), N("STACK", -1), P(1, 4), N("SYSREQ_N", 1), J("JCOND", 21), E("HALT", "SLEEP"),
    N("STACK", 1), I("RETN"),
    I("PROC"), P(1, 0), I("SYSREQ_C"), I("POP"), I("RET")>>)

Depths(seq)   == [a \in 1 .. Len(seq) |-> seq[a]]
SleeperTyping == [depth |-> Depths(<<-1, 0, 1, 2, 0, -1, 0, 0, 0, -1, 0, 1, 1, 0>>),
                  exit  |-> [a \in 1 .. 14 |-> "RETN"]]
StatelyTyping == [depth |-> Depths(<<-1, 0, 1, 1, 2, 3, 1, 1, 1, 1, 0, -1, -1, -1,
                                     -1, 0, 1, 2, 1, 1, 1, 0, -1, 0, 1, 1, 0>>),
                  exit  |-> [a \in 1 .. 27 |-> IF a < 23 THEN "RETN" ELSE "RET"]]

ASSUME SleeperIsTyped == IsTyping(Sleeper, {Main, 10}, SleeperTyping)
ASSUME StatelyIsTyped == IsTyping(Stately, {Main, 12}, StatelyTyping)
=============================================================================
