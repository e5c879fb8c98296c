----------------------------- MODULE StackDepth -----------------------------
(***************************************************************************)
(* How deep the stack of a function is at each of its instructions, as the *)
(* compiler keeps it.  The compiler counts its locals and parameters while *)
(* it generates code and emits every push with its removal (modstk in      *)
(* sc4.c, callfunction in sc3.c), so the depth is the same whichever way   *)
(* an instruction is reached.  A typing t of code says what it is:         *)
(*   t.depth[a]   cells between FRM and STK before the instruction at a;   *)
(*   t.exit[a]    the instruction by which the function around a returns:  *)
(*                RETN, or RET for the entry function of a state.          *)
(* Only instructions that can be reached have a type.  The HALT at address *)
(* 0, to which the outermost function returns, has none.                   *)
(***************************************************************************)
EXTENDS Integers

\* A call of a function that will drop its parameters by their count.
Counted(code, t, a) == code[a].op = "CALL" /\ t.exit[code[a].dst] = "RETN"

\* From the instruction at a to the one at b, which finds the depth d.
Reaches(code, t, a, b, d) ==
    b \in DOMAIN t.depth /\ t.depth[b] = d /\ d >= 0 /\ t.exit[b] = t.exit[a]

\* The same where no parameter count has just been pushed.
Goes(code, t, a, b, d) == Reaches(code, t, a, b, d) /\ ~Counted(code, t, b)

\* callfunction and ffcall: the count is the last thing pushed ahead of the
\* call, and the callee drops it with the parameters.  The entry function of
\* a state is called without one.
CallTyped(code, t, a) ==
    LET f     == code[a].dst
        count == code[a - 1].dst
    IN /\ f \in DOMAIN t.depth /\ t.depth[f] = -1
       /\ IF t.exit[f] = "RETN"
          THEN /\ a - 1 \in DOMAIN t.depth /\ code[a - 1].op = "PUSH" /\ count >= 0
               /\ Goes(code, t, a, a + 1, t.depth[a] - 1 - count)
          ELSE Goes(code, t, a, a + 1, t.depth[a])

\* Ahead of PROC, which saves FRM and begins the frame: the function itself, or
\* the stub in which writeleader selects one of several by the state.
HeadTyped(code, t, a) ==
    LET i == code[a]
        Ahead(b) == b \in DOMAIN t.depth /\ t.depth[b] = -1 /\ t.exit[b] = t.exit[a]
    IN CASE i.op = "PROC"  -> Goes(code, t, a, a + 1, 0)
         [] i.op = "DATA"  -> Ahead(a + 1)
         [] i.op = "JUMP"  -> Ahead(i.dst)
         [] i.op = "JCOND" -> Ahead(i.dst) /\ Ahead(a + 1)
         [] i.op = "HALT"  -> i.err # "SLEEP"
         [] OTHER          -> FALSE

\* The instructions within a function.  Not among them: SCTRL 4, 5 and 6, with
\* which a goto restores the stack and an aligned frame is built, CALL.PRI,
\* which the compiler does not emit.
InstrTyped(code, t, a) ==
    LET i == code[a]
        d == t.depth[a]
        On(n) == Goes(code, t, a, a + 1, d + n)
    IN CASE i.op = "PUSH"     -> /\ i.n >= 0
                                 /\ \/ On(i.n)
                                    \/ i.n >= 1 /\ Reaches(code, t, a, a + 1, d + i.n)
         [] i.op = "POP"      -> On(-1)
         [] i.op = "STACK"    -> On(-i.n)
         [] i.op = "SYSREQ_N" -> On(-i.n)
         [] i.op = "CALL"     -> CallTyped(code, t, a)
         [] i.op \in {"RET", "RETN"} -> d = 0 /\ t.exit[a] = i.op
         [] i.op = "HALT"     -> i.err = "SLEEP" => On(0)
         [] i.op = "JUMP"     -> Goes(code, t, a, i.dst, d)
         [] i.op = "JCOND"    -> Goes(code, t, a, i.dst, d) /\ On(0)
         [] i.op \in {"HEAP", "SCTRL2", "DATA", "BREAK", "SYSREQ_C"} -> On(0)
         [] OTHER             -> FALSE

IsTyping(code, entries, t) ==
    LET live == DOMAIN t.depth
    IN /\ live \subseteq DOMAIN code \ {0}
       /\ t.depth \in [live -> Int] /\ t.exit \in [live -> {"RET", "RETN"}]
       /\ 0 \in DOMAIN code /\ code[0].op = "HALT" /\ code[0].err # "SLEEP"
       /\ \A a \in entries : a \in live /\ t.depth[a] = -1 /\ t.exit[a] = "RETN"
       /\ \A a \in live : \/ t.depth[a] = -1 /\ HeadTyped(code, t, a)
                          \/ t.depth[a] >= 0 /\ InstrTyped(code, t, a)
=============================================================================
