------------------------------ MODULE Reference ------------------------------
(***************************************************************************)
(* What a compiler promises about a program: when it has run, what can be  *)
(* seen of the run is what the program means.  How it gets there (passes,  *)
(* instructions, a machine) is not part of the promise.                    *)
(***************************************************************************)
EXTENDS Semantics

VARIABLES program, outcome

\* What can be seen of a run: why it ended, the natives it called, its value
\* and what is in the globals.
Outcome(m) == [status |-> IF Halted(m.s) THEN m.s.halt ELSE "return", calls |-> m.s.calls,
               value |-> IF Halted(m.s) THEN 0 ELSE m.v,
               globals |-> SubSeq(m.s.store, 1, Len(Globals(program).store))]

None == [status |-> "", calls |-> << >>, value |-> 0, globals |-> << >>]

\* program is whatever program there is: it only never changes.
Init == outcome = None
Run == /\ outcome = None /\ outcome' # None
       /\ outcome' = Outcome(Meaning(program, program.params)) /\ UNCHANGED program
Spec == Init /\ [][Run]_<<program, outcome>>
=============================================================================
