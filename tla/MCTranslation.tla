--------------------------- MODULE MCTranslation ---------------------------
(***************************************************************************)
(* What the compiler makes of a program, for three kinds of small          *)
(* programs: declarations in every order (Passes), lists of states         *)
(* (States), and statements and expressions with the machine that runs     *)
(* them (Compiler).  A behaviour is about one of the three.                *)
(***************************************************************************)
EXTENDS MCPasses
CONSTANTS Levels, CELLS, FUEL     \* those of Compiler
VARIABLES unit, optimize, phase, st, machine
Sources == INSTANCE MCCompiler WITH program <- unit, Programs <- {}
C == INSTANCE MCCompiler WITH program <- unit, Programs <- Sources!Every

unitVars == <<unit, optimize, phase, st, machine>>
Start ==
    \/ /\ MCInit
       /\ unit = << >> /\ optimize = 0 /\ phase = "none" /\ st = << >> /\ machine = << >>
    \/ /\ part = "code" /\ program = << >> /\ source = << >> /\ FirstPass /\ S!FirstPass
       /\ C!Init
Step ==
    \/ MCNext /\ UNCHANGED unitVars
    \/ part = "code" /\ C!Next /\ UNCHANGED <<vars, stateVars, part>>
Behaviour == Start /\ [][Step]_<<vars, stateVars, part, unitVars>>
\* Compile and run is a run of the reference, at every level of optimisation.
Implements == C!Implements
\* A program that returns gives back its stack and its heap.
Restored == C!Restored
=============================================================================
