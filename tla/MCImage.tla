------------------------------ MODULE MCImage ------------------------------
(***************************************************************************)
(* What is written to the file of a program and what is made of it: the    *)
(* code and data in compact encoding, the symbolic information behind it,  *)
(* the code as it is verified and run, and the machines it is loaded into, *)
(* with their natives and libraries.  A behaviour is about one of these.   *)
(*                                                                         *)
(* Two machines; programs with natives of the host and of a library, a     *)
(* library that is missing and one without an Init function; pointers      *)
(* that fit a cell or do not, the new core or the old one.  Programs as    *)
(* the assembler writes them, and the same with one cell damaged.          *)
(***************************************************************************)
EXTENDS DebugInfo, Loader, MCAmxCode
CONSTANTS AMX_COMPACTMARGIN, Programs, Sections
VARIABLES cells, written, sc_compress, bytes_in, bytes_out, fout, expanded, size, memsize, spare,
          part     \* what the behaviour is about
C == INSTANCE Compact WITH code <- expanded, codesize <- size

sectionVars == <<cells, written, sc_compress, bytes_in, bytes_out, fout, expanded, size, memsize, spare>>
Nothing == [kind \in {"files", "funcs", "lines", "blocks", "locals"} |-> 0]
Idle == variant = "plain" /\ image = Least /\ phase = "init" /\ cip = 0 /\ addrs = {} /\ forms = {}
        /\ direct = {} /\ error = "NONE"
MCInit ==
    /\ part \in {"debug", "section", "code", "host"}
    /\ IF part = "debug" THEN room \in Programs ELSE room = Nothing
    /\ IF part = "section" THEN cells \in Sections ELSE cells = << >>
    /\ IF part = "code" THEN Init ELSE Idle
    /\ part # "host" => build = (CHOOSE b \in Builds : TRUE)
    /\ DebugInit /\ C!CompactInit /\ HostInit
MCNext ==
    \/ part = "debug" /\ DebugNext /\ UNCHANGED <<sectionVars, vars, hostVars, part>>
    \/ part = "section" /\ C!CompactNext /\ UNCHANGED <<debugVars, vars, hostVars, part>>
    \/ part = "code" /\ Next /\ UNCHANGED <<debugVars, sectionVars, hostVars, part>>
    \/ part = "host" /\ HostNext /\ UNCHANGED <<debugVars, sectionVars, vars, part>>
MCSpec == MCInit /\ [][MCNext]_<<debugVars, sectionVars, vars, hostVars, part>>

ExpandRestores == C!ExpandRestores

MCFuncNames == <<"f", "g">>
Bounds(f, n, l, b, v) == [files |-> f, funcs |-> n, lines |-> l, blocks |-> b, locals |-> v]
MCPrograms == {Bounds(2, 2, 1, 0, 0), Bounds(1, 2, 2, 0, 0), Bounds(0, 2, 1, 1, 2)}
\* Short, middle and long cells of either sign, and runs of them.
MCValues == {0, 63, 64, 8191, 8192, 16384, 32768, 49151, 57343, 57344, 65471, 65472, 65535}
MCRuns == {<<0, 1>>, <<100, 1>>, <<20000, 1>>, <<20000, 2>>, <<65535, 6>>, <<20000, 9>>, <<0, 9>>}
MCSections ==
    {<<<<a, 1>>, <<b, 1>>, <<0, 2>>>> : a, b \in MCValues}
    \cup {<<a, b, c>> : a, b, c \in MCRuns} \cup {<<a, b, c, d>> : a, b, c, d \in MCRuns}

File(defect, natives, libraries) == [defect |-> defect, natives |-> natives, libraries |-> libraries]
MCFiles ==
    {File("none", <<"f", "g">>, <<"Lib", "Gone">>), File("none", <<"g", "h">>, <<"Lib", "Plain">>),
     File("none", << >>, << >>)}
    \cup { File(d, <<"g">>, <<"Lib">>) : d \in {"missing", "magic", "short", "version", "tables", "instruction"} }
MCLibs ==
    [Lib |-> [exists |-> TRUE, init |-> TRUE, provides |-> <<"g">>],
     Plain |-> [exists |-> TRUE, init |-> FALSE, provides |-> << >>],
     Gone |-> [exists |-> FALSE, init |-> FALSE, provides |-> << >>]]
MCLists == { <<"f">>, <<"f", "g", "h">> }
MCBuilds == [wide : BOOLEAN, newexec : BOOLEAN]
=============================================================================
