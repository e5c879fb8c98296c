------------------------------ MODULE MCAmxGC ------------------------------
(***************************************************************************)
(* Hosts for model-checking AmxGC.                                         *)
(***************************************************************************)
EXTENDS AmxGC

Host(handles, collects) == [handles |-> handles, collects |-> collects]

\* Two hosts collect, one of them objects whose handles collide, and one only
\* fills the table with such handles.
Several == {Host({1, 2, 3}, TRUE), Host({1, 5, 9}, TRUE), Host({1, 2, 5, 9}, FALSE)}

\* Handles that collide in the small table.
Colliding == {Host({1, 5}, TRUE)}
=============================================================================
