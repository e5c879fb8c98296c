------------------------------ MODULE Objects ------------------------------
(***************************************************************************)
(* What the garbage collector promises (amxgc.c): objects live from their  *)
(* creation to the first collection that finds no machine with a handle of *)
(* them.  The hash table, the counts and the sizes are left out.           *)
(***************************************************************************)
CONSTANTS Machines, Handles

VARIABLES
    live,       \* objects that exist
    refs        \* machine -> handles in its memory

objects == <<live, refs>>

Init == live = {} /\ refs = [m \in Machines |-> {}]

Create(m, v) ==
    /\ v \notin live
    /\ live' = live \cup {v} /\ refs' = [refs EXCEPT ![m] = @ \cup {v}]

Drop(m, v) == v \in refs[m] /\ refs' = [refs EXCEPT ![m] = @ \ {v}] /\ UNCHANGED live

Share(m, n, v) == v \in refs[m] /\ refs' = [refs EXCEPT ![n] = @ \cup {v}] /\ UNCHANGED live

\* Exactly the objects without a handle are destroyed.
Collect == live' = {v \in live : \E m \in Machines : v \in refs[m]} /\ UNCHANGED refs

\* The machines are gone, and every object with them.
Shutdown == live' = {} /\ refs' = [m \in Machines |-> {}]

Next ==
    \/ \E m \in Machines, v \in Handles : Create(m, v) \/ Drop(m, v)
    \/ \E m, n \in Machines, v \in Handles : Share(m, n, v)
    \/ Collect \/ Shutdown

Spec == Init /\ [][Next]_objects
=============================================================================
