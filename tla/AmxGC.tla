------------------------------- MODULE AmxGC -------------------------------
(***************************************************************************)
(* The garbage collector for objects that scripts hold by handle           *)
(* (amxgc.c), under the host that drives it (garbagecollect and main of    *)
(* pawnrun/prun5.c): natives create objects and mark their handles in one  *)
(* shared hash table; between two statements the host may grow the table,  *)
(* scan the memory of every machine for handles, and clean: the callback   *)
(* destroys each object that no scan has seen.                             *)
(*                                                                         *)
(* Everything runs on one thread, so a collection is not interleaved with  *)
(* a script; what is subtle is open addressing with deletion, the counters *)
(* that scans leave behind, and a probe that need not end.                 *)
(***************************************************************************)
EXTENDS Integers, FiniteSets, Sequences

CONSTANTS
    Hosts,          \* host programs: the handles their allocator returns,
                    \* and whether they ever collect
    Machines,       \* the abstract machines that share the collector
    MinExponent,    \* smallest table size, as an exponent of 2; 7 in amxgc.c
    MaxExponent     \* bound: no table grows beyond this

\* Handles are small enough for Hash: folding does not change them.
LargestHandle == IF MinExponent < 4 THEN 15 ELSE 255

ASSUME GCAssumption ==
    /\ Hosts \subseteq [handles : SUBSET (1 .. LargestHandle), collects : BOOLEAN]
    /\ MinExponent \in Nat /\ MaxExponent \in 1 .. 16

VARIABLES
    host,       \* the host program; it never changes
    table,      \* slot -> [value, count]; <<>> when there is none
    exponent,
    count,      \* SharedGC.count
    flags,      \* SharedGC.flags
    live,       \* objects that exist
    refs,       \* machine -> handles in its data, heap and stack
    toscan,     \* machines the collection under way has still to scan
    phase,      \* "run", "scan", or "halted" when a probe does not end
    marked      \* history: live objects that gc_mark accepted

vars == <<host, table, exponent, count, flags, live, refs, toscan, phase, marked>>

-----------------------------------------------------------------------------
(* The hash table.                                                         *)

Slots(e) == 0 .. 2^e - 1
Empty(e) == [s \in Slots(e) |-> [value |-> 0, count |-> 0]]

\* The minor byte inverted and truncated to e bits.
Hash(e, v) == (255 - v) % 2^e

Increments == <<1, 1, 1, 3, 5, 7, 17, 31, 67, 127, 257, 509, 1021, 2053, 4099, 8191, 16381>>

\* The slots a probe for v visits: the increment changes with every collision
\* until it is 1, so that e + 2^e steps have been everywhere.
Path(e, v) ==
    LET step(n) == Increments[1 + (IF n <= e THEN e + 1 - n ELSE 0)]
        f[n \in 0 .. e + 2^e] == IF n = 0 THEN Hash(e, v) ELSE (f[n - 1] + step(n)) % 2^e
    IN f

\* Where the probe for v stops: at v or at an empty slot; {} if it does not.
Stop(t, e, v) ==
    LET path == Path(e, v)
        hits == {n \in DOMAIN path : t[path[n]].value \in {0, v}}
    IN {path[n] : n \in {h \in hits : \A g \in hits : h <= g}}

\* Mutant: gc_mark goes on by one where the look-up takes larger steps.
InsertByOne(t, e, v) ==
    LET free == {n \in 0 .. 2^e - 1 : t[(Hash(e, v) + n) % 2^e].value \in {0, v}}
    IN IF free = {} THEN t
       ELSE LET n == CHOOSE n \in free : \A k \in free : n <= k
            IN [t EXCEPT ![(Hash(e, v) + n) % 2^e].value = v]

\* gc_mark on a table that is not full by its count.
Insert(t, e, v) ==
    IF Stop(t, e, v) = {} THEN t
    ELSE LET s == CHOOSE s \in Stop(t, e, v) : TRUE
         IN [t EXCEPT ![s].value = v]

\* gc_settable: the old table's values are marked again, in the order of their
\* slots, and their counts are lost.
Rehash(old, new, e, olde) ==
    LET f[s \in 0 .. 2^olde] ==
          IF s = 0 THEN new
          ELSE IF old[s - 1].value = 0 THEN f[s - 1] ELSE Insert(f[s - 1], e, old[s - 1].value)
    IN f[2^olde]

Values(t) == {t[s].value : s \in DOMAIN t} \ {0}

\* Every value of the old table has found a slot in the new one; a probe that
\* finds none does not end.
Remarked == Values(table) \subseteq Values(table')

-----------------------------------------------------------------------------
Init ==
    /\ host \in Hosts
    /\ table = <<>> /\ exponent = 0 /\ count = 0 /\ flags = 0
    /\ live = {} /\ refs = [m \in Machines |-> {}]
    /\ toscan = {} /\ phase = "run" /\ marked = {}

\* gc_settable(e, AUTOGROW).  The flags end up in the count, which is then
\* cleared.  A failing malloc leaves everything as it is.
SetTable(e) ==
    /\ e >= MinExponent
    /\ count <= 2^e
    /\ table' = IF table = <<>> THEN Empty(e) ELSE Rehash(table, Empty(e), e, exponent)
    /\ exponent' = e
    /\ count' = 0
    /\ UNCHANGED flags

\* gc_clean's test of a slot.
Dead(item) == item.value # 0 /\ item.count = 0

\* gc_clean's effect on the table.
Cleaned(t) == [s \in DOMAIN t |-> [value |-> IF Dead(t[s]) THEN 0 ELSE t[s].value, count |-> 0]]

\* gc_clean: the callback destroys what no scan has counted.
Destroyed == {table[s].value : s \in {s \in DOMAIN table : Dead(table[s])}}

\* Mutant: counts survive, so an object that was ever seen is never destroyed.
CleanKeepsCounts ==
    /\ table' = [s \in DOMAIN table |-> IF Dead(table[s]) THEN [value |-> 0, count |-> 0] ELSE table[s]]
    /\ live' = live \ Destroyed
    /\ marked' = marked \ Destroyed

\* gc_clean.
Clean ==
    /\ table' = Cleaned(table)
    /\ live' = live \ Destroyed
    /\ marked' = marked \ Destroyed

\* main of prun5: the first table.
Start ==
    /\ phase = "run" /\ table = <<>>
    /\ \E e \in MinExponent .. MaxExponent : SetTable(e)
    /\ UNCHANGED <<live, refs, toscan, phase, marked>>

\* A native creates an object, marks its handle, and the script stores it.
Create(m, v) ==
    /\ phase = "run" /\ table # <<>>
    /\ v \notin live
    /\ live' = live \cup {v}
    /\ refs' = [refs EXCEPT ![m] = @ \cup {v}]
    /\ IF count >= 2^exponent       \* and flags lacks AUTOGROW: GC_ERR_TABLEFULL
       THEN UNCHANGED <<table, marked, phase>>
       ELSE /\ table' = Insert(table, exponent, v)
            /\ marked' = marked \cup {v}
            /\ phase' = IF Stop(table, exponent, v) = {} THEN "halted" ELSE phase
    /\ UNCHANGED <<exponent, count, flags, toscan>>

\* A script overwrites its last copy of a handle, or hands one to another.
Drop(m, v) ==
    /\ phase = "run" /\ v \in refs[m]
    /\ refs' = [refs EXCEPT ![m] = @ \ {v}]
    /\ UNCHANGED <<table, exponent, count, flags, live, toscan, phase, marked>>

Share(m, n, v) ==
    /\ phase = "run" /\ v \in refs[m] \ refs[n]
    /\ refs' = [refs EXCEPT ![n] = @ \cup {v}]
    /\ UNCHANGED <<table, exponent, count, flags, live, toscan, phase, marked>>

-----------------------------------------------------------------------------
(* garbagecollect.                                                         *)

\* gc_tablestat's percentage.
Usage == (100 * count) \div 2^exponent

CollectStart ==
    /\ host.collects
    /\ phase = "run" /\ table # <<>>
    /\ toscan' = Machines
    /\ IF Usage > 50 /\ exponent < MaxExponent
       THEN SetTable(exponent + 1)
       ELSE UNCHANGED <<table, exponent, count, flags>>
    /\ phase' = IF Remarked THEN "scan" ELSE "halted"
    /\ UNCHANGED <<live, refs, marked>>

\* gc_scan(m): every cell of its memory is looked up.  Memory is full of cells
\* that are no handles: on a full table their probe never ends.
Scan(m) ==
    /\ phase = "scan" /\ m \in toscan
    /\ LET seen == {s \in Slots(exponent) :
                      \E v \in refs[m] : s \in Stop(table, exponent, v) /\ table[s].value = v}
       IN table' = [s \in DOMAIN table |->
                      IF s \in seen THEN [table[s] EXCEPT !.count = @ + 1] ELSE table[s]]
    /\ phase' = IF \E s \in DOMAIN table : table[s].value = 0 THEN "scan" ELSE "halted"
    /\ toscan' = toscan \ {m}
    /\ UNCHANGED <<exponent, count, flags, live, refs, marked>>

CollectEnd ==
    /\ phase = "scan" /\ toscan = {}
    /\ Clean
    /\ phase' = "run"
    /\ UNCHANGED <<exponent, count, flags, refs, toscan>>

\* The host resizes the table between two collections; marking more values
\* than it has slots does not end.
Resize ==
    /\ phase = "run" /\ table # <<>>
    /\ \E e \in MinExponent .. MaxExponent :
         /\ e # exponent
         /\ SetTable(e)
         /\ phase' = IF Remarked THEN phase ELSE "halted"
    /\ UNCHANGED <<live, refs, toscan, marked>>

\* The programs are gone; gc_settable(0) flushes the collector.
Shutdown ==
    /\ phase = "run" /\ table # <<>>
    /\ refs' = [m \in Machines |-> {}]
    /\ live' = live \ Destroyed /\ marked' = marked \ Destroyed
    /\ table' = <<>> /\ exponent' = 0 /\ count' = 0 /\ flags' = 0
    /\ UNCHANGED <<toscan, phase>>

Next ==
    /\ \/ Start
       \/ \E m \in Machines, v \in host.handles : Create(m, v) \/ Drop(m, v)
       \/ \E m, n \in Machines, v \in host.handles : Share(m, n, v)
       \/ CollectStart \/ CollectEnd
       \/ \E m \in Machines : Scan(m)
       \/ Resize
       \/ Shutdown
    /\ UNCHANGED host

Spec == Init /\ [][Next]_vars

-----------------------------------------------------------------------------
TypeOK ==
    /\ host \in Hosts
    /\ table = <<>> \/ table \in [Slots(exponent) -> [value : host.handles \cup {0}, count : Nat]]
    /\ exponent \in 0 .. MaxExponent /\ count \in Nat /\ flags \in {0, 1}
    /\ live \subseteq host.handles /\ marked \subseteq live
    /\ refs \in [Machines -> SUBSET host.handles]
    /\ toscan \subseteq Machines /\ phase \in {"run", "scan", "halted"}

\* A probe for a value in the table ends at its slot, and every live object that
\* gc_mark has taken is in the table.
Chained ==
    /\ \A s \in DOMAIN table : table[s].value # 0 => Stop(table, exponent, table[s].value) = {s}
    /\ marked \subseteq Values(table)

\* The end of a collection.
Collects == phase = "scan" /\ phase' = "run"

\* A collection destroys the objects that no machine has a handle of and no
\* others, whatever handles share slots, whatever the table has grown from and
\* whatever earlier scans have counted, if the probes find what is in the table.
CollectedExactly == [][Collects /\ Chained => marked' = {v \in marked : \E m \in Machines : v \in refs[m]}]_vars

\* They do until a collection empties a slot: no other call loses a value,
\* unless it does not end.
ChainsKept == [][Chained /\ ~Collects /\ phase' # "halted" => Chained']_vars

\* Only unreferenced objects are destroyed: no machine holds the handle of an
\* object that is gone (GC_FREE's parameter is called "unreferenced").
NoDangling == \A m \in Machines : refs[m] \subseteq live
=============================================================================
