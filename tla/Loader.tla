------------------------------- MODULE Loader -------------------------------
(***************************************************************************)
(* Loading programs, cloning machines, binding natives and freeing it all  *)
(* (aux_LoadProgram and aux_FreeProgram in amxaux.c; amx_Init, amx_Clone,  *)
(* amx_Register and amx_Cleanup in amx.c).  What counts is who owns which  *)
(* block of memory and which library.                                      *)
(*                                                                         *)
(* heap is the sequence of the blocks that were ever allocated.  A block   *)
(* may hold the functions that natives are bound to (ntv) and the handles  *)
(* of libraries (lib).                                                     *)
(* The host passes no memory of its own (memblock is NULL), frees a clone  *)
(* before its source, and starts from AMX records that are all zeros.      *)
(***************************************************************************)
EXTENDS Integers, Sequences, FiniteSets, Functions

CONSTANTS
    Machines,       \* AMX records of the host
    Files,          \* the programs on disk: [defect, natives, libraries]
    Libs,           \* from the name of a library to [exists, init, provides]
    Lists,          \* the lists of natives that the host registers, as sequences of names
    Builds,         \* [wide, newexec]: how the host is compiled
    BLOCKS          \* bound: blocks that are ever allocated

Defects == {"none", "missing", "magic", "short", "version", "tables", "instruction"}

ASSUME LoaderAssumption ==
    /\ Files \subseteq [defect : Defects, natives : Seq(STRING), libraries : Seq(DOMAIN Libs)]
    /\ Libs \in [DOMAIN Libs -> [exists : BOOLEAN, init : BOOLEAN, provides : Seq(STRING)]]
    /\ DOMAIN Libs \subseteq STRING /\ Lists \subseteq Seq(STRING) /\ BLOCKS \in Nat
    /\ Builds \subseteq [wide : BOOLEAN, newexec : BOOLEAN]

VARIABLES
    build, heap,
    amx,            \* the AMX records
    open,           \* how often each library is open
    left,           \* blocks that a load that failed did not free
    err             \* what the last call returned

hostVars == <<build, heap, amx, open, left, err>>

\* No block, no function, no handle.
NULL == 0
UNBOUND == << >>

\* A block for an image with its tables, or for one table of n or k entries.
Block(kind, file, n, k) ==
    [kind |-> kind, file |-> file,
     ntv |-> [i \in 1 .. n |-> UNBOUND], lib |-> [i \in 1 .. k |-> UNBOUND]]
NOFILE == [defect |-> "missing", natives |-> << >>, libraries |-> << >>]
Table(kind, n, k) == Block(kind, NOFILE, n, k)
FREED == Table("freed", 0, 0)

Empty == [base |-> NULL, natives |-> NULL, libraries |-> NULL, instr_addresses |-> NULL,
          data |-> NULL, RELOC |-> FALSE, NTVREG |-> FALSE]

HostInit ==
    /\ build \in Builds
    /\ heap = << >> /\ left = {} /\ err = "AMX_ERR_NONE"
    /\ amx = [m \in Machines |-> Empty]
    /\ open = [l \in DOMAIN Libs |-> 0]

-----------------------------------------------------------------------------
\* Inside a call: h has the fields heap, amx (the record that the call works
\* on), open and err.  A block is named by its place in heap.
malloc(h, block) == [h EXCEPT !.heap = Append(@, block)]
newest(h) == Len(h.heap)
free(h, block) == IF block = NULL THEN h ELSE [h EXCEPT !.heap[block] = FREED]
Live(blocks) == {b \in DOMAIN blocks : blocks[b].kind # "freed"}
Err(h, e) == [h EXCEPT !.err = e]
Here(m) == [heap |-> heap, amx |-> amx[m], open |-> open, err |-> "AMX_ERR_NONE"]
Return(m, h) ==
    /\ heap' = h.heap /\ open' = h.open /\ err' = h.err
    /\ amx' = [amx EXCEPT ![m] = h.amx]
    /\ UNCHANGED build

\* With pointers wider than a cell the functions and the handles do not fit
\* in the header, they have blocks of their own.
NativesOf(a) == IF build.wide THEN a.natives ELSE a.base
LibrariesOf(a) == IF build.wide THEN a.libraries ELSE a.base

FileOf(h) == h.heap[h.amx.base].file

findfunction(name, list, from) == IF name \in Range(list) THEN <<name, from>> ELSE UNBOUND

\* Bugs: the last list wins; the flag does not wait for the last native.
Bound(h) == h.heap[NativesOf(h.amx)].ntv
amx_RegisterLast(h, list, from) ==
    LET names == FileOf(h).natives
        found == [i \in DOMAIN names |->
                    IF names[i] \in Range(list) THEN <<names[i], from>> ELSE Bound(h)[i]]
    IN  IF names = << >> THEN [h EXCEPT !.amx.NTVREG = TRUE]
        ELSE [h EXCEPT !.heap[NativesOf(h.amx)].ntv = found,
                       !.amx.NTVREG = \A i \in DOMAIN found : found[i] # UNBOUND]
amx_RegisterFlag(h, list, from) ==
    LET names == FileOf(h).natives
        found == [i \in DOMAIN names |->
                    IF Bound(h)[i] = UNBOUND THEN findfunction(names[i], list, from) ELSE Bound(h)[i]]
    IN  IF names = << >> THEN [h EXCEPT !.amx.NTVREG = TRUE]
        ELSE [h EXCEPT !.heap[NativesOf(h.amx)].ntv = found, !.amx.NTVREG = found[Len(found)] # UNBOUND]

\* Functions that are located already stay as they are.
amx_Register(h, list, from) ==
    LET names == FileOf(h).natives
        found == [i \in DOMAIN names |->
                    IF Bound(h)[i] = UNBOUND THEN findfunction(names[i], list, from) ELSE Bound(h)[i]]
        all == \A i \in DOMAIN found : found[i] # UNBOUND
        bound == IF names = << >> THEN h
                 ELSE [h EXCEPT !.heap[NativesOf(h.amx)].ntv = found]
    IN  IF all THEN Err([bound EXCEPT !.amx.NTVREG = TRUE], "AMX_ERR_NONE")
        ELSE Err(bound, "AMX_ERR_NOTFOUND")

\* An extension module is opened and initialized; one that is not there, or
\* has no such function, is ignored.
OpenLibrary(h, i) ==
    LET name == FileOf(h).libraries[i]
        opened == [h EXCEPT !.open[name] = @ + 1, !.heap[LibrariesOf(h.amx)].lib[i] = <<name>>]
    IN  IF ~Libs[name].exists THEN h
        ELSE IF Libs[name].init THEN amx_Register(opened, Libs[name].provides, name) ELSE opened

OpenLibraries(h) ==
    LET k == Len(FileOf(h).libraries)
        opened[i \in 0 .. k] == IF i = 0 THEN h ELSE OpenLibrary(opened[i - 1], i)
    IN  opened[k]

\* The blocks that amx_Init allocates: functions and handles in a build with
\* wide pointers; in between VerifyRelocateBytecode has the addresses of the
\* instructions, which are a field of the machine or a local variable.
AllocNatives(h) ==
    LET n == Len(FileOf(h).natives)
        h1 == malloc(h, Table("natives", n, 0))
    IN  IF ~build.wide \/ n = 0 THEN h ELSE [h1 EXCEPT !.amx.natives = newest(h1)]
AllocAddresses(h) ==
    LET h1 == malloc(h, Table("addresses", 0, 0))
    IN  IF build.newexec THEN [h1 EXCEPT !.amx.instr_addresses = newest(h1)] ELSE h1
AllocLibraries(h) ==
    LET h1 == malloc(h, Table("libraries", 0, Len(FileOf(h).libraries)))
    IN  IF build.wide THEN [h1 EXCEPT !.amx.libraries = newest(h1)] ELSE h

\* oom: the block that there is no memory for.
amx_Init(h, oom) ==
    LET started == [h EXCEPT !.amx.base = newest(h)]
        file == FileOf(started)
        vector == AllocNatives(started)
        walked == AllocAddresses(vector)
        kept == [IF build.newexec THEN walked ELSE free(walked, newest(walked)) EXCEPT !.amx.RELOC = TRUE]
    IN  CASE file.defect = "version" -> Err(h, "AMX_ERR_VERSION")
          [] oom = "natives" /\ build.wide /\ file.natives # << >> -> Err(started, "AMX_ERR_MEMORY")
          [] file.defect = "tables" -> Err(vector, "AMX_ERR_FORMAT")
          [] oom = "instr" -> Err(vector, "AMX_ERR_MEMORY")
          [] file.defect = "instruction" -> Err(walked, "AMX_ERR_INVINSTR")
          [] oom = "libraries" /\ build.wide -> Err(kept, "AMX_ERR_MEMORY")
          [] OTHER -> Err(OpenLibraries(AllocLibraries(kept)), "AMX_ERR_NONE")

aux_LoadProgram(h, file, oom) ==
    LET read == malloc(h, Block("image", file, Len(file.natives), Len(file.libraries)))
        done == amx_Init([read EXCEPT !.amx = Empty], oom)
    IN  CASE file.defect = "missing" -> Err(h, "AMX_ERR_NOTFOUND")
          [] file.defect = "magic" -> Err(h, "AMX_ERR_FORMAT")
          [] oom = "image" -> Err(h, "AMX_ERR_MEMORY")
          [] file.defect = "short" -> Err(read, "AMX_ERR_FORMAT")
          [] OTHER -> IF done.err = "AMX_ERR_NONE" THEN done
                      ELSE [free(done, newest(read)) EXCEPT !.amx.base = NULL]

\* Library by library: its Cleanup function, then it is closed.
CloseLibrary(h, i) ==
    LET handle == h.heap[LibrariesOf(h.amx)].lib[i]
    IN  IF handle = UNBOUND THEN h ELSE [h EXCEPT !.open[handle[1]] = @ - 1]
\* Bug: only the first library is closed.
amx_CleanupFirst(h) ==
    LET none == FileOf(h).libraries = << >>
    IN  free(free(free(IF none THEN h ELSE CloseLibrary(h, 1), h.amx.libraries), h.amx.natives),
             h.amx.instr_addresses)
amx_Cleanup(h) ==
    LET k == Len(FileOf(h).libraries)
        closed[i \in 0 .. k] == IF i = 0 THEN h ELSE CloseLibrary(closed[i - 1], i)
    IN  free(free(free(closed[k], h.amx.libraries), h.amx.natives), h.amx.instr_addresses)

-----------------------------------------------------------------------------
\* The calls of a host.
Load(m) ==
    /\ amx[m].base = NULL /\ Len(heap) + 4 <= BLOCKS
    /\ \E file \in Files, oom \in {"none", "image", "natives", "instr", "libraries"} :
          LET h == aux_LoadProgram(Here(m), file, oom)
          IN  /\ Return(m, h)
              /\ left' = IF h.err = "AMX_ERR_NONE" THEN left ELSE left \cup (Live(h.heap) \ DOMAIN heap)

Register(m) ==
    /\ amx[m].base # NULL /\ amx[m].data = NULL
    /\ \E list \in Lists : Return(m, amx_Register(Here(m), list, "host"))
    /\ UNCHANGED left

\* The host allocates the data of the clone; its fields stay as they are,
\* except for those that amx_Clone sets.  The pointers to tables are not
\* among them: with wide pointers a clone has no natives of its own.
Clone(m) ==
    \E source \in Machines \ {m} :
        /\ amx[m] = Empty /\ amx[source].base # NULL /\ Len(heap) < BLOCKS
        /\ LET a == amx[source]
               h == malloc(Here(m), Table("data", 0, 0))
           IN  IF ~a.RELOC THEN Return(m, Err(Here(m), "AMX_ERR_INIT"))
               ELSE Return(m, [h EXCEPT !.amx.base = a.base, !.amx.data = newest(h),
                                        !.amx.RELOC = a.RELOC, !.amx.NTVREG = a.NTVREG])
        /\ UNCHANGED left

\* Up to the first instruction: natives that are missing are looked for once
\* more, in no list.  A clone that needs a table and has none reads through
\* NULL and ends the host.
Exec(m) ==
    /\ amx[m].base # NULL
    /\ amx[m].NTVREG \/ NativesOf(amx[m]) # NULL \/ FileOf(Here(m)).natives = << >>
    /\ Return(m, IF ~amx[m].RELOC THEN Err(Here(m), "AMX_ERR_INIT")
                 ELSE IF amx[m].NTVREG THEN Here(m)
                 ELSE amx_Register(Here(m), << >>, "host"))
    /\ UNCHANGED left

Free(m) ==
    /\ amx[m].base # NULL /\ amx[m].data = NULL
    /\ \A c \in Machines \ {m} : amx[c].base # amx[m].base
    /\ Return(m, [free(amx_Cleanup(Here(m)), amx[m].base) EXCEPT !.amx = Empty])
    /\ UNCHANGED left
FreeClone(m) ==
    /\ amx[m].data # NULL
    /\ Return(m, [free(Here(m), amx[m].data) EXCEPT !.amx = Empty])
    /\ UNCHANGED left

HostNext == \E m \in Machines : Load(m) \/ Register(m) \/ Clone(m) \/ Exec(m) \/ Free(m) \/ FreeClone(m)

-----------------------------------------------------------------------------
Loaded == {m \in Machines : amx[m].base # NULL}
Pointers(a) == {a.base, a.natives, a.libraries, a.instr_addresses, a.data} \ {NULL}

Handles(blocks, l) ==
    {p \in UNION {{b} \X DOMAIN blocks[b].lib : b \in Live(blocks)} : blocks[p[1]].lib[p[2]] = <<l>>}

(***************************************************************************)
(* Memory and libraries are owned: a machine with a program only refers to *)
(* live blocks, every live block belongs to one (or was left by a load     *)
(* that failed), and a library is open as often as there are handles of    *)
(* it.  It takes loads, clones and frees in the wrong order to break this. *)
(***************************************************************************)
Owned ==
    /\ \A m \in Loaded : Pointers(amx[m]) \subseteq Live(heap)
    /\ Live(heap) \subseteq left \cup UNION {Pointers(amx[m]) : m \in Loaded}
    /\ \A l \in DOMAIN Libs : open[l] = Cardinality(Handles(heap, l))

(***************************************************************************)
(* A machine that is marked as complete (AMX_FLAG_NTVREG), or a clone of   *)
(* one, calls functions that exist: in the table of the machine that the   *)
(* program was loaded into each native is bound, to the host or to a       *)
(* library that has not been closed.  (Where a cell holds a pointer that   *)
(* is the table of the clones too.)                                        *)
(***************************************************************************)
Exists(f, name) == f # UNBOUND /\ f[1] = name /\ (f[2] = "host" \/ open[f[2]] > 0)
NativesExist ==
    \A m \in Loaded : amx[m].NTVREG =>
        \E s \in Loaded :
            /\ amx[s].base = amx[m].base /\ amx[s].data = NULL
            /\ LET names == heap[amx[s].base].file.natives
               IN  \A i \in DOMAIN names : Exists(heap[NativesOf(amx[s])].ntv[i], names[i])

(***************************************************************************)
(* A native that is bound keeps its function as long as the program is     *)
(* loaded, whatever is registered later, by the host or by a library of    *)
(* another machine.                                                        *)
(***************************************************************************)
BoundOnce ==
    [][\A b \in Live(heap) \cap Live(heap') :
            \A i \in DOMAIN heap[b].ntv :
                heap[b].ntv[i] # UNBOUND => heap'[b].ntv[i] = heap[b].ntv[i]]_hostVars

=============================================================================
