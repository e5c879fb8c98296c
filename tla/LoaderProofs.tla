---------------------------- MODULE LoaderProofs ----------------------------
(***************************************************************************)
(* Proofs about loading, cloning and freeing, for any number of machines,  *)
(* programs, libraries, lists of natives and blocks of memory: memory and  *)
(* libraries are owned (Owned), natives that are marked as bound exist     *)
(* (NativesExist), a binding stays (BoundOnce).                            *)
(*                                                                         *)
(* None of the three is inductive.  LoaderInv, at the end, adds to them    *)
(* that a machine with a program is Sound (each pointer is to a block of   *)
(* its kind, each table has an entry for each name, each native is bound   *)
(* to the host or to a library whose handle the machine has) or Stripped   *)
(* (a clone in a build with wide pointers: it has no tables), that no      *)
(* block goes with two machines (Separate), that a clone has a source that *)
(* is still loaded (Rooted), whose table is complete if a stripped clone   *)
(* is marked so (Vouched), and that handles are in the tables for them     *)
(* (Holder).                                                               *)
(*                                                                         *)
(* The calls are taken apart first: h and t are the state inside a call,   *)
(* r what it leaves.  The two loops over the libraries of a program are    *)
(* recursive functions; lemma Loops gives them a run with an invariant.    *)
(***************************************************************************)
EXTENDS Loader, Iteration, FiniteSetTheorems

-----------------------------------------------------------------------------
(* Types.                                                                  *)

FileType == [defect : Defects, natives : Seq(STRING), libraries : Seq(DOMAIN Libs)]
Binding == {UNBOUND} \cup (STRING \X (STRING \cup {"host"}))
Handle == {UNBOUND} \cup {<<l>> : l \in DOMAIN Libs}
Kinds == {"image", "natives", "libraries", "addresses", "data", "freed"}
Errors == {"AMX_ERR_NONE", "AMX_ERR_NOTFOUND", "AMX_ERR_VERSION", "AMX_ERR_MEMORY", "AMX_ERR_FORMAT",
           "AMX_ERR_INVINSTR", "AMX_ERR_INIT"}
BlockType == [kind : Kinds, file : FileType, ntv : Seq(Binding), lib : Seq(Handle)]
AmxType == [base : Nat, natives : Nat, libraries : Nat, instr_addresses : Nat, data : Nat,
            RELOC : BOOLEAN, NTVREG : BOOLEAN]
HostState == [heap : Seq(BlockType), amx : AmxType, open : [DOMAIN Libs -> Int], err : Errors]

TypeInv ==
    /\ build \in Builds /\ heap \in Seq(BlockType) /\ amx \in [Machines -> AmxType]
    /\ open \in [DOMAIN Libs -> Int] /\ err \in Errors

Is(hp, p, kind) == p \in DOMAIN hp /\ hp[p].kind = kind

\* The pointers of a machine with a program: an image, and the blocks that
\* the build calls for; a clone has its data only.
Placed(hp, a) ==
    /\ Is(hp, a.base, "image")
    /\ a.data = NULL =>
         /\ IF build.wide /\ hp[a.base].file.natives # << >>
            THEN Is(hp, a.natives, "natives") ELSE a.natives = NULL
         /\ IF build.wide THEN Is(hp, a.libraries, "libraries") ELSE a.libraries = NULL
         /\ IF build.newexec THEN Is(hp, a.instr_addresses, "addresses")
            ELSE a.instr_addresses = NULL
    /\ a.data # NULL =>
         /\ Is(hp, a.data, "data") /\ ~build.wide
         /\ a.natives = NULL /\ a.libraries = NULL /\ a.instr_addresses = NULL

\* Its tables have an entry for each name in the image.
Sized(hp, a) ==
    LET f == hp[a.base].file
    IN  /\ f.natives # << >> => DOMAIN hp[NativesOf(a)].ntv = DOMAIN f.natives
        /\ DOMAIN hp[LibrariesOf(a)].lib = DOMAIN f.libraries

\* A library whose handle the machine has.
Holds(hp, a, l) == \E j \in DOMAIN hp[LibrariesOf(a)].lib : hp[LibrariesOf(a)].lib[j] = <<l>>

\* A native is bound to a function of its name, of the host or of a library
\* that the machine holds; none is missing when it is marked as complete.
Sourced(hp, a) ==
    \A i \in DOMAIN hp[a.base].file.natives :
        LET f == hp[NativesOf(a)].ntv[i]
        IN  /\ f # UNBOUND => /\ f[1] = hp[a.base].file.natives[i]
                              /\ f[2] = "host" \/ Holds(hp, a, f[2])
            /\ a.NTVREG => f # UNBOUND

Sound(hp, a) == Placed(hp, a) /\ Sized(hp, a) /\ Sourced(hp, a)

\* A clone in a build with wide pointers has the image and its data only.
Stripped(hp, a) ==
    /\ build.wide /\ Is(hp, a.base, "image") /\ a.data # NULL /\ Is(hp, a.data, "data")
    /\ a.natives = NULL /\ a.libraries = NULL /\ a.instr_addresses = NULL
Fit(hp, a) == Sound(hp, a) \/ Stripped(hp, a)

\* No native is missing.
Complete(hp, a) ==
    \A i \in DOMAIN hp[a.base].file.natives : hp[NativesOf(a)].ntv[i] # UNBOUND

-----------------------------------------------------------------------------
(* Sequences and blocks.                                                   *)

\* An entry of a sequence is replaced.
LEMMA ExceptSeq ==
    ASSUME NEW S, NEW s \in Seq(S), NEW k \in DOMAIN s, NEW v \in S
    PROVE  LET t == [s EXCEPT ![k] = v]
           IN  /\ t \in Seq(S) /\ DOMAIN t = DOMAIN s /\ Len(t) = Len(s) /\ t[k] = v
               /\ \A i \in DOMAIN s : i # k => t[i] = s[i]
  OBVIOUS

\* An entry is added.
LEMMA AppendSeq ==
    ASSUME NEW S, NEW s \in Seq(S), NEW v \in S
    PROVE  LET t == Append(s, v)
           IN  /\ t \in Seq(S) /\ Len(t) = Len(s) + 1 /\ t[Len(t)] = v
               /\ DOMAIN t = 1 .. Len(s) + 1 /\ \A i \in DOMAIN s : t[i] = s[i]
  OBVIOUS

\* Records.
LEMMA NewBlock ==
    ASSUME NEW kind \in Kinds, NEW file \in FileType, NEW n \in Nat, NEW k \in Nat
    PROVE  LET b == Block(kind, file, n, k)
           IN  /\ b \in BlockType /\ b.kind = kind /\ b.file = file
               /\ DOMAIN b.ntv = 1 .. n /\ DOMAIN b.lib = 1 .. k
               /\ \A i \in 1 .. n : b.ntv[i] = UNBOUND
               /\ \A i \in 1 .. k : b.lib[i] = UNBOUND
<1>1. [i \in 1 .. n |-> UNBOUND] \in Seq(Binding)
  BY DEF Binding
<1>2. [i \in 1 .. k |-> UNBOUND] \in Seq(Handle)
  BY DEF Handle
<1> QED BY <1>1, <1>2 DEF Block, BlockType

\* The program of a block that is no image.
LEMMA NoFile == NOFILE \in FileType
<1>1. << >> \in Seq(STRING) /\ << >> \in Seq(DOMAIN Libs)
  OBVIOUS
<1>2. "missing" \in Defects
  BY DEF Defects
<1> QED BY <1>1, <1>2 DEF NOFILE, FileType

\* What is left of a block that is freed.
LEMMA FreedBlock ==
    /\ FREED \in BlockType /\ FREED.kind = "freed" /\ DOMAIN FREED.lib = {} /\ DOMAIN FREED.ntv = {}
<1> DEFINE b == Block("freed", NOFILE, 0, 0)
<1>1. FREED = b
  BY DEF FREED, Table
<1>2. 1 .. 0 = {}
  OBVIOUS
<1>3. 0 \in Nat
  OBVIOUS
<1>5. "freed" \in Kinds
  BY DEF Kinds
<1>4. /\ b \in BlockType /\ b.kind = "freed"
      /\ DOMAIN b.ntv = 1 .. 0 /\ DOMAIN b.lib = 1 .. 0
  BY <1>3, <1>5, NewBlock, NoFile
<1> QED BY <1>1, <1>2, <1>4

\* A function, a handle and none are told apart.
LEMMA Bindings ==
    /\ \A x, y : <<x, y>> # UNBOUND /\ <<x, y>>[1] = x /\ <<x, y>>[2] = y
    /\ \A x : <<x>> # UNBOUND
    /\ \A x, y : <<x>> = <<y>> => x = y
    /\ \A x \in STRING, y \in STRING \cup {"host"} : <<x, y>> \in Binding
    /\ UNBOUND \in Binding /\ UNBOUND \in Handle
    /\ \A l \in DOMAIN Libs : <<l>> \in Handle
  BY DEF UNBOUND, Binding, Handle

\* A block is added, the others stay.
LEMMA MallocFacts ==
    ASSUME NEW h \in HostState, NEW b \in BlockType
    PROVE  LET r == malloc(h, b)
           IN  /\ r \in HostState /\ r.amx = h.amx /\ r.open = h.open /\ r.err = h.err
               /\ newest(r) = Len(h.heap) + 1 /\ DOMAIN r.heap = 1 .. Len(h.heap) + 1
               /\ r.heap[newest(r)] = b /\ \A p \in DOMAIN h.heap : r.heap[p] = h.heap[p]
<1>1. h.heap \in Seq(BlockType)
  BY DEF HostState
<1> DEFINE hp == Append(h.heap, b)
<1>2. /\ hp \in Seq(BlockType) /\ Len(hp) = Len(h.heap) + 1 /\ hp[Len(hp)] = b
      /\ DOMAIN hp = 1 .. Len(h.heap) + 1 /\ \A i \in DOMAIN h.heap : hp[i] = h.heap[i]
  BY <1>1, AppendSeq
<1> HIDE DEF hp
<1>3. malloc(h, b) = [h EXCEPT !.heap = hp]
  BY DEF malloc, hp
<1> QED BY <1>2, <1>3 DEF HostState, newest

\* One block is replaced by what is left of it.
LEMMA FreeFacts ==
    ASSUME NEW h \in HostState, NEW p, p = NULL \/ p \in DOMAIN h.heap
    PROVE  LET r == free(h, p)
           IN  /\ r \in HostState /\ r.amx = h.amx /\ r.open = h.open /\ r.err = h.err
               /\ DOMAIN r.heap = DOMAIN h.heap
               /\ \A b \in DOMAIN h.heap : r.heap[b] = IF b = p THEN FREED ELSE h.heap[b]
<1>1. h.heap \in Seq(BlockType) /\ 0 \notin DOMAIN h.heap
  BY DEF HostState
<1>2. CASE p = NULL
  BY <1>1, <1>2 DEF free, NULL
<1>3. CASE p # NULL
  <2> DEFINE hp == [h.heap EXCEPT ![p] = FREED]
  <2>1. /\ hp \in Seq(BlockType) /\ DOMAIN hp = DOMAIN h.heap /\ hp[p] = FREED
        /\ \A i \in DOMAIN h.heap : i # p => hp[i] = h.heap[i]
    BY <1>1, <1>3, ExceptSeq, FreedBlock
  <2> HIDE DEF hp
  <2>2. free(h, p) = [h EXCEPT !.heap = hp]
    BY <1>3 DEF free, hp
  <2> QED BY <2>1, <2>2 DEF HostState
<1> QED BY <1>2, <1>3

-----------------------------------------------------------------------------
(* Natives are bound.                                                      *)

\* The heap but for natives in block k that were unbound and now have the
\* function of their name in from.
Rebinds(hp, hp2, k, names, from) ==
    /\ hp2 \in Seq(BlockType) /\ DOMAIN hp2 = DOMAIN hp
    /\ \A b \in DOMAIN hp :
         /\ hp2[b].kind = hp[b].kind /\ hp2[b].file = hp[b].file /\ hp2[b].lib = hp[b].lib
         /\ DOMAIN hp2[b].ntv = DOMAIN hp[b].ntv
         /\ \A i \in DOMAIN hp[b].ntv :
              hp2[b].ntv[i] # hp[b].ntv[i] =>
                  b = k /\ hp[b].ntv[i] = UNBOUND /\ hp2[b].ntv[i] = <<names[i], from>>

\* amx_Register changes one table, and marks the machine when it is full.
LEMMA RegisterFacts ==
    ASSUME NEW h \in HostState, Placed(h.heap, h.amx), Sized(h.heap, h.amx), build \in Builds,
           NEW list \in Seq(STRING), NEW from \in STRING \cup {"host"}
    PROVE  LET r == amx_Register(h, list, from)
           IN  /\ r \in HostState /\ r.open = h.open
               /\ Rebinds(h.heap, r.heap, NativesOf(h.amx), FileOf(h).natives, from)
               /\ r.amx = [h.amx EXCEPT !.NTVREG = r.amx.NTVREG]
               /\ list = << >> => r.heap = h.heap
               /\ r.amx.NTVREG =>
                    \/ h.amx.NTVREG
                    \/ \A i \in DOMAIN FileOf(h).natives : r.heap[NativesOf(h.amx)].ntv[i] # UNBOUND
<1> DEFINE names == FileOf(h).natives
           k == NativesOf(h.amx)
           old == Bound(h)
           found == [i \in DOMAIN names |->
                       IF old[i] = UNBOUND THEN findfunction(names[i], list, from) ELSE old[i]]
           all == \A i \in DOMAIN found : found[i] # UNBOUND
           bound == IF names = << >> THEN h ELSE [h EXCEPT !.heap[k].ntv = found]
           r == amx_Register(h, list, from)
<1>1. /\ h.heap \in Seq(BlockType) /\ h.amx \in AmxType /\ h.amx.base \in DOMAIN h.heap
      /\ names \in Seq(STRING) /\ old = h.heap[k].ntv
  <2>1. h.heap \in Seq(BlockType) /\ h.amx \in AmxType /\ h.amx.base \in DOMAIN h.heap
    BY DEF HostState, Placed, Is
  <2>2. h.heap[h.amx.base] \in BlockType
    BY <2>1
  <2> QED BY <2>1, <2>2 DEF BlockType, FileType, FileOf, Bound
<1>2. ASSUME names # << >> PROVE k \in DOMAIN h.heap /\ DOMAIN old = DOMAIN names
  BY <1>1, <1>2 DEF Placed, Sized, Is, NativesOf, FileOf
<1>3. ASSUME names # << >>
      PROVE  /\ found \in Seq(Binding) /\ DOMAIN found = DOMAIN old
             /\ \A i \in DOMAIN old : found[i] # old[i] => old[i] = UNBOUND /\ found[i] = <<names[i], from>>
  <2>1. h.heap[k] \in BlockType
    BY <1>1, <1>2, <1>3
  <2>2. old \in Seq(Binding)
    BY <1>1, <2>1 DEF BlockType
  <2>3. \A i \in DOMAIN names : findfunction(names[i], list, from) \in {UNBOUND, <<names[i], from>>}
    BY DEF findfunction
  <2>4. \A i \in DOMAIN names : <<names[i], from>> \in Binding
    <3> SUFFICES ASSUME NEW i \in DOMAIN names PROVE <<names[i], from>> \in Binding
      OBVIOUS
    <3>1. names[i] \in STRING
      BY <1>1
    <3> HIDE DEF names
    <3> QED BY <3>1, Bindings
  <2>5. \A i \in DOMAIN names : found[i] \in Binding
    <3> SUFFICES ASSUME NEW i \in DOMAIN names PROVE found[i] \in Binding
      OBVIOUS
    <3>1. i \in DOMAIN old /\ old[i] \in Binding
      BY <1>2, <1>3, <2>2
    <3>2. found[i] = old[i] \/ found[i] = UNBOUND \/ found[i] = <<names[i], from>>
      BY <2>3
    <3> HIDE DEF names, found, old
    <3> QED BY <2>4, <3>1, <3>2, Bindings
  <2>6. DOMAIN names = 1 .. Len(names) /\ Len(names) \in Nat
    BY <1>1
  <2>7. found \in Seq(Binding)
    <3> HIDE DEF names
    <3>1. found \in [1 .. Len(names) -> Binding]
      BY <2>5, <2>6
    <3> QED BY <2>6, <3>1
  <2> QED BY <1>2, <1>3, <2>3, <2>7
<1>4. /\ bound \in HostState /\ bound.open = h.open /\ bound.amx = h.amx
      /\ Rebinds(h.heap, bound.heap, k, names, from)
      /\ names # << >> => bound.heap[k].ntv = found
  <2>1. CASE names = << >>
    BY <1>1, <2>1 DEF Rebinds
  <2>2. CASE names # << >>
    <3> DEFINE block == [h.heap[k] EXCEPT !.ntv = found]
               hp == [h.heap EXCEPT ![k] = block]
    <3>1. h.heap[k] \in BlockType /\ k \in DOMAIN h.heap
      BY <1>1, <1>2, <2>2
    <3>2. /\ block \in BlockType /\ block.kind = h.heap[k].kind /\ block.file = h.heap[k].file
          /\ block.lib = h.heap[k].lib /\ block.ntv = found
      <4>1. found \in Seq(Binding)
        BY <1>3, <2>2
      <4> HIDE DEF found
      <4> QED BY <3>1, <4>1 DEF BlockType
    <3> HIDE DEF block
    <3>3. /\ hp \in Seq(BlockType) /\ DOMAIN hp = DOMAIN h.heap /\ hp[k] = block
          /\ \A i \in DOMAIN h.heap : i # k => hp[i] = h.heap[i]
      BY <1>1, <3>1, <3>2, ExceptSeq
    <3>4. bound = [h EXCEPT !.heap = hp]
      BY <2>2 DEF block
    <3> HIDE DEF hp, bound
    <3>5. bound \in HostState /\ bound.open = h.open /\ bound.amx = h.amx /\ bound.heap = hp
      BY <3>3, <3>4 DEF HostState
    <3>6. Rebinds(h.heap, hp, k, names, from)
      <4>1. DOMAIN found = DOMAIN old /\ old = h.heap[k].ntv
        BY <1>1, <1>3, <2>2
      <4>2. \A i \in DOMAIN old : found[i] # old[i] => old[i] = UNBOUND /\ found[i] = <<names[i], from>>
        BY <1>3, <2>2
      <4> HIDE DEF found, old, k, names
      <4> QED BY <3>2, <3>3, <4>1, <4>2 DEF Rebinds
    <3> QED BY <2>2, <3>2, <3>3, <3>5, <3>6
  <2> QED BY <2>1, <2>2
<1>5. r = IF all THEN Err([bound EXCEPT !.amx.NTVREG = TRUE], "AMX_ERR_NONE")
          ELSE Err(bound, "AMX_ERR_NOTFOUND")
  BY DEF amx_Register
<1>6. "AMX_ERR_NONE" \in Errors /\ "AMX_ERR_NOTFOUND" \in Errors
  BY DEF Errors
<1>7. /\ r \in HostState /\ r.open = bound.open /\ r.heap = bound.heap
      /\ r.amx = [h.amx EXCEPT !.NTVREG = r.amx.NTVREG]
      /\ r.amx.NTVREG => h.amx.NTVREG \/ all
  <2> HIDE DEF all, bound, r
  <2>1. bound.amx \in AmxType /\ bound.amx = h.amx /\ h.amx \in AmxType
    BY <1>1, <1>4
  <2>2. [h.amx EXCEPT !.NTVREG = TRUE] \in AmxType
    BY <2>1 DEF AmxType
  <2>3. CASE all
    <3>1. r = [bound EXCEPT !.amx = [h.amx EXCEPT !.NTVREG = TRUE], !.err = "AMX_ERR_NONE"]
      BY <1>4, <1>5, <2>3 DEF Err
    <3> QED BY <1>4, <1>6, <2>2, <2>3, <3>1 DEF HostState, AmxType
  <2>4. CASE ~all
    <3>1. r = [bound EXCEPT !.err = "AMX_ERR_NOTFOUND"]
      BY <1>5, <2>4 DEF Err
    <3>2. [h.amx EXCEPT !.NTVREG = h.amx.NTVREG] = h.amx
      BY <2>1 DEF AmxType
    <3> QED BY <1>4, <1>6, <2>1, <3>1, <3>2 DEF HostState
  <2> QED BY <2>3, <2>4
<1>8. all /\ names # << >> => \A i \in DOMAIN names : r.heap[k].ntv[i] # UNBOUND
  BY <1>4, <1>7
<1>9. names = << >> => DOMAIN names = {}
  OBVIOUS
<1>10. list = << >> => r.heap = h.heap
  <2> SUFFICES ASSUME list = << >> PROVE bound.heap = h.heap
    BY <1>7
  <2>1. Range(list) = {}
    BY DEF Range
  <2>2. CASE names = << >>
    BY <2>2
  <2>3. CASE names # << >>
    <3>1. \A i \in DOMAIN names : findfunction(names[i], list, from) = UNBOUND
      BY <2>1 DEF findfunction
    <3>2. \A i \in DOMAIN names : found[i] = old[i]
      BY <3>1
    <3>3. DOMAIN old = DOMAIN names /\ k \in DOMAIN h.heap /\ old = h.heap[k].ntv
      BY <1>1, <1>2, <2>3
    <3>4. h.heap[k] \in BlockType
      BY <1>1, <3>3
    <3>5. found = old
      <4>1. old = [i \in DOMAIN names |-> old[i]]
        BY <3>3, <3>4 DEF BlockType
      <4> QED BY <3>2, <4>1
    <3>6. [h.heap[k] EXCEPT !.ntv = old] = h.heap[k]
      BY <3>3, <3>4 DEF BlockType
    <3> DEFINE block == [h.heap[k] EXCEPT !.ntv = found]
               hp == [h.heap EXCEPT ![k] = block]
    <3>7. bound.heap = hp
      BY <2>3 DEF HostState
    <3>8. block = h.heap[k]
      BY <3>5, <3>6
    <3> HIDE DEF block
    <3>9. hp = h.heap
      BY <1>1, <3>3, <3>8
    <3> QED BY <3>7, <3>9
  <2> QED BY <2>2, <2>3
<1> QED BY <1>4, <1>7, <1>8, <1>9, <1>10

\* Other blocks are the same.
LEMMA RebindsSame ==
    ASSUME NEW hp \in Seq(BlockType), NEW hp2, NEW k, NEW names, NEW from,
           Rebinds(hp, hp2, k, names, from), NEW b \in DOMAIN hp, b # k
    PROVE  hp2[b] = hp[b]
<1>1. hp[b] \in BlockType /\ hp2[b] \in BlockType
  BY DEF Rebinds
<1>2. hp2[b].kind = hp[b].kind /\ hp2[b].file = hp[b].file /\ hp2[b].lib = hp[b].lib
  BY DEF Rebinds
<1>3. DOMAIN hp2[b].ntv = DOMAIN hp[b].ntv /\ \A i \in DOMAIN hp[b].ntv : hp2[b].ntv[i] = hp[b].ntv[i]
  BY DEF Rebinds
<1>4. hp2[b].ntv = hp[b].ntv
  BY <1>1, <1>3 DEF BlockType
<1>5. \A x \in BlockType : x = [kind |-> x.kind, file |-> x.file, ntv |-> x.ntv, lib |-> x.lib]
  BY DEF BlockType
<1> QED BY <1>1, <1>2, <1>4, <1>5

\* The machines that use block k stay sound if the function is of the host or
\* of a library they hold, and the others do in any case.
LEMMA RebindsKeep ==
    ASSUME NEW hp \in Seq(BlockType), NEW hp2, NEW k, NEW names, NEW from,
           Rebinds(hp, hp2, k, names, from), NEW a \in AmxType, Sound(hp, a),
           NativesOf(a) = k /\ k \in DOMAIN hp =>
             names = hp[a.base].file.natives /\ (from = "host" \/ Holds(hp, a, from))
    PROVE  Sound(hp2, a)
<1> DEFINE f == hp[a.base].file
           n == NativesOf(a)
           l == LibrariesOf(a)
<1>1. /\ DOMAIN hp2 = DOMAIN hp /\ a.base \in DOMAIN hp /\ l \in DOMAIN hp
      /\ f.natives # << >> => n \in DOMAIN hp
  BY DEF Sound, Placed, Is, NativesOf, LibrariesOf, Rebinds
<1>2. Placed(hp2, a)
  BY DEF Sound, Placed, Is, Rebinds
<1>3. hp2[a.base].file = f /\ hp2[l].lib = hp[l].lib
  BY <1>1 DEF Rebinds
<1>4. f.natives # << >> => DOMAIN hp2[n].ntv = DOMAIN hp[n].ntv
  BY <1>1 DEF Rebinds
<1>5. Sized(hp2, a)
  BY <1>3, <1>4 DEF Sound, Sized
<1>6. \A x : Holds(hp2, a, x) <=> Holds(hp, a, x)
  BY <1>3 DEF Holds
<1>7. ASSUME NEW i \in DOMAIN f.natives
      PROVE  LET g == hp2[n].ntv[i]
             IN  /\ g # UNBOUND => g[1] = f.natives[i] /\ (g[2] = "host" \/ Holds(hp2, a, g[2]))
                 /\ a.NTVREG => g # UNBOUND
  <2>1. n \in DOMAIN hp /\ i \in DOMAIN hp[n].ntv
    <3>1. f.natives # << >>
      BY <1>7
    <3> QED BY <1>1, <1>7, <3>1 DEF Sound, Sized
  <2>2. LET g == hp[n].ntv[i]
        IN  /\ g # UNBOUND => g[1] = f.natives[i] /\ (g[2] = "host" \/ Holds(hp, a, g[2]))
            /\ a.NTVREG => g # UNBOUND
    BY <1>7 DEF Sound, Sourced
  <2>3. CASE hp2[n].ntv[i] = hp[n].ntv[i]
    BY <1>6, <2>2, <2>3
  <2>4. CASE hp2[n].ntv[i] # hp[n].ntv[i]
    <3>1. n = k /\ hp[n].ntv[i] = UNBOUND /\ hp2[n].ntv[i] = <<names[i], from>>
      BY <2>1, <2>4 DEF Rebinds
    <3>2. names = f.natives /\ (from = "host" \/ Holds(hp2, a, from))
      BY <1>6, <2>1, <3>1
    <3> HIDE DEF n
    <3> QED BY <2>2, <3>1, <3>2, Bindings
  <2> QED BY <2>3, <2>4
<1>8. Sourced(hp2, a)
  <2> HIDE DEF f
  <2>1. hp2[a.base].file = f
    BY <1>3
  <2> QED BY <1>7, <2>1 DEF Sourced
<1> QED BY <1>2, <1>5, <1>8 DEF Sound

-----------------------------------------------------------------------------
(* The handles of libraries.                                               *)

\* A handle is in a block that is not freed.
LEMMA HandleIn ==
    ASSUME NEW hp, NEW l
    PROVE  \A p : p \in Handles(hp, l) <=>
             \E b \in Live(hp) : \E i \in DOMAIN hp[b].lib : p = <<b, i>> /\ hp[b].lib[i] = <<l>>
<1> TAKE p
<1>1. ASSUME NEW b \in Live(hp), NEW i \in DOMAIN hp[b].lib, p = <<b, i>>, hp[b].lib[i] = <<l>>
      PROVE  p \in Handles(hp, l)
  BY <1>1 DEF Handles
<1>2. ASSUME p \in Handles(hp, l)
      PROVE  \E b \in Live(hp) : \E i \in DOMAIN hp[b].lib : p = <<b, i>> /\ hp[b].lib[i] = <<l>>
  BY <1>2 DEF Handles
<1> QED BY <1>1, <1>2

\* Two heaps have the same handles if their blocks have.
Handling(hp, b, i, l) == b \in Live(hp) /\ i \in DOMAIN hp[b].lib /\ hp[b].lib[i] = <<l>>

LEMMA SameHandles ==
    ASSUME NEW hp, NEW hp2, NEW l, \A b, i : Handling(hp, b, i, l) <=> Handling(hp2, b, i, l)
    PROVE  Handles(hp2, l) = Handles(hp, l)
<1>1. \A p : p \in Handles(hp, l) <=> \E b, i : p = <<b, i>> /\ Handling(hp, b, i, l)
  BY HandleIn DEF Handling
<1>2. \A p : p \in Handles(hp2, l) <=> \E b, i : p = <<b, i>> /\ Handling(hp2, b, i, l)
  BY HandleIn DEF Handling
<1> QED BY <1>1, <1>2

-----------------------------------------------------------------------------
(* Registering and opening keep a machine sound.                           *)

\* A machine with all natives may be marked.
LEMMA MarkedSound ==
    ASSUME NEW hp, NEW a \in AmxType, NEW v \in BOOLEAN, Sound(hp, a),
           v => \/ a.NTVREG
                \/ \A i \in DOMAIN hp[a.base].file.natives : hp[NativesOf(a)].ntv[i] # UNBOUND
    PROVE  Sound(hp, [a EXCEPT !.NTVREG = v])
<1> DEFINE c == [a EXCEPT !.NTVREG = v]
<1>1. /\ c.base = a.base /\ c.natives = a.natives /\ c.libraries = a.libraries
      /\ c.instr_addresses = a.instr_addresses /\ c.data = a.data /\ c.NTVREG = v
  BY DEF AmxType
<1> HIDE DEF c
<1>2. NativesOf(c) = NativesOf(a) /\ LibrariesOf(c) = LibrariesOf(a)
  BY <1>1 DEF NativesOf, LibrariesOf
<1>3. Placed(hp, c) /\ Sized(hp, c)
  BY <1>1, <1>2 DEF Sound, Placed, Sized
<1>4. \A x : Holds(hp, c, x) <=> Holds(hp, a, x)
  BY <1>2 DEF Holds
<1>5. Sourced(hp, c)
  BY <1>1, <1>2, <1>4 DEF Sound, Sourced
<1> QED BY <1>3, <1>5 DEF Sound, c

\* A machine stays sound.
LEMMA RegisterSound ==
    ASSUME NEW h \in HostState, Sound(h.heap, h.amx), build \in Builds,
           NEW list \in Seq(STRING), NEW from \in STRING \cup {"host"},
           from = "host" \/ Holds(h.heap, h.amx, from)
    PROVE  LET r == amx_Register(h, list, from) IN Sound(r.heap, r.amx)
<1> DEFINE r == amx_Register(h, list, from)
<1>1. /\ r \in HostState
      /\ Rebinds(h.heap, r.heap, NativesOf(h.amx), FileOf(h).natives, from)
      /\ r.amx = [h.amx EXCEPT !.NTVREG = r.amx.NTVREG]
      /\ r.amx.NTVREG =>
           \/ h.amx.NTVREG
           \/ \A i \in DOMAIN FileOf(h).natives : r.heap[NativesOf(h.amx)].ntv[i] # UNBOUND
  BY RegisterFacts DEF Sound
<1> HIDE DEF r
<1>2. h.heap \in Seq(BlockType) /\ h.amx \in AmxType /\ r.amx.NTVREG \in BOOLEAN
  BY <1>1 DEF HostState, AmxType
<1>3. Sound(r.heap, h.amx)
  BY <1>1, <1>2, RebindsKeep DEF FileOf
<1>4. r.heap[h.amx.base].file = FileOf(h)
  BY <1>1 DEF Rebinds, Sound, Placed, Is, FileOf
<1>5. Sound(r.heap, [h.amx EXCEPT !.NTVREG = r.amx.NTVREG])
  BY <1>1, <1>2, <1>3, <1>4, MarkedSound
<1> QED BY <1>1, <1>5 DEF r

\* What a loop over the libraries of a machine may change.
Evolves(h, t) ==
    /\ t \in HostState /\ DOMAIN t.heap = DOMAIN h.heap
    /\ t.amx = [h.amx EXCEPT !.NTVREG = t.amx.NTVREG]
    /\ \A b \in DOMAIN h.heap :
         /\ t.heap[b].kind = h.heap[b].kind /\ t.heap[b].file = h.heap[b].file
         /\ DOMAIN t.heap[b].lib = DOMAIN h.heap[b].lib
         /\ b # LibrariesOf(h.amx) => t.heap[b].lib = h.heap[b].lib
         /\ b \notin {NativesOf(h.amx), LibrariesOf(h.amx)} => t.heap[b] = h.heap[b]

Counted(h) ==
    \A l \in DOMAIN Libs :
        IsFiniteSet(Handles(h.heap, l)) /\ h.open[l] = Cardinality(Handles(h.heap, l))

\* No handle changes.
LEMMA RegisterEvolves ==
    ASSUME NEW h \in HostState, Sound(h.heap, h.amx), build \in Builds,
           NEW list \in Seq(STRING), NEW from \in STRING \cup {"host"}
    PROVE  LET r == amx_Register(h, list, from)
           IN  /\ Evolves(h, r) /\ r.open = h.open
               /\ \A b \in DOMAIN h.heap : r.heap[b].lib = h.heap[b].lib
               /\ \A l : Handles(r.heap, l) = Handles(h.heap, l)
<1> DEFINE r == amx_Register(h, list, from)
<1>1. /\ r \in HostState /\ r.open = h.open
      /\ Rebinds(h.heap, r.heap, NativesOf(h.amx), FileOf(h).natives, from)
      /\ r.amx = [h.amx EXCEPT !.NTVREG = r.amx.NTVREG]
  BY RegisterFacts DEF Sound
<1> HIDE DEF r
<1>2. h.heap \in Seq(BlockType)
  BY DEF HostState
<1>3. \A b \in DOMAIN h.heap : b # NativesOf(h.amx) => r.heap[b] = h.heap[b]
  BY <1>1, <1>2, RebindsSame
<1>4. Evolves(h, r)
  BY <1>1, <1>3 DEF Evolves, Rebinds
<1>5. \A b \in DOMAIN h.heap : r.heap[b].lib = h.heap[b].lib
  BY <1>1 DEF Rebinds
<1>6. \A l : Handles(r.heap, l) = Handles(h.heap, l)
  <2> TAKE l
  <2>1. \A b, i : Handling(h.heap, b, i, l) <=> Handling(r.heap, b, i, l)
    BY <1>1 DEF Handling, Live, Rebinds
  <2> QED BY <2>1, SameHandles
<1> QED BY <1>1, <1>4, <1>5, <1>6 DEF r

\* A handle more.
LEMMA OneMore ==
    ASSUME NEW hp, NEW hp2, NEW b \in Live(hp), NEW i \in DOMAIN hp[b].lib, NEW name,
           hp[b].lib[i] = UNBOUND, hp2[b].lib[i] = <<name>>, Live(hp2) = Live(hp),
           \A c \in Live(hp) : DOMAIN hp2[c].lib = DOMAIN hp[c].lib,
           \A c \in Live(hp) : \A j \in DOMAIN hp[c].lib :
               <<c, j>> # <<b, i>> => hp2[c].lib[j] = hp[c].lib[j]
    PROVE  /\ Handles(hp2, name) = Handles(hp, name) \cup {<<b, i>>}
           /\ <<b, i>> \notin Handles(hp, name)
           /\ \A l : l # name => Handles(hp2, l) = Handles(hp, l)
<1>1. \A l, p : p \in Handles(hp, l) <=>
        \E c \in Live(hp) : \E j \in DOMAIN hp[c].lib : p = <<c, j>> /\ hp[c].lib[j] = <<l>>
  BY HandleIn
<1>2. \A l, p : p \in Handles(hp2, l) <=>
        \E c \in Live(hp) : \E j \in DOMAIN hp[c].lib : p = <<c, j>> /\ hp2[c].lib[j] = <<l>>
  BY HandleIn
<1>3. \A l : <<l>> # UNBOUND
  BY Bindings
<1>4. \A p : p \in Handles(hp2, name) <=> p \in Handles(hp, name) \cup {<<b, i>>}
  BY <1>1, <1>2, <1>3
<1>5. <<b, i>> \notin Handles(hp, name)
  <2> SUFFICES ASSUME NEW c \in Live(hp), NEW j \in DOMAIN hp[c].lib,
                      <<b, i>> = <<c, j>>, hp[c].lib[j] = <<name>>
               PROVE  FALSE
    BY <1>1
  <2>1. c = b /\ j = i
    OBVIOUS
  <2> QED BY <1>3, <2>1
<1>6. ASSUME NEW l, l # name PROVE \A p : p \in Handles(hp2, l) <=> p \in Handles(hp, l)
  <2>1. <<l>> # <<name>>
    BY <1>6, Bindings
  <2>2. \A c \in Live(hp) : \A j \in DOMAIN hp[c].lib :
          hp2[c].lib[j] = <<l>> <=> hp[c].lib[j] = <<l>>
    <3> SUFFICES ASSUME NEW c \in Live(hp), NEW j \in DOMAIN hp[c].lib, <<c, j>> = <<b, i>>
                 PROVE  hp2[c].lib[j] # <<l>> /\ hp[c].lib[j] # <<l>>
      OBVIOUS
    <3>1. c = b /\ j = i
      OBVIOUS
    <3> QED BY <1>3, <2>1, <3>1
  <2> QED BY <1>1, <1>2, <2>2
<1>7. Handles(hp2, name) = Handles(hp, name) \cup {<<b, i>>}
  BY <1>4
<1>8. ASSUME NEW l, l # name PROVE Handles(hp2, l) = Handles(hp, l)
  <2>1. \A p : p \in Handles(hp2, l) <=> p \in Handles(hp, l)
    BY ONLY <1>6, <1>8
  <2> QED BY ONLY <2>1
<1> QED BY <1>5, <1>7, <1>8

\* Nothing is a change too.
LEMMA EvolvesSelf ==
    ASSUME NEW h \in HostState
    PROVE  Evolves(h, h)
<1>1. h.amx \in AmxType
  BY DEF HostState
<1>2. [h.amx EXCEPT !.NTVREG = h.amx.NTVREG] = h.amx
  BY <1>1 DEF AmxType
<1> QED BY <1>2 DEF Evolves

\* Changes add up.
LEMMA EvolvesOn ==
    ASSUME NEW h \in HostState, NEW t, NEW u, Evolves(h, t), Evolves(t, u)
    PROVE  Evolves(h, u)
<1>1. h.amx \in AmxType
  BY DEF HostState
<1>2. u.amx = [h.amx EXCEPT !.NTVREG = u.amx.NTVREG]
  <2>1. \A x, y : [[h.amx EXCEPT !.NTVREG = x] EXCEPT !.NTVREG = y] = [h.amx EXCEPT !.NTVREG = y]
    BY <1>1 DEF AmxType
  <2> QED BY <2>1 DEF Evolves
<1>3. NativesOf(t.amx) = NativesOf(h.amx) /\ LibrariesOf(t.amx) = LibrariesOf(h.amx)
  <2>1. t.amx = [h.amx EXCEPT !.NTVREG = t.amx.NTVREG]
    BY DEF Evolves
  <2>2. t.amx.base = h.amx.base /\ t.amx.natives = h.amx.natives /\ t.amx.libraries = h.amx.libraries
    BY <1>1, <2>1 DEF AmxType
  <2> QED BY <2>2 DEF NativesOf, LibrariesOf
<1> QED BY <1>2, <1>3 DEF Evolves

\* A library is opened, its handle is kept, and its natives are bound.
LEMMA OpenFacts ==
    ASSUME NEW h \in HostState, Sound(h.heap, h.amx), build \in Builds, Counted(h),
           NEW i \in DOMAIN FileOf(h).libraries,
           h.heap[LibrariesOf(h.amx)].lib[i] = UNBOUND
    PROVE  LET r == OpenLibrary(h, i)
           IN  /\ Evolves(h, r) /\ Sound(r.heap, r.amx) /\ Counted(r)
               /\ \A j \in DOMAIN FileOf(h).libraries :
                    j # i => r.heap[LibrariesOf(h.amx)].lib[j] = h.heap[LibrariesOf(h.amx)].lib[j]
<1> DEFINE name == FileOf(h).libraries[i]
           b == LibrariesOf(h.amx)
           lib == [h.heap[b].lib EXCEPT ![i] = <<name>>]
           block == [h.heap[b] EXCEPT !.lib = lib]
           hp == [h.heap EXCEPT ![b] = block]
           times == [h.open EXCEPT ![name] = @ + 1]
           opened == [h EXCEPT !.open[name] = @ + 1, !.heap[b].lib[i] = <<name>>]
           r == OpenLibrary(h, i)
<1>1. /\ h.heap \in Seq(BlockType) /\ h.amx \in AmxType /\ h.open \in [DOMAIN Libs -> Int]
      /\ h.amx.base \in DOMAIN h.heap /\ b \in DOMAIN h.heap
      /\ DOMAIN h.heap[b].lib = DOMAIN FileOf(h).libraries
  BY DEF HostState, Sound, Placed, Sized, Is, LibrariesOf, FileOf
<1>2. h.heap[b] \in BlockType /\ name \in DOMAIN Libs /\ i \in DOMAIN h.heap[b].lib
  <2>1. h.heap[h.amx.base] \in BlockType /\ h.heap[b] \in BlockType
    BY <1>1
  <2>2. FileOf(h).libraries \in Seq(DOMAIN Libs)
    BY <2>1 DEF BlockType, FileType, FileOf
  <2> QED BY <1>1, <2>1, <2>2
<1>3. h.heap[b].kind \in {"image", "libraries"}
  BY DEF Sound, Placed, Is, LibrariesOf
<1>4. /\ lib \in Seq(Handle) /\ DOMAIN lib = DOMAIN h.heap[b].lib /\ lib[i] = <<name>>
      /\ \A j \in DOMAIN lib : j # i => lib[j] = h.heap[b].lib[j]
  <2>1. h.heap[b].lib \in Seq(Handle)
    BY <1>2 DEF BlockType
  <2>2. <<name>> \in Handle
    BY <1>2, Bindings
  <2> HIDE DEF name, b
  <2> QED BY <1>2, <2>1, <2>2, ExceptSeq
<1>5. /\ block \in BlockType /\ block.kind = h.heap[b].kind /\ block.file = h.heap[b].file
      /\ block.ntv = h.heap[b].ntv /\ block.lib = lib
  <2> HIDE DEF lib
  <2> QED BY <1>2, <1>4 DEF BlockType
<1>6. /\ hp \in Seq(BlockType) /\ DOMAIN hp = DOMAIN h.heap /\ hp[b] = block
      /\ \A c \in DOMAIN h.heap : c # b => hp[c] = h.heap[c]
  <2> HIDE DEF block, b
  <2> QED BY <1>1, <1>5, ExceptSeq
<1>7. times \in [DOMAIN Libs -> Int]
  <2> HIDE DEF name
  <2> QED BY <1>1, <1>2
<1>8. opened = [h EXCEPT !.open = times, !.heap = hp]
  OBVIOUS
<1> HIDE DEF opened, times, hp
<1>9. /\ opened \in HostState /\ opened.heap = hp /\ opened.open = times /\ opened.amx = h.amx
  BY <1>6, <1>7, <1>8 DEF HostState
<1>10. Evolves(h, opened)
  <2>1. [h.amx EXCEPT !.NTVREG = h.amx.NTVREG] = h.amx
    BY <1>1 DEF AmxType
  <2> HIDE DEF block, lib, b
  <2>2. \A c \in DOMAIN h.heap :
          /\ hp[c].kind = h.heap[c].kind /\ hp[c].file = h.heap[c].file
          /\ DOMAIN hp[c].lib = DOMAIN h.heap[c].lib
          /\ c # b => hp[c] = h.heap[c]
    BY <1>1, <1>4, <1>5, <1>6
  <2> QED BY <1>1, <1>6, <1>9, <2>1, <2>2 DEF Evolves, b
<1>11. /\ Handles(hp, name) = Handles(h.heap, name) \cup {<<b, i>>}
       /\ <<b, i>> \notin Handles(h.heap, name)
       /\ \A l : l # name => Handles(hp, l) = Handles(h.heap, l)
  <2> HIDE DEF block, lib, b, name
  <2>1. Live(hp) = Live(h.heap) /\ b \in Live(h.heap)
    BY <1>1, <1>3, <1>5, <1>6 DEF Live
  <2>2. \A c \in Live(h.heap) : DOMAIN hp[c].lib = DOMAIN h.heap[c].lib
    BY <1>4, <1>5, <1>6 DEF Live
  <2>3. \A c \in Live(h.heap) : \A j \in DOMAIN h.heap[c].lib :
          <<c, j>> # <<b, i>> => hp[c].lib[j] = h.heap[c].lib[j]
    BY <1>4, <1>5, <1>6 DEF Live
  <2>4. h.heap[b].lib[i] = UNBOUND /\ hp[b].lib[i] = <<name>>
    BY <1>4, <1>5, <1>6 DEF b
  <2>5. i \in DOMAIN h.heap[b].lib
    BY <1>2
  <2> HIDE DEF hp
  <2> QED BY ONLY <2>1, <2>2, <2>3, <2>4, <2>5, OneMore
<1>12. Counted(opened)
  <2> SUFFICES ASSUME NEW l \in DOMAIN Libs
               PROVE  IsFiniteSet(Handles(hp, l)) /\ times[l] = Cardinality(Handles(hp, l))
    BY <1>9 DEF Counted
  <2>1. IsFiniteSet(Handles(h.heap, l)) /\ h.open[l] = Cardinality(Handles(h.heap, l))
    BY DEF Counted
  <2>2. CASE l = name
    <3>1. times[l] = h.open[l] + 1
      BY <1>1, <1>2, <2>2 DEF times
    <3> HIDE DEF b, name
    <3> QED BY <1>11, <2>1, <2>2, <3>1, FS_AddElement
  <2>3. CASE l # name
    <3>1. times[l] = h.open[l]
      BY <1>1, <1>2, <2>3 DEF times
    <3> QED BY <1>11, <2>1, <2>3, <3>1
  <2> QED BY <2>2, <2>3
<1>13. Sound(hp, h.amx)
  <2> HIDE DEF block, lib
  <2>1. \A c \in DOMAIN h.heap :
          /\ hp[c].kind = h.heap[c].kind /\ hp[c].file = h.heap[c].file
          /\ hp[c].ntv = h.heap[c].ntv /\ DOMAIN hp[c].lib = DOMAIN h.heap[c].lib
    BY <1>4, <1>5, <1>6
  <2>2. Placed(hp, h.amx)
    BY <1>6, <2>1 DEF Sound, Placed, Is
  <2>3. FileOf(h).natives # << >> => NativesOf(h.amx) \in DOMAIN h.heap
    BY <1>1 DEF Sound, Placed, Is, NativesOf, FileOf
  <2>4. Sized(hp, h.amx)
    BY <1>1, <2>1, <2>3 DEF Sound, Sized, FileOf
  <2>5. \A x : Holds(h.heap, h.amx, x) => Holds(hp, h.amx, x)
    <3> TAKE x
    <3> SUFFICES ASSUME NEW j \in DOMAIN h.heap[b].lib, h.heap[b].lib[j] = <<x>>
                 PROVE  j \in DOMAIN hp[b].lib /\ hp[b].lib[j] = <<x>>
      BY DEF Holds
    <3>1. j # i
      BY Bindings
    <3> QED BY <1>4, <1>5, <1>6, <3>1
  <2>6. Sourced(hp, h.amx)
    <3>1. DOMAIN FileOf(h).natives # {} => FileOf(h).natives # << >>
      OBVIOUS
    <3>2. hp[h.amx.base].file = h.heap[h.amx.base].file
      BY <1>1, <2>1
    <3>3. FileOf(h).natives # << >> => hp[NativesOf(h.amx)].ntv = h.heap[NativesOf(h.amx)].ntv
      BY <2>1, <2>3
    <3> QED BY <2>5, <3>1, <3>2, <3>3 DEF Sound, Sourced, FileOf
  <2> QED BY <2>2, <2>4, <2>6 DEF Sound
<1>14. Holds(hp, h.amx, name)
  <2>1. hp[b].lib[i] = <<name>> /\ i \in DOMAIN hp[b].lib
    BY <1>2, <1>4, <1>5, <1>6
  <2> QED BY <2>1 DEF Holds
<1>15. \A j \in DOMAIN FileOf(h).libraries : j # i => opened.heap[b].lib[j] = h.heap[b].lib[j]
  <2>1. opened.heap[b].lib = lib
    BY <1>1, <1>5, <1>6, <1>9
  <2> HIDE DEF lib, b, block
  <2> QED BY <1>1, <1>4, <2>1 DEF b
<1>16. CASE ~Libs[name].exists
  <2>1. r = h
    BY <1>16 DEF OpenLibrary
  <2> QED BY <2>1, EvolvesSelf
<1>17. CASE Libs[name].exists /\ ~Libs[name].init
  <2>1. r = opened
    BY <1>17 DEF OpenLibrary, opened
  <2> QED BY <1>9, <1>10, <1>12, <1>13, <1>15, <2>1
<1>18. CASE Libs[name].exists /\ Libs[name].init
  <2> DEFINE list == Libs[name].provides
  <2>1. r = amx_Register(opened, list, name)
    BY <1>18 DEF OpenLibrary, opened
  <2>2. list \in Seq(STRING) /\ name \in STRING \cup {"host"}
    BY <1>2, LoaderAssumption
  <2>3. Sound(opened.heap, opened.amx) /\ Holds(opened.heap, opened.amx, name)
    BY <1>9, <1>13, <1>14
  <2> HIDE DEF name, list, r, b, block, lib
  <2>4. Sound(r.heap, r.amx)
    BY <1>9, <2>1, <2>2, <2>3, RegisterSound
  <2>5. /\ Evolves(opened, r) /\ r.open = opened.open
        /\ \A c \in DOMAIN opened.heap : r.heap[c].lib = opened.heap[c].lib
        /\ \A l : Handles(r.heap, l) = Handles(opened.heap, l)
    BY <1>9, <2>1, <2>2, <2>3, RegisterEvolves
  <2>6. Evolves(h, r)
    BY <1>10, <2>5, EvolvesOn
  <2>7. Counted(r)
    BY <1>12, <2>5 DEF Counted
  <2>8. b \in DOMAIN opened.heap
    BY <1>1, <1>6, <1>9
  <2> QED BY <1>15, <2>4, <2>5, <2>6, <2>7, <2>8 DEF b, r
<1> QED BY <1>16, <1>17, <1>18

-----------------------------------------------------------------------------
(* The loops over the libraries of a machine.                              *)

\* n libraries have been opened, the handles of the others are not set.
Opened(h, n, t) ==
    /\ Evolves(h, t) /\ Sound(t.heap, t.amx) /\ Counted(t)
    /\ \A j \in DOMAIN FileOf(h).libraries : j > n => t.heap[LibrariesOf(h.amx)].lib[j] = UNBOUND

\* The machine stays where it is.
LEMMA EvolvesPlace ==
    ASSUME NEW h \in HostState, NEW t, Evolves(h, t), Sound(h.heap, h.amx)
    PROVE  /\ t \in HostState /\ FileOf(t) = FileOf(h) /\ t.amx.base = h.amx.base
           /\ LibrariesOf(t.amx) = LibrariesOf(h.amx) /\ NativesOf(t.amx) = NativesOf(h.amx)
           /\ Pointers(t.amx) = Pointers(h.amx) /\ t.amx.data = h.amx.data
<1>1. h.amx \in AmxType /\ t.amx = [h.amx EXCEPT !.NTVREG = t.amx.NTVREG]
  BY DEF HostState, Evolves
<1>2. /\ t.amx.base = h.amx.base /\ t.amx.natives = h.amx.natives /\ t.amx.libraries = h.amx.libraries
      /\ t.amx.data = h.amx.data /\ t.amx.instr_addresses = h.amx.instr_addresses
  BY <1>1 DEF AmxType
<1>3. h.amx.base \in DOMAIN h.heap
  BY DEF Sound, Placed, Is
<1>4. Pointers(t.amx) = Pointers(h.amx)
  BY <1>2 DEF Pointers
<1> QED BY <1>2, <1>3, <1>4 DEF Evolves, FileOf, NativesOf, LibrariesOf

\* The libraries of a program are numbered from one.
LEMMA LibraryCount ==
    ASSUME NEW h \in HostState, Sound(h.heap, h.amx)
    PROVE  /\ Len(FileOf(h).libraries) \in Nat
           /\ DOMAIN FileOf(h).libraries = 1 .. Len(FileOf(h).libraries)
<1>1. h.heap \in Seq(BlockType) /\ h.amx.base \in DOMAIN h.heap
  BY DEF HostState, Sound, Placed, Is
<1>2. h.heap[h.amx.base] \in BlockType
  BY <1>1
<1>3. FileOf(h).libraries \in Seq(DOMAIN Libs)
  BY <1>2 DEF FileOf, BlockType, FileType
<1> QED BY <1>3

\* All libraries are opened.
LEMMA OpenAll ==
    ASSUME NEW h \in HostState, Sound(h.heap, h.amx), build \in Builds, Counted(h),
           \A j \in DOMAIN FileOf(h).libraries : h.heap[LibrariesOf(h.amx)].lib[j] = UNBOUND
    PROVE  LET r == OpenLibraries(h) IN Evolves(h, r) /\ Sound(r.heap, r.amx) /\ Counted(r)
<1> DEFINE k == Len(FileOf(h).libraries)
           T == {p \in (0 .. k) \X HostState : Opened(h, p[1], p[2])}
           step == [p \in (1 .. k) \X HostState |-> OpenLibrary(p[2], p[1])]
           IsRun(g) == g = [i \in 0 .. k |-> IF i = 0 THEN h ELSE OpenLibrary(g[i - 1], i)]
           run == CHOOSE g : IsRun(g)
<1>1. k \in Nat /\ DOMAIN FileOf(h).libraries = 1 .. k
  BY LibraryCount
<1>2. <<0, h>> \in T
  <2>1. Opened(h, 0, h)
    BY EvolvesSelf DEF Opened
  <2> QED BY <1>1, <2>1
<1>3. ASSUME NEW n \in 0 .. k, NEW x \in HostState, <<n, x>> \in T, n < k
      PROVE  <<n + 1, step[<<n + 1, x>>]>> \in T
  <2> DEFINE m == n + 1
             y == OpenLibrary(x, m)
  <2>1. m \in 1 .. k /\ m \in 0 .. k /\ m > n /\ \A j \in 1 .. k : j > m => j > n /\ j # m
    BY <1>1, <1>3
  <2> HIDE DEF m, k
  <2>2. Opened(h, n, x)
    BY <1>3
  <2>3. /\ FileOf(x) = FileOf(h) /\ LibrariesOf(x.amx) = LibrariesOf(h.amx)
    BY <2>2, EvolvesPlace DEF Opened
  <2>4. m \in DOMAIN FileOf(x).libraries /\ x.heap[LibrariesOf(x.amx)].lib[m] = UNBOUND
    BY <1>1, <2>1, <2>2, <2>3 DEF Opened
  <2>5. /\ Evolves(x, y) /\ Sound(y.heap, y.amx) /\ Counted(y)
        /\ \A j \in DOMAIN FileOf(x).libraries :
             j # m => y.heap[LibrariesOf(x.amx)].lib[j] = x.heap[LibrariesOf(x.amx)].lib[j]
    BY <2>2, <2>4, OpenFacts DEF Opened
  <2> HIDE DEF y
  <2>6. Evolves(h, y)
    BY <2>2, <2>5, EvolvesOn DEF Opened
  <2>7. Opened(h, m, y)
    BY <1>1, <2>1, <2>2, <2>3, <2>5, <2>6 DEF Opened
  <2>8. y \in HostState
    BY <2>5 DEF Evolves
  <2>9. step[<<m, x>>] = y
    BY <2>1 DEF y
  <2> HIDE DEF step
  <2>10. <<m, step[<<m, x>>]>> \in T
    BY <2>1, <2>7, <2>8, <2>9
  <2> QED BY <2>10 DEF m
<1>4. PICK f : Repeats(f, k, h, step, T)
  <2>1. T \in SUBSET ((0 .. k) \X HostState)
    OBVIOUS
  <2> HIDE DEF k, T, step
  <2> QED BY <1>1, <1>2, <1>3, <2>1, Loops
<1>5. \A n \in 0 .. k : f[n] \in HostState /\ Opened(h, n, f[n])
  BY <1>4 DEF Repeats
<1>6. IsRun(f)
  <2>1. f = [n \in 0 .. k |-> IF n = 0 THEN h ELSE step[<<n, f[n - 1]>>]]
    BY <1>4 DEF Repeats
  <2>2. ASSUME NEW n \in 0 .. k, n # 0 PROVE step[<<n, f[n - 1]>>] = OpenLibrary(f[n - 1], n)
    <3>1. n \in 1 .. k /\ n - 1 \in 0 .. k
      BY <1>1, <2>2
    <3>2. <<n, f[n - 1]>> \in (1 .. k) \X HostState
      BY <1>5, <3>1
    <3> QED BY <3>2
  <2> HIDE DEF step
  <2> QED BY <2>1, <2>2
<1>7. ASSUME NEW g, IsRun(g) PROVE g[k] \in HostState /\ Opened(h, k, g[k])
  <2> DEFINE U == {n \in 0 .. k : g[n] = f[n]}
  <2>1. 0 \in U
    BY <1>1, <1>6, <1>7
  <2>2. ASSUME NEW n \in 0 .. k, n \in U, n < k PROVE n + 1 \in U
    <3> DEFINE m == n + 1
    <3>1. m \in 0 .. k /\ m # 0 /\ m - 1 = n
      BY <1>1, <2>2
    <3> HIDE DEF m
    <3>2. g[m] = OpenLibrary(g[n], m) /\ f[m] = OpenLibrary(f[n], m)
      BY <1>6, <1>7, <3>1
    <3> QED BY <2>2, <3>1, <3>2 DEF m
  <2> HIDE DEF U, k
  <2>3. 0 .. k \subseteq U
    BY <1>1, <2>1, <2>2, UpTo
  <2>4. k \in 0 .. k
    BY <1>1
  <2> QED BY <1>5, <2>3, <2>4 DEF U
<1>8. IsRun(run)
  <2> HIDE DEF IsRun
  <2> QED BY <1>6
<1>9. OpenLibraries(h) = run[k]
  BY DEF OpenLibraries
<1>10. Opened(h, k, run[k])
  <2> HIDE DEF IsRun, k, run
  <2> QED BY <1>7, <1>8
<1> HIDE DEF run, k
<1> QED BY <1>9, <1>10 DEF Opened

\* n libraries have been closed.
First(h, n) == {<<LibrariesOf(h.amx), j>> : j \in 1 .. n}
Closed(h, n, t) ==
    /\ t \in HostState /\ t.heap = h.heap /\ t.amx = h.amx
    /\ \A l \in DOMAIN Libs : t.open[l] = Cardinality(Handles(h.heap, l) \ First(h, n))

\* A library is closed.
LEMMA CloseOne ==
    ASSUME NEW h \in HostState, Sound(h.heap, h.amx), Counted(h), NEW n \in Nat, NEW m \in Nat,
           m = n + 1, m \in DOMAIN FileOf(h).libraries, NEW x, Closed(h, n, x)
    PROVE  Closed(h, m, CloseLibrary(x, m))
<1> DEFINE b == LibrariesOf(h.amx)
           handle == h.heap[b].lib[m]
           r == CloseLibrary(x, m)
<1>1. /\ h.heap \in Seq(BlockType) /\ b \in Live(h.heap) /\ b \in DOMAIN h.heap
      /\ m \in DOMAIN h.heap[b].lib
  <2>1. h.heap \in Seq(BlockType) /\ b \in DOMAIN h.heap
    BY DEF HostState, Sound, Placed, Is, LibrariesOf
  <2>2. h.heap[b].kind \in {"image", "libraries"}
    BY DEF Sound, Placed, Is, LibrariesOf
  <2>3. m \in DOMAIN h.heap[b].lib
    BY DEF Sound, Sized, FileOf
  <2> QED BY <2>1, <2>2, <2>3 DEF Live
<1>2. handle \in Handle
  <2>1. h.heap[b] \in BlockType
    BY <1>1
  <2>2. h.heap[b].lib \in Seq(Handle)
    BY <2>1 DEF BlockType
  <2> QED BY <1>1, <2>2
<1>3. r = IF handle = UNBOUND THEN x ELSE [x EXCEPT !.open[handle[1]] = @ - 1]
  BY DEF CloseLibrary, Closed
<1>4. \A l : Handles(h.heap, l) \ First(h, m) = (Handles(h.heap, l) \ First(h, n)) \ {<<b, m>>}
  <2>1. 1 .. m = (1 .. n) \cup {m}
    OBVIOUS
  <2>2. First(h, m) = First(h, n) \cup {<<b, m>>}
    <3> HIDE DEF b
    <3> QED BY <2>1 DEF First, b
  <2> QED BY <2>2
<1>5. \A l : <<b, m>> \in Handles(h.heap, l) <=> handle = <<l>>
  <2> SUFFICES ASSUME NEW l PROVE <<b, m>> \in Handles(h.heap, l) <=> handle = <<l>>
    OBVIOUS
  <2>1. \A p : p \in Handles(h.heap, l) <=>
           \E c \in Live(h.heap) : \E i \in DOMAIN h.heap[c].lib : p = <<c, i>> /\ h.heap[c].lib[i] = <<l>>
    BY HandleIn
  <2> HIDE DEF b
  <2>2. \A c, i : <<b, m>> = <<c, i>> => c = b /\ i = m
    OBVIOUS
  <2> QED BY <1>1, <2>1, <2>2 DEF b
<1>6. <<b, m>> \notin First(h, n)
  <2>1. m \notin 1 .. n
    OBVIOUS
  <2> QED BY <2>1 DEF First
<1>7. \A l \in DOMAIN Libs :
        Cardinality(Handles(h.heap, l) \ First(h, m)) =
          IF handle = <<l>> THEN Cardinality(Handles(h.heap, l) \ First(h, n)) - 1
          ELSE Cardinality(Handles(h.heap, l) \ First(h, n))
  <2> SUFFICES ASSUME NEW l \in DOMAIN Libs
               PROVE  Cardinality(Handles(h.heap, l) \ First(h, m)) =
                        IF handle = <<l>> THEN Cardinality(Handles(h.heap, l) \ First(h, n)) - 1
                        ELSE Cardinality(Handles(h.heap, l) \ First(h, n))
    OBVIOUS
  <2> DEFINE S == Handles(h.heap, l) \ First(h, n)
  <2>1. IsFiniteSet(Handles(h.heap, l))
    BY DEF Counted
  <2>2. IsFiniteSet(S)
    BY <2>1, FS_Difference
  <2>3. <<b, m>> \in S <=> handle = <<l>>
    BY <1>5, <1>6
  <2>4. Handles(h.heap, l) \ First(h, m) = S \ {<<b, m>>}
    BY <1>4
  <2> HIDE DEF S, b, handle
  <2>5. Cardinality(S \ {<<b, m>>}) = IF <<b, m>> \in S THEN Cardinality(S) - 1 ELSE Cardinality(S)
    BY <2>2, FS_RemoveElement
  <2> QED BY <2>3, <2>4, <2>5 DEF S
<1>8. CASE handle = UNBOUND
  <2>1. r = x
    BY <1>3, <1>8
  <2>2. \A l : handle # <<l>>
    BY <1>8, Bindings
  <2> QED BY <1>7, <2>1, <2>2 DEF Closed
<1>9. CASE handle # UNBOUND
  <2>1. PICK l \in DOMAIN Libs : handle = <<l>>
    BY <1>2, <1>9 DEF Handle
  <2> DEFINE times == [x.open EXCEPT ![l] = @ - 1]
  <2>2. r = [x EXCEPT !.open = times]
    BY <1>3, <1>9, <2>1
  <2>3. x.open \in [DOMAIN Libs -> Int]
    BY DEF Closed, HostState
  <2>4. times \in [DOMAIN Libs -> Int]
    BY <2>3
  <2>5. \A l2 \in DOMAIN Libs : times[l2] = IF handle = <<l2>> THEN x.open[l2] - 1 ELSE x.open[l2]
    <3>1. \A l2 : handle = <<l2>> <=> l2 = l
      BY <2>1, Bindings
    <3> QED BY <2>3, <3>1
  <2> HIDE DEF times
  <2>6. r \in HostState /\ r.open = times /\ r.heap = x.heap /\ r.amx = x.amx
    BY <2>2, <2>4 DEF Closed, HostState
  <2> HIDE DEF r, handle, b
  <2>7. \A l2 \in DOMAIN Libs : x.open[l2] = Cardinality(Handles(h.heap, l2) \ First(h, n))
    BY DEF Closed
  <2>8. \A l2 \in DOMAIN Libs : times[l2] = Cardinality(Handles(h.heap, l2) \ First(h, m))
    BY ONLY <1>7, <2>5, <2>7
  <2> QED BY <2>6, <2>8 DEF Closed, r
<1> QED BY <1>8, <1>9

\* amx_Cleanup closes all and frees three blocks.
LEMMA CloseAll ==
    ASSUME NEW h \in HostState, Sound(h.heap, h.amx), Counted(h)
    PROVE  \E t : /\ Closed(h, Len(FileOf(h).libraries), t)
                  /\ amx_Cleanup(h) =
                       free(free(free(t, h.amx.libraries), h.amx.natives), h.amx.instr_addresses)
<1> DEFINE k == Len(FileOf(h).libraries)
           T == {p \in (0 .. k) \X HostState : Closed(h, p[1], p[2])}
           step == [p \in (1 .. k) \X HostState |-> CloseLibrary(p[2], p[1])]
           IsRun(g) == g = [i \in 0 .. k |-> IF i = 0 THEN h ELSE CloseLibrary(g[i - 1], i)]
           run == CHOOSE g : IsRun(g)
<1>1. k \in Nat /\ DOMAIN FileOf(h).libraries = 1 .. k
  BY LibraryCount
<1>2. <<0, h>> \in T
  <2>1. Closed(h, 0, h)
    <3>1. First(h, 0) = {}
      BY DEF First
    <3>2. \A l : Handles(h.heap, l) \ {} = Handles(h.heap, l)
      OBVIOUS
    <3> QED BY <3>1, <3>2 DEF Closed, Counted
  <2> QED BY <1>1, <2>1
<1>3. ASSUME NEW n \in 0 .. k, NEW x \in HostState, <<n, x>> \in T, n < k
      PROVE  <<n + 1, step[<<n + 1, x>>]>> \in T
  <2> DEFINE m == n + 1
             y == CloseLibrary(x, m)
  <2>1. m \in 1 .. k /\ m \in 0 .. k /\ m \in Nat /\ n \in Nat /\ m = n + 1
    BY <1>1, <1>3
  <2> HIDE DEF m, k
  <2>2. Closed(h, n, x)
    BY <1>3
  <2>3. Closed(h, m, y)
    BY <1>1, <2>1, <2>2, CloseOne
  <2>4. y \in HostState
    BY <2>3 DEF Closed
  <2>5. step[<<m, x>>] = y
    BY <2>1
  <2> HIDE DEF step, y
  <2>6. <<m, step[<<m, x>>]>> \in T
    BY <2>1, <2>3, <2>4, <2>5
  <2> QED BY <2>6 DEF m
<1>4. PICK f : Repeats(f, k, h, step, T)
  <2>1. T \in SUBSET ((0 .. k) \X HostState)
    OBVIOUS
  <2> HIDE DEF k, T, step
  <2> QED BY <1>1, <1>2, <1>3, <2>1, Loops
<1>5. \A n \in 0 .. k : f[n] \in HostState /\ Closed(h, n, f[n])
  BY <1>4 DEF Repeats
<1>6. IsRun(f)
  <2>1. f = [n \in 0 .. k |-> IF n = 0 THEN h ELSE step[<<n, f[n - 1]>>]]
    BY <1>4 DEF Repeats
  <2>2. ASSUME NEW n \in 0 .. k, n # 0 PROVE step[<<n, f[n - 1]>>] = CloseLibrary(f[n - 1], n)
    <3>1. n \in 1 .. k /\ n - 1 \in 0 .. k
      BY <1>1, <2>2
    <3>2. <<n, f[n - 1]>> \in (1 .. k) \X HostState
      BY <1>5, <3>1
    <3> QED BY <3>2
  <2> HIDE DEF step
  <2> QED BY <2>1, <2>2
<1>7. ASSUME NEW g, IsRun(g) PROVE Closed(h, k, g[k])
  <2> DEFINE U == {n \in 0 .. k : g[n] = f[n]}
  <2>1. 0 \in U
    BY <1>1, <1>6, <1>7
  <2>2. ASSUME NEW n \in 0 .. k, n \in U, n < k PROVE n + 1 \in U
    <3> DEFINE m == n + 1
    <3>1. m \in 0 .. k /\ m # 0 /\ m - 1 = n
      BY <1>1, <2>2
    <3> HIDE DEF m
    <3>2. g[m] = CloseLibrary(g[n], m) /\ f[m] = CloseLibrary(f[n], m)
      BY <1>6, <1>7, <3>1
    <3> QED BY <2>2, <3>1, <3>2 DEF m
  <2> HIDE DEF U, k
  <2>3. 0 .. k \subseteq U
    BY <1>1, <2>1, <2>2, UpTo
  <2>4. k \in 0 .. k
    BY <1>1
  <2> QED BY <1>5, <2>3, <2>4 DEF U
<1>8. IsRun(run)
  <2> HIDE DEF IsRun
  <2> QED BY <1>6
<1>9. amx_Cleanup(h) =
        free(free(free(run[k], h.amx.libraries), h.amx.natives), h.amx.instr_addresses)
  BY DEF amx_Cleanup
<1>10. Closed(h, k, run[k])
  <2> HIDE DEF IsRun, k, run
  <2> QED BY <1>7, <1>8
<1> HIDE DEF run
<1> QED BY <1>9, <1>10

-----------------------------------------------------------------------------
(* Loading.                                                                *)

\* Blocks are added, without handles.
Grown(h, t) ==
    /\ t \in HostState /\ t.open = h.open
    /\ DOMAIN h.heap \subseteq DOMAIN t.heap
    /\ \A b \in DOMAIN h.heap : t.heap[b] = h.heap[b]
    /\ \A b \in DOMAIN t.heap \ DOMAIN h.heap :
         \A j \in DOMAIN t.heap[b].lib : t.heap[b].lib[j] = UNBOUND

\* Only blocks that hold the handles of a program have any.
Holder(hp) ==
    \A b \in DOMAIN hp : \A j \in DOMAIN hp[b].lib :
        hp[b].lib[j] # UNBOUND => hp[b].kind = IF build.wide THEN "libraries" ELSE "image"

\* New blocks have no handles.
LEMMA GrownHandles ==
    ASSUME NEW h, NEW t, Grown(h, t)
    PROVE  /\ \A l : Handles(t.heap, l) = Handles(h.heap, l)
           /\ Counted(h) => Counted(t)
           /\ Holder(h.heap) => Holder(t.heap)
<1>1. \A l : Handles(t.heap, l) = Handles(h.heap, l)
  <2> TAKE l
  <2>1. \A b, i : Handling(h.heap, b, i, l) => Handling(t.heap, b, i, l)
    BY DEF Handling, Live, Grown
  <2>2. \A b, i : Handling(t.heap, b, i, l) => Handling(h.heap, b, i, l)
    <3> SUFFICES ASSUME NEW b, NEW i, Handling(t.heap, b, i, l) PROVE Handling(h.heap, b, i, l)
      OBVIOUS
    <3>1. b \in DOMAIN t.heap /\ i \in DOMAIN t.heap[b].lib /\ t.heap[b].lib[i] # UNBOUND
      BY Bindings DEF Handling, Live
    <3>2. b \in DOMAIN h.heap
      BY <3>1 DEF Grown
    <3> QED BY <3>2 DEF Handling, Live, Grown
  <2>3. \A b, i : Handling(h.heap, b, i, l) <=> Handling(t.heap, b, i, l)
    BY <2>1, <2>2
  <2> QED BY <2>3, SameHandles
<1>2. Counted(h) => Counted(t)
  BY <1>1 DEF Counted, Grown
<1>3. Holder(h.heap) => Holder(t.heap)
  BY DEF Grown, Holder
<1> QED BY <1>1, <1>2, <1>3

\* Growth adds up.
LEMMA GrownOn ==
    ASSUME NEW h, NEW t, NEW u, Grown(h, t), Grown(t, u)
    PROVE  Grown(h, u)
<1>1. \A b \in DOMAIN u.heap \ DOMAIN h.heap :
        \A j \in DOMAIN u.heap[b].lib : u.heap[b].lib[j] = UNBOUND
  <2> SUFFICES ASSUME NEW b \in DOMAIN u.heap, b \notin DOMAIN h.heap
               PROVE  \A j \in DOMAIN u.heap[b].lib : u.heap[b].lib[j] = UNBOUND
    OBVIOUS
  <2>1. CASE b \in DOMAIN t.heap
    BY <2>1 DEF Grown
  <2>2. CASE b \notin DOMAIN t.heap
    BY <2>2 DEF Grown
  <2> QED BY <2>1, <2>2
<1> QED BY <1>1 DEF Grown

\* The record of the machine and the error do not matter.
LEMMA GrownApart ==
    ASSUME NEW h, NEW t, NEW u \in HostState, Grown(h, t), u.heap = t.heap, u.open = t.open
    PROVE  Grown(h, u)
  BY DEF Grown

\* Nothing is growth too.
LEMMA GrownSelf ==
    ASSUME NEW h \in HostState
    PROVE  Grown(h, h)
  BY DEF Grown

\* A block is allocated.
LEMMA MallocGrows ==
    ASSUME NEW h \in HostState, NEW b \in BlockType, \A j \in DOMAIN b.lib : b.lib[j] = UNBOUND
    PROVE  LET r == malloc(h, b)
           IN  /\ Grown(h, r) /\ r.amx = h.amx /\ newest(r) = Len(h.heap) + 1
               /\ newest(r) \notin DOMAIN h.heap /\ newest(r) \in Nat \ {0}
               /\ DOMAIN r.heap = DOMAIN h.heap \cup {newest(r)} /\ r.heap[newest(r)] = b
<1> DEFINE r == malloc(h, b)
<1>1. /\ r \in HostState /\ r.amx = h.amx /\ r.open = h.open
      /\ newest(r) = Len(h.heap) + 1 /\ DOMAIN r.heap = 1 .. Len(h.heap) + 1
      /\ r.heap[newest(r)] = b /\ \A p \in DOMAIN h.heap : r.heap[p] = h.heap[p]
  BY MallocFacts
<1>2. h.heap \in Seq(BlockType)
  BY DEF HostState
<1>3. Len(h.heap) \in Nat /\ DOMAIN h.heap = 1 .. Len(h.heap)
  BY <1>2
<1> HIDE DEF r
<1>4. DOMAIN r.heap = DOMAIN h.heap \cup {newest(r)} /\ newest(r) \notin DOMAIN h.heap
  BY <1>1, <1>3
<1> QED BY <1>1, <1>3, <1>4 DEF Grown, r

\* A new block is freed again.
LEMMA FreeGrows ==
    ASSUME NEW h, NEW t, Grown(h, t), NEW p \in DOMAIN t.heap \ DOMAIN h.heap
    PROVE  LET r == free(t, p)
           IN  /\ Grown(h, r) /\ r.amx = t.amx /\ DOMAIN r.heap = DOMAIN t.heap
               /\ \A b \in DOMAIN t.heap : r.heap[b] = IF b = p THEN FREED ELSE t.heap[b]
<1> DEFINE r == free(t, p)
<1>1. /\ r \in HostState /\ r.amx = t.amx /\ r.open = t.open
      /\ DOMAIN r.heap = DOMAIN t.heap
      /\ \A b \in DOMAIN t.heap : r.heap[b] = IF b = p THEN FREED ELSE t.heap[b]
  BY FreeFacts DEF Grown
<1> HIDE DEF r
<1>2. DOMAIN FREED.lib = {}
  BY FreedBlock
<1>3. Grown(h, r)
  BY <1>1, <1>2 DEF Grown
<1> QED BY <1>1, <1>3 DEF r

Image(file) == Block("image", file, Len(file.natives), Len(file.libraries))

\* A machine in the making: its blocks are new, and new blocks are its own.
Building(h, t, file) ==
    /\ Grown(h, t) /\ t.amx.data = NULL /\ ~t.amx.NTVREG
    /\ Pointers(t.amx) \cap DOMAIN h.heap = {}
    /\ Live(t.heap) \ DOMAIN h.heap \subseteq Pointers(t.amx)
    /\ t.amx.base \in DOMAIN t.heap /\ t.heap[t.amx.base] = Image(file)
HasNatives(t, file) ==
    IF build.wide /\ file.natives # << >>
    THEN /\ t.amx.natives \in DOMAIN t.heap
         /\ t.heap[t.amx.natives] = Table("natives", Len(file.natives), 0)
    ELSE t.amx.natives = NULL
HasAddresses(t) ==
    IF build.newexec THEN Is(t.heap, t.amx.instr_addresses, "addresses")
    ELSE t.amx.instr_addresses = NULL
HasLibraries(t, file) ==
    IF build.wide
    THEN /\ t.amx.libraries \in DOMAIN t.heap
         /\ t.heap[t.amx.libraries] = Table("libraries", 0, Len(file.libraries))
    ELSE t.amx.libraries = NULL

\* A block more that the machine points to.
LEMMA Gains ==
    ASSUME NEW h, NEW t, NEW file, Building(h, t, file),
           NEW b \in BlockType, \A j \in DOMAIN b.lib : b.lib[j] = UNBOUND,
           NEW r \in HostState, r.heap = malloc(t, b).heap, r.open = t.open,
           r.amx.data = NULL, ~r.amx.NTVREG, r.amx.base = t.amx.base,
           Pointers(r.amx) = Pointers(t.amx) \cup {Len(t.heap) + 1}
    PROVE  /\ Building(h, r, file) /\ Grown(t, r)
           /\ Len(t.heap) + 1 \in DOMAIN r.heap /\ r.heap[Len(t.heap) + 1] = b
<1> DEFINE u == malloc(t, b)
           n == Len(t.heap) + 1
<1>1. /\ Grown(t, u) /\ n \notin DOMAIN t.heap
      /\ DOMAIN u.heap = DOMAIN t.heap \cup {n} /\ u.heap[n] = b /\ u.open = t.open
  BY MallocGrows DEF Building, Grown
<1> HIDE DEF u, n
<1>2. r.heap = u.heap
  BY DEF u
<1>3. Grown(t, r)
  BY <1>1, <1>2, GrownApart
<1>4. Grown(h, r)
  BY <1>3, GrownOn DEF Building
<1>5. DOMAIN h.heap \subseteq DOMAIN t.heap
  BY DEF Building, Grown
<1>6. Pointers(r.amx) \cap DOMAIN h.heap = {}
  BY <1>1, <1>5 DEF Building, n
<1>7. Live(r.heap) \ DOMAIN h.heap \subseteq Pointers(r.amx)
  <2>1. Live(r.heap) \subseteq Live(t.heap) \cup {n}
    BY <1>1, <1>2 DEF Live, Grown
  <2> QED BY <2>1 DEF Building, n
<1>8. r.amx.base \in DOMAIN r.heap /\ r.heap[r.amx.base] = Image(file)
  BY <1>3 DEF Building, Grown
<1> QED BY <1>1, <1>2, <1>3, <1>4, <1>6, <1>7, <1>8 DEF Building, n

\* The tables of a program.
LEMMA TableFacts ==
    ASSUME NEW file \in FileType
    PROVE  /\ Image(file) \in BlockType /\ Image(file).kind = "image" /\ Image(file).file = file
           /\ DOMAIN Image(file).ntv = DOMAIN file.natives
           /\ DOMAIN Image(file).lib = DOMAIN file.libraries
           /\ \A i \in DOMAIN file.natives : Image(file).ntv[i] = UNBOUND
           /\ \A i \in DOMAIN file.libraries : Image(file).lib[i] = UNBOUND
           /\ LET b == Table("natives", Len(file.natives), 0)
              IN  /\ b \in BlockType /\ b.kind = "natives" /\ DOMAIN b.ntv = DOMAIN file.natives
                  /\ DOMAIN b.lib = {} /\ \A i \in DOMAIN file.natives : b.ntv[i] = UNBOUND
           /\ LET b == Table("libraries", 0, Len(file.libraries))
              IN  /\ b \in BlockType /\ b.kind = "libraries" /\ DOMAIN b.lib = DOMAIN file.libraries
                  /\ \A i \in DOMAIN file.libraries : b.lib[i] = UNBOUND
           /\ \A kind \in {"addresses", "data"} :
                LET b == Table(kind, 0, 0)
                IN  b \in BlockType /\ b.kind = kind /\ DOMAIN b.lib = {} /\ DOMAIN b.ntv = {}
<1> DEFINE n == Len(file.natives)
           k == Len(file.libraries)
<1>1. /\ n \in Nat /\ k \in Nat /\ 0 \in Nat /\ 1 .. 0 = {}
      /\ DOMAIN file.natives = 1 .. n /\ DOMAIN file.libraries = 1 .. k
  BY DEF FileType
<1>2. Kinds = {"image", "natives", "libraries", "addresses", "data", "freed"}
  BY DEF Kinds
<1> HIDE DEF n, k
<1>3. /\ Image(file) = Block("image", file, n, k)
      /\ Table("natives", n, 0) = Block("natives", NOFILE, n, 0)
      /\ Table("libraries", 0, k) = Block("libraries", NOFILE, 0, k)
      /\ \A kind : Table(kind, 0, 0) = Block(kind, NOFILE, 0, 0)
  BY DEF Image, Table, n, k
<1>4. \A kind \in Kinds, f \in FileType, i \in Nat, j \in Nat :
        /\ Block(kind, f, i, j) \in BlockType /\ Block(kind, f, i, j).kind = kind
        /\ Block(kind, f, i, j).file = f
        /\ DOMAIN Block(kind, f, i, j).ntv = 1 .. i /\ DOMAIN Block(kind, f, i, j).lib = 1 .. j
        /\ \A x \in 1 .. i : Block(kind, f, i, j).ntv[x] = UNBOUND
        /\ \A x \in 1 .. j : Block(kind, f, i, j).lib[x] = UNBOUND
  BY NewBlock
<1>5. /\ Image(file) \in BlockType /\ Image(file).kind = "image" /\ Image(file).file = file
      /\ DOMAIN Image(file).ntv = DOMAIN file.natives
      /\ DOMAIN Image(file).lib = DOMAIN file.libraries
      /\ \A i \in DOMAIN file.natives : Image(file).ntv[i] = UNBOUND
      /\ \A i \in DOMAIN file.libraries : Image(file).lib[i] = UNBOUND
  BY <1>1, <1>2, <1>3, <1>4
<1>6. LET b == Table("natives", n, 0)
      IN  /\ b \in BlockType /\ b.kind = "natives" /\ DOMAIN b.ntv = DOMAIN file.natives
          /\ DOMAIN b.lib = {} /\ \A i \in DOMAIN file.natives : b.ntv[i] = UNBOUND
  BY <1>1, <1>2, <1>3, <1>4, NoFile
<1>7. LET b == Table("libraries", 0, k)
      IN  /\ b \in BlockType /\ b.kind = "libraries" /\ DOMAIN b.lib = DOMAIN file.libraries
          /\ \A i \in DOMAIN file.libraries : b.lib[i] = UNBOUND
  BY <1>1, <1>2, <1>3, <1>4, NoFile
<1>8. \A kind \in {"addresses", "data"} :
        LET b == Table(kind, 0, 0)
        IN  b \in BlockType /\ b.kind = kind /\ DOMAIN b.lib = {} /\ DOMAIN b.ntv = {}
  BY <1>1, <1>2, <1>3, <1>4, NoFile
<1> QED BY <1>5, <1>6, <1>7, <1>8 DEF n, k

\* The table of functions.
LEMMA NativesStage ==
    ASSUME NEW h, NEW t, NEW file \in FileType, Building(h, t, file), t.amx.natives = NULL
    PROVE  LET r == AllocNatives(t)
           IN  /\ Building(h, r, file) /\ HasNatives(r, file) /\ Grown(t, r)
               /\ r.amx.instr_addresses = t.amx.instr_addresses
               /\ r.amx.libraries = t.amx.libraries /\ r.amx.base = t.amx.base
<1> DEFINE b == Table("natives", Len(file.natives), 0)
           u == malloc(t, b)
           n == Len(t.heap) + 1
           r == AllocNatives(t)
<1>1. t \in HostState /\ t.amx \in AmxType /\ FileOf(t) = file
  BY TableFacts DEF Building, Grown, HostState, FileOf
<1>2. CASE ~build.wide \/ file.natives = << >>
  <2>1. Len(file.natives) = 0 <=> file.natives = << >>
    BY DEF FileType
  <2>2. r = t
    BY <1>1, <1>2, <2>1 DEF AllocNatives
  <2> QED BY <1>1, <1>2, <2>2, GrownSelf DEF HasNatives
<1>3. CASE build.wide /\ file.natives # << >>
  <2>1. Len(file.natives) # 0
    BY <1>3 DEF FileType
  <2>2. /\ u \in HostState /\ u.amx = t.amx /\ u.open = t.open /\ newest(u) = n /\ n \in Nat \ {0}
        /\ b \in BlockType /\ \A j \in DOMAIN b.lib : b.lib[j] = UNBOUND
    <3>1. b \in BlockType /\ DOMAIN b.lib = {}
      BY TableFacts
    <3> HIDE DEF b
    <3> QED BY <1>1, <3>1, MallocGrows DEF Grown
  <2>3. r = [u EXCEPT !.amx.natives = n]
    BY <1>1, <1>3, <2>1, <2>2 DEF AllocNatives
  <2> HIDE DEF u, n, r, b
  <2>4. /\ r \in HostState /\ r.heap = u.heap /\ r.open = u.open
        /\ r.amx = [t.amx EXCEPT !.natives = n]
    BY <1>1, <2>2, <2>3 DEF HostState, AmxType
  <2>5. /\ r.amx.natives = n /\ r.amx.base = t.amx.base /\ r.amx.libraries = t.amx.libraries
        /\ r.amx.instr_addresses = t.amx.instr_addresses /\ r.amx.data = t.amx.data
        /\ r.amx.NTVREG = t.amx.NTVREG
    BY <1>1, <2>4 DEF AmxType
  <2>6. Pointers(r.amx) = Pointers(t.amx) \cup {n}
    BY <2>2, <2>5 DEF Pointers, NULL
  <2>7. t.amx.data = NULL /\ ~t.amx.NTVREG
    BY DEF Building
  <2>8. Building(h, r, file) /\ Grown(t, r) /\ n \in DOMAIN r.heap /\ r.heap[n] = b
    <3>1. Building(h, t, file) /\ r \in HostState /\ b \in BlockType
      BY <2>2, <2>4, <2>5, <2>6, <2>7
    <3>2. \A j \in DOMAIN b.lib : b.lib[j] = UNBOUND
      BY <2>2, <2>4, <2>5, <2>6, <2>7
    <3>3. r.heap = malloc(t, b).heap /\ r.open = t.open
      BY <2>2, <2>4, <2>5, <2>6, <2>7 DEF u
    <3>4. r.amx.data = NULL /\ ~r.amx.NTVREG /\ r.amx.base = t.amx.base
      BY <2>2, <2>4, <2>5, <2>6, <2>7
    <3>5. Pointers(r.amx) = Pointers(t.amx) \cup {Len(t.heap) + 1}
      BY <2>6 DEF n
    <3> QED BY ONLY <3>1, <3>2, <3>3, <3>4, <3>5, Gains DEF n
  <2> QED BY <1>3, <2>5, <2>8 DEF HasNatives, b, r
<1> QED BY <1>2, <1>3

\* The addresses of the instructions, which may be local.
LEMMA AddressesStage ==
    ASSUME NEW h \in HostState, NEW t, NEW file \in FileType, Building(h, t, file),
           HasNatives(t, file), t.amx.instr_addresses = NULL
    PROVE  LET walked == AllocAddresses(t)
               r == [IF build.newexec THEN walked ELSE free(walked, newest(walked))
                       EXCEPT !.amx.RELOC = TRUE]
           IN  /\ Grown(t, walked) /\ walked.amx.base = t.amx.base
               /\ walked.amx.data = NULL
               /\ Building(h, r, file) /\ HasNatives(r, file) /\ HasAddresses(r) /\ Grown(t, r)
               /\ r.amx.libraries = t.amx.libraries /\ r.amx.base = t.amx.base
<1> DEFINE b == Table("addresses", 0, 0)
           u == malloc(t, b)
           n == Len(t.heap) + 1
           walked == AllocAddresses(t)
           freed == free(walked, newest(walked))
           r == [IF build.newexec THEN walked ELSE freed EXCEPT !.amx.RELOC = TRUE]
           Done == /\ Grown(t, walked) /\ walked.amx.base = t.amx.base /\ walked.amx.data = NULL
                   /\ Building(h, r, file) /\ HasNatives(r, file) /\ HasAddresses(r)
                   /\ Grown(t, r) /\ r.amx.libraries = t.amx.libraries
                   /\ r.amx.base = t.amx.base
<1>1. t \in HostState /\ t.amx \in AmxType
  BY DEF Building, Grown, HostState
<1>2. /\ u \in HostState /\ u.amx = t.amx /\ u.open = t.open /\ newest(u) = n /\ n \in Nat \ {0}
      /\ Grown(t, u) /\ DOMAIN u.heap = DOMAIN t.heap \cup {n} /\ n \notin DOMAIN t.heap
      /\ b \in BlockType /\ b.kind = "addresses" /\ \A j \in DOMAIN b.lib : b.lib[j] = UNBOUND
  BY <1>1, TableFacts, MallocGrows DEF Grown
<1>3. t.amx.data = NULL /\ ~t.amx.NTVREG
  BY DEF Building
<1>4. walked = IF build.newexec THEN [u EXCEPT !.amx.instr_addresses = n] ELSE u
  BY <1>2 DEF AllocAddresses
<1>5. ASSUME build.newexec PROVE Done
  <2> HIDE DEF u, n, b
  <2>1. walked = [u EXCEPT !.amx.instr_addresses = n]
    BY <1>4, <1>5
  <2>2. /\ walked \in HostState /\ walked.heap = u.heap /\ walked.open = u.open
        /\ walked.amx = [t.amx EXCEPT !.instr_addresses = n]
    <3>1. [t.amx EXCEPT !.instr_addresses = n] \in AmxType
      BY <1>1, <1>2 DEF AmxType
    <3>2. walked = [u EXCEPT !.amx = [t.amx EXCEPT !.instr_addresses = n]]
      BY <1>2, <2>1
    <3> HIDE DEF walked
    <3> QED BY <1>2, <3>1, <3>2 DEF HostState
  <2> HIDE DEF walked
  <2>3. r = [walked EXCEPT !.amx.RELOC = TRUE]
    BY <1>5
  <2> HIDE DEF r
  <2>4. /\ r \in HostState /\ r.heap = u.heap /\ r.open = u.open
        /\ r.amx = [t.amx EXCEPT !.instr_addresses = n, !.RELOC = TRUE]
    BY <1>1, <2>2, <2>3 DEF HostState, AmxType
  <2>5. /\ r.amx.instr_addresses = n /\ r.amx.base = t.amx.base /\ r.amx.libraries = t.amx.libraries
        /\ r.amx.natives = t.amx.natives /\ r.amx.data = t.amx.data
        /\ r.amx.NTVREG = t.amx.NTVREG
        /\ walked.amx.base = t.amx.base /\ walked.amx.data = NULL
    BY <1>1, <1>3, <2>2, <2>4 DEF AmxType
  <2>6. Pointers(r.amx) = Pointers(t.amx) \cup {n}
    BY <1>2, <2>5 DEF Pointers, NULL
  <2>7. Building(h, r, file) /\ Grown(t, r) /\ n \in DOMAIN r.heap /\ r.heap[n] = b
    <3>1. Building(h, t, file) /\ r \in HostState /\ b \in BlockType
      BY <1>2, <1>3, <2>4, <2>5, <2>6
    <3>2. \A j \in DOMAIN b.lib : b.lib[j] = UNBOUND
      BY <1>2, <1>3, <2>4, <2>5, <2>6
    <3>3. r.heap = malloc(t, b).heap /\ r.open = t.open
      BY <1>2, <1>3, <2>4, <2>5, <2>6 DEF u
    <3>4. r.amx.data = NULL /\ ~r.amx.NTVREG /\ r.amx.base = t.amx.base
      BY <1>2, <1>3, <2>4, <2>5, <2>6
    <3>5. Pointers(r.amx) = Pointers(t.amx) \cup {Len(t.heap) + 1}
      BY <2>6 DEF n
    <3> QED BY ONLY <3>1, <3>2, <3>3, <3>4, <3>5, Gains DEF n
  <2>8. Grown(t, walked)
    BY <1>2, <2>2, GrownApart
  <2>9. HasNatives(r, file)
    BY <2>5, <2>7 DEF HasNatives, Grown
  <2>10. HasAddresses(r)
    BY <1>2, <1>5, <2>5, <2>7 DEF HasAddresses, Is
  <2> QED BY <2>5, <2>7, <2>8, <2>9, <2>10
<1>6. ASSUME ~build.newexec PROVE Done
  <2>1. walked = u
    BY <1>4, <1>6
  <2> HIDE DEF u, n, b, walked
  <2>2. /\ Grown(t, freed) /\ freed.amx = t.amx /\ DOMAIN freed.heap = DOMAIN u.heap
        /\ \A c \in DOMAIN u.heap : freed.heap[c] = IF c = n THEN FREED ELSE u.heap[c]
    BY <1>2, <2>1, FreeGrows
  <2> HIDE DEF freed
  <2>3. r = [freed EXCEPT !.amx.RELOC = TRUE]
    BY <1>6
  <2> HIDE DEF r
  <2>4. /\ r \in HostState /\ r.heap = freed.heap /\ r.open = freed.open
        /\ r.amx = [t.amx EXCEPT !.RELOC = TRUE]
    BY <1>1, <2>2, <2>3 DEF HostState, AmxType, Grown
  <2>5. /\ r.amx.instr_addresses = NULL /\ r.amx.base = t.amx.base
        /\ r.amx.libraries = t.amx.libraries
        /\ r.amx.natives = t.amx.natives /\ r.amx.data = NULL /\ ~r.amx.NTVREG
    BY <1>1, <1>3, <2>4 DEF AmxType
  <2>6. Pointers(r.amx) = Pointers(t.amx)
    BY <1>3, <2>5 DEF Pointers
  <2>7. Grown(t, r) /\ Grown(h, r)
    BY <2>2, <2>4, GrownApart, GrownOn DEF Building
  <2>8. Live(r.heap) \subseteq Live(t.heap)
    BY <1>2, <2>2, <2>4, FreedBlock DEF Live, Grown
  <2>9. r.amx.base \in DOMAIN r.heap /\ r.heap[r.amx.base] = Image(file)
    BY <2>5, <2>7 DEF Building, Grown
  <2>10. Building(h, r, file)
    BY <2>5, <2>6, <2>7, <2>8, <2>9 DEF Building
  <2>11. HasNatives(r, file) /\ HasAddresses(r)
    BY <1>6, <2>5, <2>7 DEF HasNatives, HasAddresses, Grown
  <2>12. walked.amx.base = t.amx.base /\ walked.amx.data = NULL /\ Grown(t, walked)
    BY <1>2, <1>3, <2>1
  <2> QED BY <2>5, <2>7, <2>10, <2>11, <2>12
<1> QED BY <1>5, <1>6

\* The table of handles.
LEMMA LibrariesStage ==
    ASSUME NEW h, NEW t, NEW file \in FileType, Building(h, t, file), HasNatives(t, file),
           HasAddresses(t), t.amx.libraries = NULL
    PROVE  LET r == AllocLibraries(t)
           IN  /\ Building(h, r, file) /\ HasNatives(r, file) /\ HasAddresses(r)
               /\ HasLibraries(r, file)
<1> DEFINE b == Table("libraries", 0, Len(file.libraries))
           u == malloc(t, b)
           n == Len(t.heap) + 1
           r == AllocLibraries(t)
<1>1. t \in HostState /\ t.amx \in AmxType /\ FileOf(t) = file
  BY TableFacts DEF Building, Grown, HostState, FileOf
<1>2. CASE ~build.wide
  BY <1>2 DEF AllocLibraries, HasLibraries
<1>3. CASE build.wide
  <2>2. /\ u \in HostState /\ u.amx = t.amx /\ u.open = t.open /\ newest(u) = n /\ n \in Nat \ {0}
        /\ b \in BlockType /\ \A j \in DOMAIN b.lib : b.lib[j] = UNBOUND
    BY <1>1, TableFacts, MallocGrows DEF Grown
  <2>3. r = [u EXCEPT !.amx.libraries = n]
    BY <1>1, <1>3, <2>2 DEF AllocLibraries
  <2> HIDE DEF u, n, r, b
  <2>4. /\ r \in HostState /\ r.heap = u.heap /\ r.open = u.open
        /\ r.amx = [t.amx EXCEPT !.libraries = n]
    BY <1>1, <2>2, <2>3 DEF HostState, AmxType
  <2>5. /\ r.amx.libraries = n /\ r.amx.base = t.amx.base /\ r.amx.natives = t.amx.natives
        /\ r.amx.instr_addresses = t.amx.instr_addresses /\ r.amx.data = t.amx.data
        /\ r.amx.NTVREG = t.amx.NTVREG
    BY <1>1, <2>4 DEF AmxType
  <2>6. Pointers(r.amx) = Pointers(t.amx) \cup {n}
    BY <2>2, <2>5 DEF Pointers, NULL
  <2>7. t.amx.data = NULL /\ ~t.amx.NTVREG
    BY DEF Building
  <2>8. Building(h, r, file) /\ Grown(t, r) /\ n \in DOMAIN r.heap /\ r.heap[n] = b
    <3>1. Building(h, t, file) /\ r \in HostState /\ b \in BlockType
      BY <2>2, <2>4, <2>5, <2>6, <2>7
    <3>2. \A j \in DOMAIN b.lib : b.lib[j] = UNBOUND
      BY <2>2, <2>4, <2>5, <2>6, <2>7
    <3>3. r.heap = malloc(t, b).heap /\ r.open = t.open
      BY <2>2, <2>4, <2>5, <2>6, <2>7 DEF u
    <3>4. r.amx.data = NULL /\ ~r.amx.NTVREG /\ r.amx.base = t.amx.base
      BY <2>2, <2>4, <2>5, <2>6, <2>7
    <3>5. Pointers(r.amx) = Pointers(t.amx) \cup {Len(t.heap) + 1}
      BY <2>6 DEF n
    <3> QED BY ONLY <3>1, <3>2, <3>3, <3>4, <3>5, Gains DEF n
  <2>9. HasNatives(r, file)
    BY <2>5, <2>8 DEF HasNatives, Grown
  <2>10. HasAddresses(r)
    BY <2>5, <2>8 DEF HasAddresses, Grown, Is
  <2> QED BY <1>3, <2>5, <2>8, <2>9, <2>10 DEF HasLibraries, b, r
<1> QED BY <1>2, <1>3

\* When all is allocated the machine is sound and its libraries are closed.
LEMMA BuiltSound ==
    ASSUME NEW h, NEW t, NEW file \in FileType, Building(h, t, file), HasNatives(t, file),
           HasAddresses(t), HasLibraries(t, file)
    PROVE  /\ Sound(t.heap, t.amx)
           /\ \A j \in DOMAIN FileOf(t).libraries : t.heap[LibrariesOf(t.amx)].lib[j] = UNBOUND
<1> DEFINE a == t.amx
<1>1. /\ a.data = NULL /\ ~a.NTVREG /\ a.base \in DOMAIN t.heap /\ t.heap[a.base] = Image(file)
  BY DEF Building
<1>2. t.heap[a.base].kind = "image" /\ t.heap[a.base].file = file
  BY <1>1, TableFacts
<1>3. Placed(t.heap, a)
  BY <1>1, <1>2, TableFacts DEF Placed, Is, HasNatives, HasAddresses, HasLibraries
<1>4. /\ DOMAIN t.heap[LibrariesOf(a)].lib = DOMAIN file.libraries
      /\ \A j \in DOMAIN file.libraries : t.heap[LibrariesOf(a)].lib[j] = UNBOUND
  BY <1>1, TableFacts DEF HasLibraries, LibrariesOf
<1>5. file.natives # << >> =>
        /\ DOMAIN t.heap[NativesOf(a)].ntv = DOMAIN file.natives
        /\ \A j \in DOMAIN file.natives : t.heap[NativesOf(a)].ntv[j] = UNBOUND
  BY <1>1, TableFacts DEF HasNatives, NativesOf
<1>6. Sized(t.heap, a)
  BY <1>2, <1>4, <1>5 DEF Sized
<1>7. DOMAIN file.natives # {} => file.natives # << >>
  OBVIOUS
<1>8. Sourced(t.heap, a)
  BY <1>1, <1>2, <1>5, <1>7 DEF Sourced
<1> QED BY <1>2, <1>3, <1>4, <1>6, <1>8 DEF Sound, FileOf

\* A program that was loaded.
Loads(h, r) ==
    /\ r \in HostState /\ Sound(r.heap, r.amx) /\ Counted(r) /\ Holder(r.heap)
    /\ r.amx.data = NULL /\ Pointers(r.amx) \cap DOMAIN h.heap = {}
    /\ DOMAIN h.heap \subseteq DOMAIN r.heap /\ \A b \in DOMAIN h.heap : r.heap[b] = h.heap[b]
    /\ Live(r.heap) \ DOMAIN h.heap \subseteq Pointers(r.amx)

\* Handles are put where they belong.
LEMMA EvolvesHolder ==
    ASSUME NEW h \in HostState, Sound(h.heap, h.amx), Holder(h.heap), NEW t, Evolves(h, t)
    PROVE  Holder(t.heap)
<1> DEFINE b == LibrariesOf(h.amx)
<1>1. b \in DOMAIN h.heap /\ h.heap[b].kind = IF build.wide THEN "libraries" ELSE "image"
  BY DEF Sound, Placed, Is, LibrariesOf
<1>2. t.heap[b].kind = h.heap[b].kind
  BY <1>1 DEF Evolves
<1>3. DOMAIN t.heap = DOMAIN h.heap
  BY DEF Evolves
<1>4. \A c \in DOMAIN h.heap : c # b => t.heap[c].lib = h.heap[c].lib /\ t.heap[c].kind = h.heap[c].kind
  BY DEF Evolves
<1> HIDE DEF b
<1> QED BY <1>1, <1>2, <1>3, <1>4 DEF Holder

\* A machine that is built, and whose libraries are opened, is loaded.
LEMMA OpenLoads ==
    ASSUME NEW h \in HostState, Counted(h), Holder(h.heap), build \in Builds,
           NEW file \in FileType, NEW t, Building(h, t, file), HasNatives(t, file),
           HasAddresses(t), HasLibraries(t, file)
    PROVE  Loads(h, OpenLibraries(t))
<1> DEFINE r == OpenLibraries(t)
<1>1. t \in HostState /\ Grown(h, t) /\ Counted(t) /\ Holder(t.heap)
  BY GrownHandles DEF Building, Grown
<1>2. /\ Sound(t.heap, t.amx)
      /\ \A j \in DOMAIN FileOf(t).libraries : t.heap[LibrariesOf(t.amx)].lib[j] = UNBOUND
  BY BuiltSound
<1>3. Evolves(t, r) /\ Sound(r.heap, r.amx) /\ Counted(r)
  BY <1>1, <1>2, OpenAll
<1> HIDE DEF r
<1>4. r \in HostState /\ Pointers(r.amx) = Pointers(t.amx) /\ r.amx.data = t.amx.data
  BY <1>1, <1>2, <1>3, EvolvesPlace
<1>5. Holder(r.heap)
  BY <1>1, <1>2, <1>3, EvolvesHolder
<1>6. LibrariesOf(t.amx) \notin DOMAIN h.heap
  <2>1. LibrariesOf(t.amx) # 0
    <3>1. t.heap \in Seq(BlockType)
      BY <1>1 DEF HostState
    <3>2. 0 \notin DOMAIN t.heap
      BY <3>1
    <3> QED BY <1>2, <3>2 DEF Sound, Placed, Is, LibrariesOf
  <2>2. LibrariesOf(t.amx) \in Pointers(t.amx)
    BY <2>1 DEF Pointers, LibrariesOf, NULL
  <2> QED BY <2>2 DEF Building
<1>7. NativesOf(t.amx) \notin DOMAIN h.heap
  <2>1. CASE NativesOf(t.amx) = 0
    <3>1. h.heap \in Seq(BlockType)
      BY DEF HostState
    <3> QED BY <2>1, <3>1
  <2>2. CASE NativesOf(t.amx) # 0
    <3>1. NativesOf(t.amx) \in Pointers(t.amx)
      BY <2>2 DEF Pointers, NativesOf, NULL
    <3> QED BY <3>1 DEF Building
  <2> QED BY <2>1, <2>2
<1>8. /\ DOMAIN r.heap = DOMAIN t.heap /\ DOMAIN h.heap \subseteq DOMAIN t.heap
      /\ \A b \in DOMAIN h.heap : r.heap[b] = h.heap[b]
  BY <1>1, <1>3, <1>6, <1>7 DEF Evolves, Grown
<1>9. Live(r.heap) = Live(t.heap)
  BY <1>3 DEF Evolves, Live
<1> QED BY <1>3, <1>4, <1>5, <1>8, <1>9 DEF Loads, Building, r

\* Only the error changes.
LEMMA ErrFacts ==
    ASSUME NEW h \in HostState, NEW e \in Errors
    PROVE  /\ Err(h, e) \in HostState /\ Err(h, e).err = e
           /\ Err(h, e).heap = h.heap /\ Err(h, e).amx = h.amx /\ Err(h, e).open = h.open
  BY DEF Err, HostState

\* amx_Init loads the program or leaves blocks that hold nothing.
LEMMA InitFacts ==
    ASSUME NEW h \in HostState, Counted(h), Holder(h.heap), build \in Builds,
           NEW file \in FileType, NEW t, Grown(h, t), t.amx = Empty, NEW oom,
           newest(t) \in DOMAIN t.heap \ DOMAIN h.heap, t.heap[newest(t)] = Image(file),
           Live(t.heap) \ DOMAIN h.heap \subseteq {newest(t)}
    PROVE  LET r == amx_Init(t, oom)
           IN  /\ r.err = "AMX_ERR_NONE" => Loads(h, r)
               /\ r.err # "AMX_ERR_NONE" =>
                    Grown(h, r) /\ r.amx.data = NULL /\ newest(t) \in DOMAIN r.heap
<1> DEFINE b == newest(t)
           started == [t EXCEPT !.amx.base = b]
           vector == AllocNatives(started)
           walked == AllocAddresses(vector)
           kept == [IF build.newexec THEN walked ELSE free(walked, newest(walked)) EXCEPT !.amx.RELOC = TRUE]
           opened == OpenLibraries(AllocLibraries(kept))
           r == amx_Init(t, oom)
<1>1. t \in HostState /\ b \in Nat \ {0} /\ t.amx \in AmxType
  <2>1. t.heap \in Seq(BlockType) /\ t \in HostState
    BY DEF Grown, HostState
  <2> QED BY <2>1 DEF HostState
<1>2. /\ started \in HostState /\ started.heap = t.heap /\ started.open = t.open
      /\ started.amx = [Empty EXCEPT !.base = b]
  <2> DEFINE a == [t.amx EXCEPT !.base = b]
  <2>1. a \in AmxType
    BY <1>1 DEF AmxType
  <2>2. started = [t EXCEPT !.amx = a]
    OBVIOUS
  <2> HIDE DEF started, a
  <2>3. started \in HostState /\ started.heap = t.heap /\ started.open = t.open /\ started.amx = a
    BY <1>1, <2>1, <2>2 DEF HostState
  <2> QED BY <2>3 DEF a
<1> HIDE DEF started, b
<1>3. /\ started.amx.base = b /\ started.amx.natives = NULL /\ started.amx.libraries = NULL
      /\ started.amx.instr_addresses = NULL /\ started.amx.data = NULL /\ ~started.amx.NTVREG
  BY <1>2 DEF Empty
<1>4. Building(h, started, file)
  <2>1. Grown(h, started)
    BY <1>2, GrownApart
  <2>2. Pointers(started.amx) = {b}
    BY <1>1, <1>3 DEF Pointers, NULL
  <2> QED BY <1>2, <1>3, <2>1, <2>2 DEF Building, b
<1>5. /\ Building(h, vector, file) /\ HasNatives(vector, file) /\ Grown(started, vector)
      /\ vector.amx.instr_addresses = NULL /\ vector.amx.libraries = NULL
      /\ vector.amx.base = b
  BY <1>3, <1>4, NativesStage
<1> HIDE DEF vector
<1>6. /\ Grown(vector, walked) /\ walked.amx.data = NULL
      /\ Building(h, kept, file) /\ HasNatives(kept, file) /\ HasAddresses(kept)
      /\ Grown(vector, kept)
      /\ kept.amx.libraries = NULL /\ kept.amx.base = b
  BY <1>5, AddressesStage
<1> HIDE DEF walked, kept
<1>7. Loads(h, opened)
  <2>1. /\ Building(h, AllocLibraries(kept), file) /\ HasNatives(AllocLibraries(kept), file)
        /\ HasAddresses(AllocLibraries(kept)) /\ HasLibraries(AllocLibraries(kept), file)
    BY <1>6, LibrariesStage
  <2> QED BY <2>1, OpenLoads
<1> HIDE DEF opened
<1>8. \/ r = Err(opened, "AMX_ERR_NONE")
      \/ r = Err(t, "AMX_ERR_VERSION")
      \/ r = Err(started, "AMX_ERR_MEMORY")
      \/ r = Err(vector, "AMX_ERR_FORMAT")
      \/ r = Err(vector, "AMX_ERR_MEMORY")
      \/ r = Err(walked, "AMX_ERR_INVINSTR")
      \/ r = Err(kept, "AMX_ERR_MEMORY")
  BY DEF amx_Init, opened, kept, walked, vector, started, b
<1> HIDE DEF r
<1>9. /\ {"AMX_ERR_NONE", "AMX_ERR_VERSION", "AMX_ERR_MEMORY", "AMX_ERR_FORMAT", "AMX_ERR_INVINSTR"}
           \subseteq Errors
  BY DEF Errors
<1>10. ASSUME NEW x, Grown(h, x), x.amx.data = NULL, b \in DOMAIN x.heap, NEW e \in Errors,
              e # "AMX_ERR_NONE", r = Err(x, e)
       PROVE  r.err # "AMX_ERR_NONE" /\ Grown(h, r) /\ r.amx.data = NULL /\ b \in DOMAIN r.heap
  <2>1. x \in HostState
    BY <1>10 DEF Grown
  <2>2. r \in HostState /\ r.err = e /\ r.heap = x.heap /\ r.amx = x.amx /\ r.open = x.open
    BY <1>10, <2>1, ErrFacts
  <2> QED BY <1>10, <2>2, GrownApart
<1>11. CASE r = Err(opened, "AMX_ERR_NONE")
  <2>1. opened \in HostState
    BY <1>7 DEF Loads
  <2>2. /\ r \in HostState /\ r.err = "AMX_ERR_NONE" /\ r.heap = opened.heap
        /\ r.amx = opened.amx /\ r.open = opened.open
    BY <1>9, <1>11, <2>1, ErrFacts
  <2>3. Loads(h, r)
    BY <1>7, <2>2 DEF Loads, Counted
  <2> QED BY <2>2, <2>3 DEF r
<1>12. b \in DOMAIN t.heap /\ t.amx.data = NULL
  BY DEF b, Empty
<1>13. Grown(h, vector) /\ Grown(h, walked) /\ Grown(h, kept) /\ Grown(h, started)
  BY <1>4, <1>5, <1>6, GrownOn DEF Building
<1>14. /\ b \in DOMAIN started.heap /\ b \in DOMAIN vector.heap
       /\ b \in DOMAIN walked.heap /\ b \in DOMAIN kept.heap
  <2>1. b \in DOMAIN started.heap
    BY <1>2, <1>12
  <2>2. b \in DOMAIN vector.heap
    BY <1>5, <2>1 DEF Grown
  <2> QED BY <1>6, <2>1, <2>2 DEF Grown
<1>15. started.amx.data = NULL /\ vector.amx.data = NULL /\ kept.amx.data = NULL
  BY <1>4, <1>5, <1>6 DEF Building
<1>16. CASE r # Err(opened, "AMX_ERR_NONE")
  <2>1. r.err # "AMX_ERR_NONE" /\ Grown(h, r) /\ r.amx.data = NULL /\ b \in DOMAIN r.heap
    <3>1. CASE r = Err(t, "AMX_ERR_VERSION")
      BY <1>9, <1>10, <1>12, <3>1
    <3>2. CASE r = Err(started, "AMX_ERR_MEMORY")
      BY <1>9, <1>10, <1>13, <1>14, <1>15, <3>2
    <3>3. CASE r = Err(vector, "AMX_ERR_FORMAT")
      BY <1>9, <1>10, <1>13, <1>14, <1>15, <3>3
    <3>4. CASE r = Err(vector, "AMX_ERR_MEMORY")
      BY <1>9, <1>10, <1>13, <1>14, <1>15, <3>4
    <3>5. CASE r = Err(walked, "AMX_ERR_INVINSTR")
      BY <1>6, <1>9, <1>10, <1>13, <1>14, <3>5
    <3>6. CASE r = Err(kept, "AMX_ERR_MEMORY")
      BY <1>9, <1>10, <1>13, <1>14, <1>15, <3>6
    <3> QED BY <1>8, <1>16, <3>1, <3>2, <3>3, <3>4, <3>5, <3>6
  <2> QED BY <2>1 DEF r, b
<1> QED BY <1>11, <1>16

\* aux_LoadProgram does, and leaves no program when it fails.
LEMMA LoadFacts ==
    ASSUME NEW h \in HostState, Counted(h), Holder(h.heap), build \in Builds,
           h.amx.base = NULL, h.amx.data = NULL,
           NEW file \in FileType, NEW oom
    PROVE  LET r == aux_LoadProgram(h, file, oom)
           IN  \/ r.err = "AMX_ERR_NONE" /\ Loads(h, r)
               \/ /\ r.err # "AMX_ERR_NONE" /\ Grown(h, r)
                  /\ r.amx.base = NULL /\ r.amx.data = NULL
<1> DEFINE b == Block("image", file, Len(file.natives), Len(file.libraries))
           read == malloc(h, b)
           zeroed == [read EXCEPT !.amx = Empty]
           done == amx_Init(zeroed, oom)
           failed == [free(done, newest(read)) EXCEPT !.amx.base = NULL]
           r == aux_LoadProgram(h, file, oom)
<1>1. b = Image(file) /\ b \in BlockType /\ \A j \in DOMAIN b.lib : b.lib[j] = UNBOUND
  BY TableFacts DEF Image
<1> HIDE DEF b
<1>2. /\ Grown(h, read) /\ newest(read) \notin DOMAIN h.heap /\ read.amx = h.amx
      /\ DOMAIN read.heap = DOMAIN h.heap \cup {newest(read)} /\ read.heap[newest(read)] = b
  BY <1>1, MallocGrows
<1> HIDE DEF read
<1>3. Empty \in AmxType /\ Empty.data = NULL
  BY DEF Empty, AmxType, NULL
<1>4. /\ zeroed \in HostState /\ zeroed.amx = Empty /\ zeroed.heap = read.heap
      /\ zeroed.open = read.open
  <2>1. read \in HostState
    BY <1>2 DEF Grown
  <2> QED BY <1>3, <2>1 DEF HostState
<1> HIDE DEF zeroed
<1>5. newest(zeroed) = newest(read)
  BY <1>4 DEF newest
<1>6. /\ done.err = "AMX_ERR_NONE" => Loads(h, done)
      /\ done.err # "AMX_ERR_NONE" =>
           Grown(h, done) /\ done.amx.data = NULL /\ newest(read) \in DOMAIN done.heap
  <2>1. Grown(h, zeroed)
    BY <1>2, <1>4, GrownApart
  <2>2. Live(zeroed.heap) \ DOMAIN h.heap \subseteq {newest(read)}
    BY <1>2, <1>4 DEF Live
  <2>3. newest(zeroed) \in DOMAIN zeroed.heap \ DOMAIN h.heap /\ zeroed.heap[newest(zeroed)] = Image(file)
    BY <1>1, <1>2, <1>4, <1>5
  <2> QED BY <1>4, <1>5, <2>1, <2>2, <2>3, InitFacts
<1> HIDE DEF done
<1>7. \/ r = Err(h, "AMX_ERR_NOTFOUND")
      \/ r = Err(h, "AMX_ERR_FORMAT")
      \/ r = Err(h, "AMX_ERR_MEMORY")
      \/ r = Err(read, "AMX_ERR_FORMAT")
      \/ done.err = "AMX_ERR_NONE" /\ r = done
      \/ done.err # "AMX_ERR_NONE" /\ r = failed
  BY DEF aux_LoadProgram, done, zeroed, read, b
<1> HIDE DEF r, failed
<1>8. {"AMX_ERR_NOTFOUND", "AMX_ERR_FORMAT", "AMX_ERR_MEMORY"} \subseteq Errors
  BY DEF Errors
<1>9. ASSUME NEW x, Grown(h, x), x.amx = h.amx, NEW e \in Errors, e # "AMX_ERR_NONE", r = Err(x, e)
      PROVE  r.err # "AMX_ERR_NONE" /\ Grown(h, r) /\ r.amx.base = NULL /\ r.amx.data = NULL
  <2>1. x \in HostState
    BY <1>9 DEF Grown
  <2>2. r \in HostState /\ r.err = e /\ r.heap = x.heap /\ r.amx = x.amx /\ r.open = x.open
    BY <1>9, <2>1, ErrFacts
  <2> QED BY <1>9, <2>2, GrownApart
<1>10. ASSUME done.err # "AMX_ERR_NONE", r = failed
       PROVE  r.err # "AMX_ERR_NONE" /\ Grown(h, r) /\ r.amx.base = NULL /\ r.amx.data = NULL
  <2> DEFINE f == free(done, newest(read))
  <2>1. Grown(h, f) /\ f.amx = done.amx /\ f.err = done.err
    <3>1. Grown(h, done) /\ newest(read) \in DOMAIN done.heap \ DOMAIN h.heap
      BY <1>2, <1>6, <1>10
    <3>2. f.err = done.err
      BY <3>1, FreeFacts DEF Grown
    <3> QED BY <3>1, <3>2, FreeGrows
  <2> HIDE DEF f
  <2>2. f \in HostState /\ f.amx \in AmxType
    BY <2>1 DEF Grown, HostState
  <2>3. r = [f EXCEPT !.amx.base = NULL]
    BY <1>10 DEF failed, f
  <2>4. [f.amx EXCEPT !.base = NULL] \in AmxType
    BY <2>2 DEF AmxType, NULL
  <2>5. r = [f EXCEPT !.amx = [f.amx EXCEPT !.base = NULL]]
    BY <2>3
  <2>6. /\ r \in HostState /\ r.heap = f.heap /\ r.open = f.open /\ r.err = f.err
        /\ r.amx = [f.amx EXCEPT !.base = NULL]
    BY <2>2, <2>4, <2>5 DEF HostState
  <2>7. r.amx.base = NULL /\ r.amx.data = NULL
    BY <1>6, <1>10, <2>1, <2>2, <2>6 DEF AmxType
  <2> QED BY <1>10, <2>1, <2>6, <2>7, GrownApart
<1>11. Grown(h, h)
  BY GrownSelf
<1>12. \/ r.err = "AMX_ERR_NONE" /\ Loads(h, r)
       \/ r.err # "AMX_ERR_NONE" /\ Grown(h, r) /\ r.amx.base = NULL /\ r.amx.data = NULL
  BY <1>2, <1>6, <1>7, <1>8, <1>9, <1>10, <1>11
<1> QED BY <1>12 DEF r

-----------------------------------------------------------------------------
(* The invariant.                                                          *)

\* The blocks that go with a machine when it is freed.
Own(a) == IF a.data = NULL THEN Pointers(a) ELSE {a.data}

Idle == \A m \in Machines \ Loaded : amx[m].data = NULL
Separate == \A m, n \in Loaded : m # n => Own(amx[m]) \cap Own(amx[n]) = {}
Rooted ==
    \A m \in Loaded : amx[m].data # NULL =>
        \E s \in Loaded : amx[s].data = NULL /\ amx[s].base = amx[m].base
Kept == Live(heap) \subseteq left \cup UNION {Pointers(amx[m]) : m \in Loaded}
Vouched ==
    \A m, s \in Loaded :
        Stripped(heap, amx[m]) /\ amx[m].NTVREG /\ amx[s].base = amx[m].base /\ amx[s].data = NULL
            => Complete(heap, amx[s])
Balanced ==
    \A l \in DOMAIN Libs : IsFiniteSet(Handles(heap, l)) /\ open[l] = Cardinality(Handles(heap, l))

LoaderInv ==
    /\ TypeInv /\ Holder(heap)
    /\ \A m \in Loaded : Fit(heap, amx[m])
    /\ Idle /\ Separate /\ Rooted /\ Vouched /\ Kept /\ Balanced

\* The step that BoundOnce is about.
Keeps ==
    \A b \in Live(heap) \cap Live(heap') :
        \A i \in DOMAIN heap[b].ntv :
            heap[b].ntv[i] # UNBOUND => heap'[b].ntv[i] = heap[b].ntv[i]

\* The blocks of a machine are live, and its handles are in one of them.
LEMMA PointsIn ==
    ASSUME NEW hp \in Seq(BlockType), NEW a, Placed(hp, a)
    PROVE  /\ Pointers(a) \subseteq Live(hp) /\ Pointers(a) \subseteq DOMAIN hp
           /\ a.base \in Pointers(a) /\ LibrariesOf(a) \in Pointers(a)
           /\ hp[a.base].file.natives # << >> => NativesOf(a) \in Pointers(a)
           /\ \A p \in Pointers(a) :
                hp[p].kind = (IF build.wide THEN "libraries" ELSE "image") => p = LibrariesOf(a)
<1>1. 0 \notin DOMAIN hp
  OBVIOUS
<1>2. /\ a.base \in Pointers(a) /\ LibrariesOf(a) \in Pointers(a)
      /\ hp[a.base].file.natives # << >> => NativesOf(a) \in Pointers(a)
  BY <1>1 DEF Placed, Is, Pointers, LibrariesOf, NativesOf, NULL
<1>3. \A p \in Pointers(a) :
        \/ p = a.base /\ Is(hp, p, "image")
        \/ p = a.natives /\ Is(hp, p, "natives")
        \/ p = a.libraries /\ Is(hp, p, "libraries") /\ build.wide
        \/ p = a.instr_addresses /\ Is(hp, p, "addresses")
        \/ p = a.data /\ Is(hp, p, "data")
  BY DEF Placed, Pointers
<1>4. Pointers(a) \subseteq Live(hp)
  BY <1>3 DEF Is, Live
<1>5. Pointers(a) \subseteq DOMAIN hp
  BY <1>4 DEF Live
<1>6. \A p \in Pointers(a) :
        hp[p].kind = (IF build.wide THEN "libraries" ELSE "image") => p = LibrariesOf(a)
  BY <1>3 DEF Is, LibrariesOf
<1> QED BY <1>2, <1>4, <1>5, <1>6

\* What happens to other blocks does not concern a machine.
LEMMA SoundApart ==
    ASSUME NEW hp \in Seq(BlockType), NEW hp2, NEW a, Sound(hp, a),
           \A p \in Pointers(a) : p \in DOMAIN hp2 /\ hp2[p] = hp[p]
    PROVE  Sound(hp2, a)
<1>1. /\ hp2[a.base] = hp[a.base] /\ hp2[LibrariesOf(a)] = hp[LibrariesOf(a)]
      /\ hp[a.base].file.natives # << >> => hp2[NativesOf(a)] = hp[NativesOf(a)]
  BY PointsIn DEF Sound
<1>2. \A p \in Pointers(a) : \A kind : Is(hp, p, kind) => Is(hp2, p, kind)
  BY DEF Is
<1>3. \A p, kind : Is(hp, p, kind) => p # NULL
  BY DEF Is, NULL
<1>4. Placed(hp2, a)
  <2>1. Is(hp2, a.base, "image")
    BY <1>2, PointsIn DEF Sound, Placed
  <2>2. \A p \in {a.natives, a.libraries, a.instr_addresses, a.data} :
          \A kind : Is(hp, p, kind) => Is(hp2, p, kind)
    BY <1>2, <1>3 DEF Pointers
  <2>3. hp2[a.base].file = hp[a.base].file
    BY <1>1
  <2>4. a.data = NULL =>
         /\ IF build.wide /\ hp2[a.base].file.natives # << >>
            THEN Is(hp2, a.natives, "natives") ELSE a.natives = NULL
         /\ IF build.wide THEN Is(hp2, a.libraries, "libraries") ELSE a.libraries = NULL
         /\ IF build.newexec THEN Is(hp2, a.instr_addresses, "addresses")
            ELSE a.instr_addresses = NULL
    BY <2>2, <2>3 DEF Sound, Placed
  <2>5. a.data # NULL =>
         /\ Is(hp2, a.data, "data") /\ ~build.wide
         /\ a.natives = NULL /\ a.libraries = NULL /\ a.instr_addresses = NULL
    BY <2>2 DEF Sound, Placed
  <2> QED BY ONLY <2>1, <2>4, <2>5 DEF Placed
<1>5. Sized(hp2, a)
  BY <1>1 DEF Sound, Sized
<1>6. \A x : Holds(hp, a, x) => Holds(hp2, a, x)
  BY <1>1 DEF Holds
<1>7. DOMAIN hp[a.base].file.natives # {} => hp[a.base].file.natives # << >>
  OBVIOUS
<1>8. Sourced(hp2, a)
  BY <1>1, <1>6, <1>7 DEF Sound, Sourced
<1> QED BY <1>4, <1>5, <1>8 DEF Sound

\* What holds of every machine with a program.
LEMMA FitIn ==
    ASSUME NEW hp \in Seq(BlockType), NEW a, Fit(hp, a)
    PROVE  /\ Pointers(a) \subseteq Live(hp) /\ Pointers(a) \subseteq DOMAIN hp
           /\ a.base \in Pointers(a) /\ Is(hp, a.base, "image") /\ Own(a) \subseteq Pointers(a)
           /\ a.data = NULL => Sound(hp, a) /\ Own(a) = Pointers(a)
           /\ a.data # NULL => Is(hp, a.data, "data") /\ Pointers(a) \subseteq {a.base, a.data}
<1>1. CASE Sound(hp, a)
  <2>1. /\ Pointers(a) \subseteq Live(hp) /\ Pointers(a) \subseteq DOMAIN hp
        /\ a.base \in Pointers(a) /\ Is(hp, a.base, "image")
    BY <1>1, PointsIn DEF Sound, Placed
  <2>2. a.data # NULL => Is(hp, a.data, "data") /\ Pointers(a) \subseteq {a.base, a.data}
    BY <1>1 DEF Sound, Placed, Pointers
  <2> QED BY <1>1, <2>1, <2>2 DEF Own, Pointers
<1>2. CASE Stripped(hp, a)
  <2>1. 0 \notin DOMAIN hp
    OBVIOUS
  <2>2. /\ a.base \in DOMAIN hp /\ hp[a.base].kind = "image"
        /\ a.data \in DOMAIN hp /\ hp[a.data].kind = "data"
    BY <1>2 DEF Stripped, Is
  <2>3. Pointers(a) = {a.base, a.data}
    BY <1>2, <2>1, <2>2 DEF Stripped, Pointers, NULL
  <2>4. Pointers(a) \subseteq Live(hp) /\ Pointers(a) \subseteq DOMAIN hp
    BY <2>2, <2>3 DEF Live
  <2>5. Own(a) \subseteq Pointers(a)
    BY <2>3 DEF Own
  <2> QED BY <1>2, <2>3, <2>4, <2>5 DEF Stripped
<1> QED BY <1>1, <1>2 DEF Fit

LEMMA FitApart ==
    ASSUME NEW hp \in Seq(BlockType), NEW hp2, NEW a, Fit(hp, a),
           \A p \in Pointers(a) : p \in DOMAIN hp2 /\ hp2[p] = hp[p]
    PROVE  Fit(hp2, a) /\ (Stripped(hp2, a) => Stripped(hp, a))
<1>1. CASE Sound(hp, a)
  <2>1. Sound(hp2, a)
    BY <1>1, SoundApart
  <2>2. ~Stripped(hp2, a)
    BY <1>1 DEF Sound, Placed, Stripped
  <2> QED BY <2>1, <2>2 DEF Fit
<1>2. CASE Stripped(hp, a)
  <2>1. a.base \in Pointers(a) /\ a.data \in Pointers(a)
    <3>1. a.base # NULL
      BY <1>2 DEF Stripped, Is, NULL
    <3> QED BY <1>2, <3>1 DEF Stripped, Pointers
  <2>2. Is(hp2, a.base, "image") /\ Is(hp2, a.data, "data")
    BY <1>2, <2>1 DEF Stripped, Is
  <2> QED BY <1>2, <2>2 DEF Stripped, Fit
<1> QED BY <1>1, <1>2 DEF Fit

\* A table that is complete stays complete.
LEMMA CompleteApart ==
    ASSUME NEW hp \in Seq(BlockType), NEW hp2, NEW a, Sound(hp, a), Complete(hp, a),
           \A p \in Pointers(a) : p \in DOMAIN hp2 /\ hp2[p] = hp[p]
    PROVE  Complete(hp2, a)
<1>1. hp2[a.base] = hp[a.base] /\ (hp[a.base].file.natives # << >> => hp2[NativesOf(a)] = hp[NativesOf(a)])
  BY PointsIn DEF Sound
<1>2. DOMAIN hp[a.base].file.natives # {} => hp[a.base].file.natives # << >>
  OBVIOUS
<1> QED BY <1>1, <1>2 DEF Complete

\* A machine, or a clone of it, is only marked when its table is complete.
LEMMA Vouches ==
    ASSUME LoaderInv, NEW x \in Loaded, NEW s \in Loaded, amx[x].NTVREG,
           amx[s].base = amx[x].base, amx[s].data = NULL
    PROVE  Complete(heap, amx[s])
<1>1. heap \in Seq(BlockType) /\ Fit(heap, amx[x]) /\ Fit(heap, amx[s])
  BY DEF LoaderInv, TypeInv
<1>2. CASE Stripped(heap, amx[x])
  BY <1>2 DEF LoaderInv, Vouched
<1>3. CASE Sound(heap, amx[x])
  <2>1. Complete(heap, amx[x])
    BY <1>3 DEF Sound, Sourced, Complete
  <2>2. CASE ~build.wide
    BY <2>1, <2>2 DEF Complete, NativesOf
  <2>3. CASE build.wide
    <3>1. amx[x].data = NULL
      BY <1>3, <2>3 DEF Sound, Placed
    <3>2. amx[x].base \in Own(amx[x]) \cap Own(amx[s])
      BY <1>1, <3>1, FitIn
    <3>3. x = s
      BY <3>2 DEF LoaderInv, Separate
    <3> QED BY <2>1, <3>3
  <2> QED BY <2>2, <2>3
<1> QED BY <1>1, <1>2, <1>3 DEF Fit

\* A call starts from a state of the right type.
LEMMA HereFacts ==
    ASSUME LoaderInv, NEW m \in Machines
    PROVE  /\ Here(m) \in HostState /\ Counted(Here(m)) /\ Holder(Here(m).heap) /\ build \in Builds
           /\ Here(m).heap = heap /\ Here(m).amx = amx[m] /\ Here(m).open = open
<1>1. "AMX_ERR_NONE" \in Errors
  BY DEF Errors
<1> QED BY <1>1 DEF LoaderInv, TypeInv, HostState, Here, Counted, Balanced

\* The record of one machine changes.
LEMMA ReturnFacts ==
    ASSUME LoaderInv, NEW m \in Machines, NEW r \in HostState, Return(m, r)
    PROVE  /\ TypeInv' /\ heap' = r.heap /\ open' = r.open /\ build' = build
           /\ amx'[m] = r.amx /\ \A n \in Machines : n # m => amx'[n] = amx[n]
           /\ Loaded' = IF r.amx.base = NULL THEN Loaded \ {m} ELSE Loaded \cup {m}
<1>1. amx \in [Machines -> AmxType]
  BY DEF LoaderInv, TypeInv
<1>2. amx'[m] = r.amx /\ \A n \in Machines : n # m => amx'[n] = amx[n]
  BY <1>1 DEF Return
<1>3. TypeInv'
  BY <1>1 DEF Return, LoaderInv, TypeInv, HostState
<1>4. Loaded' = IF r.amx.base = NULL THEN Loaded \ {m} ELSE Loaded \cup {m}
  BY <1>2 DEF Loaded
<1> QED BY <1>2, <1>3, <1>4 DEF Return

\* The build does not change, so it does not matter at which end of a step it
\* is looked at.
LEMMA SoundNext ==
    ASSUME build' = build, NEW m
    PROVE  Sound(heap, amx[m])' <=> Sound(heap', amx'[m])
<1>1. /\ NativesOf(amx[m])' = NativesOf(amx'[m])
      /\ LibrariesOf(amx[m])' = LibrariesOf(amx'[m])
  BY DEF NativesOf, LibrariesOf
<1>2. Placed(heap, amx[m])' <=> Placed(heap', amx'[m])
  BY DEF Placed, Is
<1>3. Sized(heap, amx[m])' <=> Sized(heap', amx'[m])
  BY <1>1 DEF Sized
<1>4. Sourced(heap, amx[m])' <=> Sourced(heap', amx'[m])
  BY <1>1 DEF Sourced, Holds
<1> QED BY <1>2, <1>3, <1>4 DEF Sound

LEMMA FitNext ==
    ASSUME build' = build, NEW m
    PROVE  /\ Fit(heap, amx[m])' <=> Fit(heap', amx'[m])
           /\ Stripped(heap, amx[m])' <=> Stripped(heap', amx'[m])
           /\ Complete(heap, amx[m])' <=> Complete(heap', amx'[m])
<1>1. NativesOf(amx[m])' = NativesOf(amx'[m])
  BY DEF NativesOf
<1>2. Stripped(heap, amx[m])' <=> Stripped(heap', amx'[m])
  BY DEF Stripped, Is
<1>3. Complete(heap, amx[m])' <=> Complete(heap', amx'[m])
  BY <1>1 DEF Complete
<1> QED BY <1>2, <1>3, SoundNext DEF Fit

\* The invariant after a step that leaves the build alone.
LEMMA InvNext ==
    ASSUME build' = build, TypeInv', Holder(heap'), \A m \in Loaded' : Fit(heap', amx'[m]),
           Idle', Separate', Rooted', Kept', Balanced',
           \A m, s \in Loaded' :
               /\ Stripped(heap', amx'[m]) /\ amx'[m].NTVREG
               /\ amx'[s].base = amx'[m].base /\ amx'[s].data = NULL
               => Complete(heap', amx'[s])
    PROVE  LoaderInv'
<1>1. Holder(heap)'
  BY DEF Holder
<1>2. (\A m \in Loaded : Fit(heap, amx[m]))'
  <2> SUFFICES ASSUME NEW m \in Loaded' PROVE Fit(heap, amx[m])'
    OBVIOUS
  <2> QED BY FitNext
<1>3. Vouched'
  <2> SUFFICES ASSUME NEW m \in Loaded', NEW s \in Loaded',
                      Stripped(heap, amx[m])', amx'[m].NTVREG,
                      amx'[s].base = amx'[m].base, amx'[s].data = NULL
               PROVE  Complete(heap, amx[s])'
    BY DEF Vouched
  <2>1. Stripped(heap', amx'[m])
    BY FitNext
  <2>2. Complete(heap', amx'[s])
    BY <2>1
  <2> QED BY <2>2, FitNext
<1> QED BY <1>1, <1>2, <1>3 DEF LoaderInv

\* An error, or nothing to do.
LEMMA NothingDone ==
    ASSUME LoaderInv, NEW m \in Machines, NEW r, r = Here(m) \/ \E e \in Errors : r = Err(Here(m), e),
           Return(m, r), left' = left
    PROVE  LoaderInv' /\ Keeps
<1>1. r \in HostState /\ r.heap = heap /\ r.amx = amx[m] /\ r.open = open
  BY HereFacts, ErrFacts
<1>2. TypeInv' /\ heap' = heap /\ open' = open /\ build' = build
  BY <1>1, ReturnFacts
<1>3. amx' = amx
  BY <1>1 DEF Return, LoaderInv, TypeInv
<1>4. Loaded' = Loaded
  BY <1>3 DEF Loaded
<1>5. Holder(heap') /\ \A n \in Loaded' : Fit(heap', amx'[n])
  BY <1>2, <1>3, <1>4 DEF LoaderInv
<1>8. ASSUME NEW x \in Loaded', NEW s \in Loaded', amx'[x].NTVREG,
             amx'[s].base = amx'[x].base, amx'[s].data = NULL
      PROVE  Complete(heap', amx'[s])
  BY <1>2, <1>3, <1>4, <1>8, Vouches
<1>6. Idle' /\ Separate' /\ Rooted' /\ Kept' /\ Balanced'
  BY <1>2, <1>3, <1>4 DEF LoaderInv, Idle, Separate, Rooted, Kept, Balanced
<1>7. Keeps
  BY <1>2 DEF Keeps
<1> QED BY <1>2, <1>5, <1>6, <1>7, <1>8, InvNext

-----------------------------------------------------------------------------
(* The steps.                                                              *)

\* No machine has a program.
LEMMA InitHolds ==
    ASSUME HostInit
    PROVE  LoaderInv
<1>1. Empty \in AmxType /\ Empty.data = NULL /\ Empty.base = NULL
  BY DEF Empty, AmxType, NULL
<1>2. heap \in Seq(BlockType) /\ DOMAIN heap = {}
  BY DEF HostInit
<1>3. amx \in [Machines -> AmxType] /\ \A m \in Machines : amx[m] = Empty
  BY <1>1 DEF HostInit
<1>4. open \in [DOMAIN Libs -> Int] /\ \A l \in DOMAIN Libs : open[l] = 0
  BY DEF HostInit
<1>5. err \in Errors
  BY DEF HostInit, Errors
<1>6. TypeInv
  BY <1>2, <1>3, <1>4, <1>5 DEF TypeInv, HostInit
<1>7. Loaded = {}
  BY <1>1, <1>3 DEF Loaded
<1>8. Live(heap) = {}
  BY <1>2 DEF Live
<1>9. \A l : Handles(heap, l) = {}
  BY <1>8, HandleIn
<1>10. Balanced
  BY <1>4, <1>9, FS_EmptySet DEF Balanced
<1> QED BY <1>1, <1>2, <1>3, <1>6, <1>7, <1>8, <1>10 DEF LoaderInv, Holder, Idle, Separate, Rooted, Vouched, Kept

\* A program is loaded, or is not.
LEMMA LoadStep ==
    ASSUME LoaderInv, NEW m \in Machines, Load(m)
    PROVE  LoaderInv' /\ Keeps
<1> DEFINE h == Here(m)
<1>1. PICK file \in Files, oom \in {"none", "image", "natives", "instr", "libraries"} :
        LET r == aux_LoadProgram(h, file, oom)
        IN  /\ Return(m, r)
            /\ left' = IF r.err = "AMX_ERR_NONE" THEN left ELSE left \cup (Live(r.heap) \ DOMAIN heap)
  BY DEF Load
<1> DEFINE r == aux_LoadProgram(h, file, oom)
<1>2. amx[m].base = NULL /\ m \notin Loaded /\ amx[m].data = NULL
  BY DEF Load, Loaded, LoaderInv, Idle
<1>3. file \in FileType
  BY LoaderAssumption DEF FileType
<1>4. /\ h \in HostState /\ Counted(h) /\ Holder(h.heap) /\ build \in Builds
      /\ h.heap = heap /\ h.amx = amx[m] /\ h.open = open
  BY HereFacts
<1>5. /\ Return(m, r)
      /\ left' = IF r.err = "AMX_ERR_NONE" THEN left ELSE left \cup (Live(r.heap) \ DOMAIN heap)
  BY <1>1
<1>6. \/ r.err = "AMX_ERR_NONE" /\ Loads(h, r)
      \/ /\ r.err # "AMX_ERR_NONE" /\ Grown(h, r)
         /\ r.amx.base = NULL /\ r.amx.data = NULL
  BY <1>2, <1>3, <1>4, LoadFacts
<1> HIDE DEF r, h
<1>7. r \in HostState
  BY <1>6 DEF Loads, Grown
<1>8. /\ TypeInv' /\ heap' = r.heap /\ open' = r.open /\ build' = build
      /\ amx'[m] = r.amx /\ \A n \in Machines : n # m => amx'[n] = amx[n]
      /\ Loaded' = IF r.amx.base = NULL THEN Loaded \ {m} ELSE Loaded \cup {m}
  BY <1>5, <1>7, ReturnFacts
<1>9. heap \in Seq(BlockType) /\ Loaded \subseteq Machines
  BY DEF LoaderInv, TypeInv, Loaded
<1>10. /\ DOMAIN heap \subseteq DOMAIN heap' /\ \A b \in DOMAIN heap : heap'[b] = heap[b]
       /\ Holder(heap') /\ r.amx.data = NULL
       /\ \A l \in DOMAIN Libs : IsFiniteSet(Handles(heap', l)) /\ open'[l] = Cardinality(Handles(heap', l))
  <2>1. CASE Loads(h, r)
    BY <1>4, <1>8, <2>1 DEF Loads, Counted
  <2>2. CASE Grown(h, r) /\ r.amx.data = NULL
    <3>1. Counted(r) /\ Holder(r.heap)
      BY <1>4, <2>2, GrownHandles
    <3> QED BY <1>4, <1>8, <2>2, <3>1 DEF Grown, Counted
  <2> QED BY <1>6, <2>1, <2>2
<1>11. ASSUME NEW n \in Loaded
       PROVE  /\ n # m /\ amx'[n] = amx[n] /\ Fit(heap', amx'[n])
              /\ Pointers(amx[n]) \subseteq DOMAIN heap /\ Own(amx[n]) \subseteq DOMAIN heap
              /\ amx[n].base \in DOMAIN heap
              /\ amx[n].data = NULL /\ Complete(heap, amx[n]) => Complete(heap', amx'[n])
  <2>1. n # m /\ amx'[n] = amx[n]
    BY <1>2, <1>8, <1>9
  <2>2. Fit(heap, amx[n])
    BY DEF LoaderInv
  <2>3. /\ Pointers(amx[n]) \subseteq DOMAIN heap /\ Own(amx[n]) \subseteq DOMAIN heap
        /\ amx[n].base \in DOMAIN heap
    BY <1>9, <2>2, FitIn
  <2>4. \A p \in Pointers(amx[n]) : p \in DOMAIN heap' /\ heap'[p] = heap[p]
    BY <1>10, <2>3
  <2>5. Fit(heap', amx[n])
    BY <1>9, <2>2, <2>4, FitApart
  <2>6. ASSUME amx[n].data = NULL, Complete(heap, amx[n]) PROVE Complete(heap', amx[n])
    <3>1. Sound(heap, amx[n])
      BY <1>9, <2>2, <2>6, FitIn
    <3> QED BY <1>9, <2>4, <2>6, <3>1, CompleteApart
  <2> QED BY <2>1, <2>3, <2>5, <2>6
<1>12. Keeps
  BY <1>10 DEF Keeps, Live
<1>13. Live(heap) = Live(heap') \cap DOMAIN heap
  BY <1>10 DEF Live
<1>14. Balanced'
  BY <1>10 DEF Balanced
<1>15. Idle'
  BY <1>2, <1>8, <1>10 DEF Idle, LoaderInv, Loaded
<1>18. ASSUME NEW x \in Loaded, NEW s \in Loaded, amx'[x].NTVREG,
              amx'[s].base = amx'[x].base, amx'[s].data = NULL
       PROVE  Complete(heap', amx'[s])
  <2>1. amx'[x] = amx[x] /\ amx'[s] = amx[s]
    BY <1>11
  <2>2. Complete(heap, amx[s])
    BY <1>18, <2>1, Vouches
  <2> QED BY <1>11, <1>18, <2>1, <2>2
<1>16. CASE r.err = "AMX_ERR_NONE" /\ Loads(h, r)
  <2>1. r.amx.base # NULL /\ Sound(r.heap, r.amx)
    <3>1. 0 \notin DOMAIN r.heap
      BY <1>7 DEF HostState
    <3> QED BY <1>16, <3>1 DEF Loads, Sound, Placed, Is, NULL
  <2>2. Loaded' = Loaded \cup {m}
    BY <1>8, <2>1
  <2>3. \A n \in Loaded' : Fit(heap', amx'[n])
    BY <1>8, <1>11, <2>1, <2>2 DEF Fit
  <2>4. Own(amx'[m]) \cap DOMAIN heap = {}
    BY <1>4, <1>8, <1>10, <1>16 DEF Loads, Own
  <2>5. Separate'
    <3> SUFFICES ASSUME NEW x \in Loaded', NEW y \in Loaded', x # y
                 PROVE  Own(amx'[x]) \cap Own(amx'[y]) = {}
      BY DEF Separate
    <3>1. \A z \in Loaded : Own(amx'[z]) \subseteq DOMAIN heap
      BY <1>11
    <3>2. CASE x = m
      BY <2>2, <2>4, <3>1, <3>2
    <3>3. CASE y = m
      BY <2>2, <2>4, <3>1, <3>3
    <3>4. CASE x # m /\ y # m
      BY <1>11, <2>2, <3>4 DEF LoaderInv, Separate
    <3> QED BY <3>2, <3>3, <3>4
  <2>6. Rooted'
    <3> SUFFICES ASSUME NEW x \in Loaded', amx'[x].data # NULL
                 PROVE  \E s \in Loaded' : amx'[s].data = NULL /\ amx'[s].base = amx'[x].base
      BY DEF Rooted
    <3>1. x \in Loaded
      BY <1>8, <1>10, <2>2
    <3>2. PICK s \in Loaded : amx[s].data = NULL /\ amx[s].base = amx[x].base
      BY <1>11, <3>1 DEF LoaderInv, Rooted
    <3> QED BY <1>11, <2>2, <3>1, <3>2
  <2>7. Kept'
    <3>1. Live(heap') \subseteq Live(heap) \cup Pointers(amx'[m])
      BY <1>4, <1>8, <1>13, <1>16 DEF Loads
    <3>2. left' = left
      BY <1>5, <1>16
    <3>3. \A n \in Loaded : Pointers(amx'[n]) = Pointers(amx[n])
      BY <1>11
    <3>4. Live(heap) \subseteq left \cup UNION {Pointers(amx'[n]) : n \in Loaded}
      BY <3>3 DEF LoaderInv, Kept
    <3>5. Live(heap') \subseteq left' \cup UNION {Pointers(amx'[n]) : n \in Loaded'}
      BY <2>2, <3>1, <3>2, <3>4
    <3> QED BY <3>5 DEF Kept
  <2>8. ASSUME NEW x \in Loaded', NEW s \in Loaded',
               Stripped(heap', amx'[x]), amx'[x].NTVREG,
               amx'[s].base = amx'[x].base, amx'[s].data = NULL
        PROVE  Complete(heap', amx'[s])
    <3>1. x \in Loaded
      BY <1>8, <1>10, <2>2, <2>8 DEF Stripped
    <3>2. amx'[m].base \notin DOMAIN heap
      BY <1>8, <1>10, <2>1, <2>4 DEF Own, Pointers
    <3>3. s \in Loaded
      BY <1>11, <2>2, <2>8, <3>1, <3>2
    <3> QED BY <1>18, <2>8, <3>1, <3>3
  <2> QED BY <1>8, <1>10, <1>12, <1>14, <1>15, <2>3, <2>5, <2>6, <2>7, <2>8, InvNext
<1>17. CASE r.err # "AMX_ERR_NONE" /\ Grown(h, r) /\ r.amx.base = NULL
  <2>1. Loaded' = Loaded
    BY <1>2, <1>8, <1>17
  <2>2. \A n \in Loaded' : Fit(heap', amx'[n])
    BY <1>11, <2>1
  <2>3. Separate' /\ Rooted'
    <3>1. \A n \in Loaded : amx'[n] = amx[n]
      BY <1>11
    <3> QED BY <2>1, <3>1 DEF LoaderInv, Separate, Rooted
  <2>4. Kept'
    <3>1. left' = left \cup (Live(heap') \ DOMAIN heap)
      BY <1>5, <1>8, <1>17
    <3>2. \A n \in Loaded : Pointers(amx'[n]) = Pointers(amx[n])
      BY <1>11
    <3>3. Live(heap) \subseteq left \cup UNION {Pointers(amx'[n]) : n \in Loaded}
      BY <3>2 DEF LoaderInv, Kept
    <3>4. Live(heap') \subseteq left' \cup UNION {Pointers(amx'[n]) : n \in Loaded'}
      BY <1>13, <2>1, <3>1, <3>3
    <3> QED BY <3>4 DEF Kept
  <2>5. \A x, s \in Loaded' :
          /\ Stripped(heap', amx'[x]) /\ amx'[x].NTVREG
          /\ amx'[s].base = amx'[x].base /\ amx'[s].data = NULL
          => Complete(heap', amx'[s])
    BY <1>18, <2>1
  <2> QED BY <1>8, <1>10, <1>12, <1>14, <1>15, <2>2, <2>3, <2>4, <2>5, InvNext
<1> QED BY <1>6, <1>16, <1>17

\* Natives of the host are bound.
LEMMA BindStep ==
    ASSUME LoaderInv, NEW m \in Loaded, Sound(heap, amx[m]), NEW list \in Seq(STRING),
           Return(m, amx_Register(Here(m), list, "host")), left' = left
    PROVE  LoaderInv' /\ Keeps
<1> DEFINE h == Here(m)
           r == amx_Register(h, list, "host")
           k == NativesOf(amx[m])
           names == FileOf(h).natives
<1>1. m \in Machines /\ Loaded \subseteq Machines
  BY DEF Loaded
<1>2. /\ h \in HostState /\ Counted(h) /\ Holder(h.heap) /\ build \in Builds
      /\ h.heap = heap /\ h.amx = amx[m] /\ h.open = open
  BY <1>1, HereFacts
<1>3. Sound(heap, amx[m]) /\ heap \in Seq(BlockType) /\ amx \in [Machines -> AmxType]
  BY DEF LoaderInv, TypeInv
<1>4. "host" \in STRING \cup {"host"}
  OBVIOUS
<1> HIDE DEF h
<1>5. /\ Sound(r.heap, r.amx) /\ Evolves(h, r) /\ r.open = open
      /\ \A l : Handles(r.heap, l) = Handles(heap, l)
  <2>1. Sound(h.heap, h.amx)
    BY <1>2, <1>3
  <2>2. Sound(r.heap, r.amx)
    BY <1>2, <1>4, <2>1, RegisterSound
  <2>3. Evolves(h, r) /\ r.open = h.open /\ \A l : Handles(r.heap, l) = Handles(h.heap, l)
    BY <1>2, <1>4, <2>1, RegisterEvolves
  <2> QED BY <1>2, <2>2, <2>3
<1>6. /\ r \in HostState /\ Rebinds(heap, r.heap, k, names, "host")
  BY <1>2, <1>3, <1>4, RegisterFacts DEF Sound
<1>7. Return(m, r)
  BY DEF h
<1> HIDE DEF r, k, names
<1>8. /\ TypeInv' /\ heap' = r.heap /\ open' = r.open /\ build' = build
      /\ amx'[m] = r.amx /\ \A n \in Machines : n # m => amx'[n] = amx[n]
      /\ Loaded' = IF r.amx.base = NULL THEN Loaded \ {m} ELSE Loaded \cup {m}
  BY <1>1, <1>6, <1>7, ReturnFacts
<1>9. r.amx.base = amx[m].base /\ Pointers(r.amx) = Pointers(amx[m]) /\ r.amx.data = amx[m].data
  BY <1>2, <1>3, <1>5, EvolvesPlace
<1>10. Loaded' = Loaded
  BY <1>8, <1>9 DEF Loaded
<1>11. \A n \in Loaded : /\ Pointers(amx'[n]) = Pointers(amx[n]) /\ amx'[n].base = amx[n].base
                         /\ amx'[n].data = amx[n].data /\ Own(amx'[n]) = Own(amx[n])
  BY <1>1, <1>8, <1>9 DEF Own
<1>12. ASSUME NEW n \in Loaded, n # m, Sound(heap, amx[n]) PROVE Sound(heap', amx'[n])
  <2>1. Sound(heap, amx[n]) /\ amx[n] \in AmxType
    BY <1>1, <1>3, <1>12
  <2>2. ASSUME NativesOf(amx[n]) = k, k \in DOMAIN heap PROVE names = heap[amx[n].base].file.natives
    <3>1. CASE ~build.wide
      BY <1>2, <2>2, <3>1 DEF k, names, NativesOf, FileOf
    <3>2. CASE build.wide
      <4>1. amx[n].data = NULL /\ amx[m].data = NULL
        BY <1>3, <2>1, <3>2 DEF Sound, Placed
      <4>2. amx[n].natives = amx[m].natives /\ amx[n].natives # NULL
        <5>1. 0 \notin DOMAIN heap
          BY <1>3
        <5> QED BY <2>2, <3>2, <5>1 DEF k, NativesOf, NULL
      <4>3. amx[n].natives \in Own(amx[n]) \cap Own(amx[m])
        BY <4>1, <4>2 DEF Own, Pointers
      <4> QED BY <1>12, <4>3 DEF LoaderInv, Separate
    <3> QED BY <3>1, <3>2
  <2>3. Sound(r.heap, amx[n])
    BY <1>3, <1>6, <2>1, <2>2, RebindsKeep
  <2> QED BY <1>1, <1>8, <1>12, <2>3
<1>13. \A n \in Loaded' : Fit(heap', amx'[n])
  <2> SUFFICES ASSUME NEW n \in Loaded PROVE Fit(heap', amx'[n])
    BY <1>10
  <2>1. CASE n = m
    BY <1>5, <1>8, <2>1 DEF Fit
  <2>2. CASE n # m /\ Sound(heap, amx[n])
    BY <1>12, <2>2 DEF Fit
  <2>3. CASE n # m /\ Stripped(heap, amx[n])
    BY <1>1, <1>6, <1>8, <2>3 DEF Stripped, Fit, Rebinds, Is
  <2> QED BY <2>1, <2>2, <2>3 DEF LoaderInv, Fit
<1>20. ASSUME NEW x \in Loaded', NEW s \in Loaded', Stripped(heap', amx'[x]), amx'[x].NTVREG,
              amx'[s].base = amx'[x].base, amx'[s].data = NULL
       PROVE  Complete(heap', amx'[s])
  <2>1. x \in Loaded /\ s \in Loaded /\ amx[s].base = amx[x].base /\ amx[s].data = NULL
    BY <1>10, <1>11, <1>20
  <2>2. x # m
    BY <1>3, <1>8, <1>9, <1>20 DEF Sound, Placed, Stripped
  <2>3. Complete(heap, amx[s])
    BY <1>1, <1>8, <1>20, <2>1, <2>2, Vouches
  <2>4. Sound(heap, amx[s])
    BY <1>3, <2>1, FitIn DEF LoaderInv
  <2>5. NativesOf(amx'[s]) = NativesOf(amx[s])
    <3>1. amx'[s].natives = amx[s].natives
      BY <1>1, <1>2, <1>3, <1>5, <1>8, <2>1 DEF Evolves, AmxType
    <3> QED BY <2>1, <1>11, <3>1 DEF NativesOf
  <2>6. ASSUME NEW i \in DOMAIN heap'[amx'[s].base].file.natives
        PROVE  heap'[NativesOf(amx'[s])].ntv[i] # UNBOUND
    <3>1. i \in DOMAIN heap[amx[s].base].file.natives
      BY <1>6, <1>8, <1>11, <2>1, <2>4, <2>6 DEF Rebinds, Sound, Placed, Is
    <3>2. heap[NativesOf(amx[s])].ntv[i] # UNBOUND
      BY <2>3, <3>1 DEF Complete
    <3>3. heap[amx[s].base].file.natives # << >>
      BY <3>1
    <3>4. NativesOf(amx[s]) \in DOMAIN heap /\ i \in DOMAIN heap[NativesOf(amx[s])].ntv
      BY <1>3, <2>4, <3>1, <3>3, PointsIn DEF Sound, Sized
    <3>5. heap'[NativesOf(amx[s])].ntv[i] # UNBOUND
      BY <1>6, <1>8, <3>2, <3>4 DEF Rebinds
    <3> QED BY <2>5, <3>5
  <2> QED BY <2>6 DEF Complete
<1>14. Holder(heap')
  BY <1>2, <1>3, <1>5, <1>8, EvolvesHolder
<1>15. Idle' /\ Separate' /\ Rooted'
  <2>1. \A n \in Machines \ Loaded : amx'[n] = amx[n]
    BY <1>8
  <2>2. Idle'
    BY <1>10, <2>1 DEF LoaderInv, Idle
  <2>3. Separate'
    BY <1>10, <1>11 DEF LoaderInv, Separate
  <2>4. Rooted'
    <3> SUFFICES ASSUME NEW x \in Loaded, amx'[x].data # NULL
                 PROVE  \E s \in Loaded : amx'[s].data = NULL /\ amx'[s].base = amx'[x].base
      BY <1>10 DEF Rooted
    <3>1. PICK s \in Loaded : amx[s].data = NULL /\ amx[s].base = amx[x].base
      BY <1>11 DEF LoaderInv, Rooted
    <3> QED BY <1>11, <3>1
  <2> QED BY <2>2, <2>3, <2>4
<1>16. Live(heap') = Live(heap)
  BY <1>6, <1>8 DEF Live, Rebinds
<1>17. Kept'
  <2>1. \A n \in Loaded : Pointers(amx'[n]) = Pointers(amx[n])
    BY <1>11
  <2>2. Live(heap) \subseteq left \cup UNION {Pointers(amx'[n]) : n \in Loaded}
    BY <2>1 DEF LoaderInv, Kept
  <2> QED BY <1>10, <1>16, <2>2 DEF Kept
<1>18. Balanced'
  BY <1>5, <1>8 DEF LoaderInv, Balanced
<1>19. Keeps
  BY <1>6, <1>8 DEF Keeps, Rebinds, Live
<1> QED BY <1>8, <1>13, <1>14, <1>15, <1>17, <1>18, <1>19, <1>20, InvNext

\* The host registers a list.
LEMMA RegisterStep ==
    ASSUME LoaderInv, NEW m \in Machines, Register(m)
    PROVE  LoaderInv' /\ Keeps
<1>1. PICK list \in Lists : Return(m, amx_Register(Here(m), list, "host"))
  BY DEF Register
<1>2. m \in Loaded /\ left' = left /\ amx[m].data = NULL
  BY DEF Register, Loaded
<1>3. list \in Seq(STRING)
  BY LoaderAssumption
<1>4. Sound(heap, amx[m])
  BY <1>2, FitIn DEF LoaderInv, TypeInv
<1> QED BY <1>1, <1>2, <1>3, <1>4, BindStep

\* A clone without tables is marked when its program has no natives.
LEMMA MarkStep ==
    ASSUME LoaderInv, NEW m \in Loaded, Stripped(heap, amx[m]), FileOf(Here(m)).natives = << >>,
           Return(m, amx_Register(Here(m), << >>, "host")), left' = left
    PROVE  LoaderInv' /\ Keeps
<1> DEFINE h == Here(m)
           c == [amx[m] EXCEPT !.NTVREG = TRUE]
           r == amx_Register(h, << >>, "host")
<1>1. m \in Machines /\ Loaded \subseteq Machines
  BY DEF Loaded
<1>2. h \in HostState /\ h.heap = heap /\ h.amx = amx[m] /\ h.open = open /\ amx[m] \in AmxType
  BY <1>1, HereFacts DEF HostState
<1>3. c \in AmxType /\ c = [c EXCEPT !.NTVREG = TRUE]
      /\ c.base = amx[m].base /\ c.natives = amx[m].natives /\ c.libraries = amx[m].libraries
      /\ c.instr_addresses = amx[m].instr_addresses /\ c.data = amx[m].data
  BY <1>2 DEF AmxType
<1>4. r \in HostState /\ r.heap = heap /\ r.open = open /\ r.amx = c
  <2> HIDE DEF h
  <2>1. r = [h EXCEPT !.amx.NTVREG = TRUE, !.err = "AMX_ERR_NONE"]
    <3>1. FileOf(h).natives = << >>
      BY DEF h
    <3>2. DOMAIN << >> = {}
      OBVIOUS
    <3> QED BY <3>1, <3>2 DEF amx_Register, Err
  <2>2. "AMX_ERR_NONE" \in Errors
    BY DEF Errors
  <2> QED BY <1>2, <1>3, <2>1, <2>2 DEF HostState
<1>5. Return(m, r)
  OBVIOUS
<1> HIDE DEF h, c, r
<1>6. /\ TypeInv' /\ heap' = heap /\ open' = open /\ build' = build
      /\ amx'[m] = c /\ \A n \in Machines : n # m => amx'[n] = amx[n]
      /\ Loaded' = IF c.base = NULL THEN Loaded \ {m} ELSE Loaded \cup {m}
  BY <1>1, <1>4, <1>5, ReturnFacts
<1>7. Loaded' = Loaded
  BY <1>3, <1>6 DEF Loaded
<1>8. \A n \in Loaded : /\ Pointers(amx'[n]) = Pointers(amx[n]) /\ amx'[n].base = amx[n].base
                        /\ amx'[n].data = amx[n].data /\ Own(amx'[n]) = Own(amx[n])
  BY <1>1, <1>3, <1>6 DEF Own, Pointers
<1>9. \A n \in Loaded' : Fit(heap', amx'[n])
  <2>1. Stripped(heap', amx'[m])
    BY <1>3, <1>6 DEF Stripped
  <2> QED BY <1>1, <1>6, <1>7, <2>1 DEF LoaderInv, Fit
<1>10. Idle' /\ Separate' /\ Kept'
  <2>1. Idle'
    BY <1>6, <1>7 DEF LoaderInv, Idle
  <2>2. Separate'
    BY <1>7, <1>8 DEF LoaderInv, Separate
  <2>3. Live(heap) \subseteq left \cup UNION {Pointers(amx'[n]) : n \in Loaded}
    BY <1>8 DEF LoaderInv, Kept
  <2>4. Kept'
    BY <1>6, <1>7, <2>3 DEF Kept
  <2> QED BY <2>1, <2>2, <2>4
<1>11. Rooted'
  <2> SUFFICES ASSUME NEW x \in Loaded, amx'[x].data # NULL
               PROVE  \E s \in Loaded : amx'[s].data = NULL /\ amx'[s].base = amx'[x].base
    BY <1>7 DEF Rooted
  <2>1. PICK s \in Loaded : amx[s].data = NULL /\ amx[s].base = amx[x].base
    BY <1>8 DEF LoaderInv, Rooted
  <2> QED BY <1>8, <2>1
<1>12. Holder(heap') /\ Balanced' /\ Keeps
  BY <1>6 DEF LoaderInv, Balanced, Keeps
<1>13. ASSUME NEW x \in Loaded', NEW s \in Loaded', amx'[x].NTVREG,
              amx'[s].base = amx'[x].base, amx'[s].data = NULL
       PROVE  Complete(heap', amx'[s])
  <2>1. s # m /\ amx'[s] = amx[s]
    BY <1>1, <1>6, <1>7, <1>8, <1>13 DEF Stripped
  <2>2. CASE x = m
    <3>1. heap[amx[s].base].file.natives = << >>
      BY <1>2, <1>7, <1>8, <1>13, <2>1, <2>2 DEF FileOf, h
    <3> QED BY <1>6, <2>1, <3>1 DEF Complete
  <2>3. CASE x # m
    <3>1. amx'[x] = amx[x]
      BY <1>1, <1>6, <1>7, <2>3
    <3> QED BY <1>6, <1>7, <1>13, <2>1, <3>1, Vouches
  <2> QED BY <2>2, <2>3
<1> QED BY <1>6, <1>9, <1>10, <1>11, <1>12, <1>13, InvNext

\* Missing natives are looked for in no list.
LEMMA ExecStep ==
    ASSUME LoaderInv, NEW m \in Machines, Exec(m)
    PROVE  LoaderInv' /\ Keeps
<1>1. m \in Loaded /\ left' = left
  BY DEF Exec, Loaded
<1>2. "AMX_ERR_INIT" \in Errors /\ << >> \in Seq(STRING)
  BY DEF Errors
<1>3. \/ Return(m, Err(Here(m), "AMX_ERR_INIT"))
      \/ Return(m, Here(m))
      \/ /\ Return(m, amx_Register(Here(m), << >>, "host"))
         /\ NativesOf(amx[m]) # NULL \/ FileOf(Here(m)).natives = << >>
  BY DEF Exec
<1>4. CASE Return(m, Err(Here(m), "AMX_ERR_INIT"))
  BY <1>1, <1>2, <1>4, NothingDone
<1>5. CASE Return(m, Here(m))
  BY <1>1, <1>5, NothingDone
<1>6. CASE /\ Return(m, amx_Register(Here(m), << >>, "host"))
           /\ NativesOf(amx[m]) # NULL \/ FileOf(Here(m)).natives = << >>
  <2>1. CASE Sound(heap, amx[m])
    BY <1>1, <1>2, <1>6, <2>1, BindStep
  <2>2. CASE Stripped(heap, amx[m])
    <3>1. NativesOf(amx[m]) = NULL
      BY <2>2 DEF Stripped, NativesOf
    <3> QED BY <1>1, <1>6, <2>2, <3>1, MarkStep
  <2> QED BY <1>1, <2>1, <2>2 DEF LoaderInv, Fit
<1> QED BY <1>3, <1>4, <1>5, <1>6

\* A clone has a block for its data and shares the rest.
LEMMA CloneStep ==
    ASSUME LoaderInv, NEW m \in Machines, Clone(m)
    PROVE  LoaderInv' /\ Keeps
<1> DEFINE h == Here(m)
           b == Table("data", 0, 0)
           u == malloc(h, b)
           n == Len(heap) + 1
<1>1. PICK source \in Machines \ {m} :
        /\ amx[m] = Empty /\ amx[source].base # NULL
        /\ LET a == amx[source]
           IN  IF ~a.RELOC THEN Return(m, Err(h, "AMX_ERR_INIT"))
               ELSE Return(m, [u EXCEPT !.amx.base = a.base, !.amx.data = newest(u),
                                        !.amx.RELOC = a.RELOC, !.amx.NTVREG = a.NTVREG])
  BY DEF Clone
<1>2. left' = left
  BY DEF Clone
<1>3. CASE ~amx[source].RELOC
  <2>1. "AMX_ERR_INIT" \in Errors
    BY DEF Errors
  <2> QED BY <1>1, <1>2, <1>3, <2>1, NothingDone
<1>4. CASE amx[source].RELOC
  <2> DEFINE a == amx[source]
             c == [Empty EXCEPT !.base = a.base, !.data = n, !.RELOC = a.RELOC, !.NTVREG = a.NTVREG]
             r == [u EXCEPT !.amx.base = a.base, !.amx.data = newest(u),
                            !.amx.RELOC = a.RELOC, !.amx.NTVREG = a.NTVREG]
  <2>1. /\ h \in HostState /\ Counted(h) /\ Holder(h.heap) /\ build \in Builds
        /\ h.heap = heap /\ h.amx = amx[m] /\ h.open = open
    BY HereFacts
  <2>2. b \in BlockType /\ b.kind = "data" /\ DOMAIN b.lib = {}
    <3>1. NOFILE \in FileType
      BY NoFile
    <3> QED BY <3>1, TableFacts
  <2> HIDE DEF h, b
  <2>3. /\ Grown(h, u) /\ u.amx = amx[m] /\ newest(u) = n /\ n \notin DOMAIN heap /\ n \in Nat \ {0}
        /\ DOMAIN u.heap = DOMAIN heap \cup {n} /\ u.heap[n] = b
    <3>1. \A j \in DOMAIN b.lib : b.lib[j] = UNBOUND
      BY <2>2
    <3> QED BY <2>1, <2>2, <3>1, MallocGrows
  <2> HIDE DEF u, n
  <2>4. /\ source \in Loaded /\ a \in AmxType /\ Fit(heap, a) /\ heap \in Seq(BlockType)
        /\ source # m /\ m \notin Loaded
    BY <1>1 DEF LoaderInv, TypeInv, Loaded, Empty, NULL
  <2>5. /\ c \in AmxType /\ c.base = a.base /\ c.natives = NULL /\ c.libraries = NULL
        /\ c.instr_addresses = NULL /\ c.data = n /\ c.NTVREG = a.NTVREG
    BY <2>3, <2>4 DEF Empty, AmxType, NULL
  <2>6. r \in HostState /\ r.heap = u.heap /\ r.open = u.open /\ r.amx = c
    <3>1. r = [u EXCEPT !.amx = c]
      BY <1>1, <2>3
    <3>2. u \in HostState
      BY <2>3 DEF Grown
    <3> HIDE DEF r, c
    <3> QED BY <2>5, <3>1, <3>2 DEF HostState
  <2>7. Return(m, r)
    BY <1>1, <1>4
  <2> HIDE DEF r, c, a
  <2>8. /\ TypeInv' /\ heap' = r.heap /\ open' = r.open /\ build' = build
        /\ amx'[m] = r.amx /\ \A x \in Machines : x # m => amx'[x] = amx[x]
        /\ Loaded' = IF r.amx.base = NULL THEN Loaded \ {m} ELSE Loaded \cup {m}
    BY <2>6, <2>7, ReturnFacts
  <2>9. Loaded' = Loaded \cup {m}
    BY <1>1, <2>5, <2>6, <2>8 DEF a
  <2>10. /\ DOMAIN heap' = DOMAIN heap \cup {n} /\ \A p \in DOMAIN heap : heap'[p] = heap[p]
         /\ heap'[n] = b
    BY <2>1, <2>3, <2>6, <2>8 DEF Grown
  <2>11. /\ Is(heap', n, "data") /\ n # NULL /\ Is(heap', a.base, "image")
         /\ a.base \in DOMAIN heap /\ heap'[a.base] = heap[a.base]
    <3>1. Is(heap, a.base, "image")
      BY <2>4, FitIn
    <3> QED BY <2>2, <2>3, <2>10, <3>1 DEF Is, NULL
  <2>23. ASSUME build.wide PROVE Stripped(heap', c)
    BY <2>5, <2>11, <2>23 DEF Stripped
  <2>24. ASSUME ~build.wide PROVE Sound(heap', c)
    <3>6. Sound(heap, a)
      BY <2>4, <2>24 DEF Fit, Stripped
    <3>1. NativesOf(c) = a.base /\ LibrariesOf(c) = a.base /\ NativesOf(a) = a.base /\ LibrariesOf(a) = a.base
      BY <2>5, <2>24 DEF NativesOf, LibrariesOf
    <3>2. Placed(heap', c)
      BY <2>5, <2>11, <2>24 DEF Placed
    <3>3. Sized(heap', c)
      BY <2>5, <2>11, <3>1, <3>6 DEF Sound, Sized
    <3>4. \A x : Holds(heap, a, x) => Holds(heap', c, x)
      BY <2>11, <3>1 DEF Holds
    <3>5. Sourced(heap', c)
      BY <2>5, <2>11, <3>1, <3>4, <3>6 DEF Sound, Sourced
    <3> QED BY <3>2, <3>3, <3>5 DEF Sound
  <2>12. Fit(heap', c)
    BY <2>23, <2>24 DEF Fit
  <2>13. ASSUME NEW x \in Loaded
         PROVE  /\ x # m /\ amx'[x] = amx[x] /\ Fit(heap', amx'[x]) /\ Own(amx[x]) \subseteq DOMAIN heap
                /\ amx[x].data = NULL /\ Complete(heap, amx[x]) => Complete(heap', amx'[x])
    <3>1. x # m /\ amx'[x] = amx[x]
      BY <2>4, <2>8 DEF Loaded
    <3>2. Fit(heap, amx[x])
      BY DEF LoaderInv
    <3>3. Own(amx[x]) \subseteq DOMAIN heap
      BY <2>4, <3>2, FitIn
    <3>4. \A p \in Pointers(amx[x]) : p \in DOMAIN heap' /\ heap'[p] = heap[p]
      BY <2>4, <2>10, <3>2, FitIn
    <3>5. Fit(heap', amx[x])
      BY <2>4, <3>2, <3>4, FitApart
    <3>6. ASSUME amx[x].data = NULL, Complete(heap, amx[x]) PROVE Complete(heap', amx[x])
      <4>1. Sound(heap, amx[x])
        BY <2>4, <3>2, <3>6, FitIn
      <4> QED BY <2>4, <3>4, <3>6, <4>1, CompleteApart
    <3> QED BY <3>1, <3>3, <3>5, <3>6
  <2>14. \A x \in Loaded' : Fit(heap', amx'[x])
    BY <2>6, <2>8, <2>9, <2>12, <2>13
  <2>15. Own(amx'[m]) = {n} /\ amx'[m].data # NULL /\ amx'[m].base = a.base
    BY <2>3, <2>5, <2>6, <2>8 DEF Own, NULL
  <2>16. Separate'
    <3> SUFFICES ASSUME NEW x \in Loaded', NEW y \in Loaded', x # y
                 PROVE  Own(amx'[x]) \cap Own(amx'[y]) = {}
      BY DEF Separate
    <3>1. \A z \in Loaded : Own(amx'[z]) \cap {n} = {}
      BY <2>3, <2>13
    <3>2. CASE x = m
      BY <2>9, <2>15, <3>1, <3>2
    <3>3. CASE y = m
      BY <2>9, <2>15, <3>1, <3>3
    <3>4. CASE x # m /\ y # m
      BY <2>9, <2>13, <3>4 DEF LoaderInv, Separate
    <3> QED BY <3>2, <3>3, <3>4
  <2>17. Rooted'
    <3> SUFFICES ASSUME NEW x \in Loaded', amx'[x].data # NULL
                 PROVE  \E s \in Loaded' : amx'[s].data = NULL /\ amx'[s].base = amx'[x].base
      BY DEF Rooted
    <3>1. \A z \in Loaded : \E s \in Loaded : amx[s].data = NULL /\ amx[s].base = amx[z].base
      BY DEF LoaderInv, Rooted
    <3>2. PICK z \in Loaded : amx'[x].base = amx[z].base
      BY <2>4, <2>9, <2>13, <2>15 DEF a
    <3>3. PICK s \in Loaded : amx[s].data = NULL /\ amx[s].base = amx[z].base
      BY <3>1
    <3> QED BY <2>9, <2>13, <3>2, <3>3
  <2>18. Kept'
    <3>1. Live(heap') \subseteq Live(heap) \cup {n}
      BY <2>10 DEF Live
    <3>2. n \in Pointers(amx'[m])
      BY <2>3, <2>5, <2>6, <2>8 DEF Pointers, NULL
    <3>3. \A x \in Loaded : Pointers(amx'[x]) = Pointers(amx[x])
      BY <2>13
    <3>4. Live(heap) \subseteq left \cup UNION {Pointers(amx'[x]) : x \in Loaded}
      BY <3>3 DEF LoaderInv, Kept
    <3>5. Live(heap') \subseteq left' \cup UNION {Pointers(amx'[x]) : x \in Loaded'}
      BY <1>2, <2>9, <3>1, <3>2, <3>4
    <3> QED BY <3>5 DEF Kept
  <2>19. Counted(u) /\ Holder(u.heap)
    BY <2>1, <2>3, GrownHandles
  <2>20. Holder(heap') /\ Balanced'
    BY <2>6, <2>8, <2>19 DEF Counted, Balanced
  <2>21. Idle'
    BY <2>8, <2>9 DEF LoaderInv, Idle
  <2>22. Keeps
    BY <2>10 DEF Keeps, Live
  <2>25. ASSUME NEW x \in Loaded', NEW s \in Loaded', amx'[x].NTVREG,
                amx'[s].base = amx'[x].base, amx'[s].data = NULL
         PROVE  Complete(heap', amx'[s])
    <3>1. s \in Loaded /\ amx'[s] = amx[s]
      BY <2>9, <2>13, <2>15, <2>25
    <3>2. PICK z \in Loaded : amx[z].NTVREG /\ amx'[x].base = amx[z].base
      <4>1. CASE x = m
        BY <2>4, <2>5, <2>6, <2>8, <2>25, <4>1 DEF a
      <4>2. CASE x # m
        BY <2>9, <2>13, <2>25, <4>2
      <4> QED BY <4>1, <4>2
    <3>3. Complete(heap, amx[s])
      BY <2>25, <3>1, <3>2, Vouches
    <3> QED BY <2>13, <2>25, <3>1, <3>3
  <2> QED BY <2>8, <2>14, <2>16, <2>17, <2>18, <2>20, <2>21, <2>22, <2>25, InvNext
<1> QED BY <1>3, <1>4

\* The blocks F are freed.
Frees(hp, hp2, F) ==
    /\ F \subseteq DOMAIN hp /\ DOMAIN hp2 = DOMAIN hp
    /\ \A b \in DOMAIN hp : hp2[b] = IF b \in F THEN FREED ELSE hp[b]

\* The handles in freed blocks are gone, the others stay.
LEMMA FreesFacts ==
    ASSUME NEW hp, NEW hp2, NEW F, Frees(hp, hp2, F), Holder(hp)
    PROVE  /\ Live(hp2) = Live(hp) \ F /\ Holder(hp2)
           /\ \A l, p : p \in Handles(hp2, l) <=> p \in Handles(hp, l) /\ p[1] \notin F
<1>1. Live(hp2) = Live(hp) \ F
  BY FreedBlock DEF Frees, Live
<1>2. Holder(hp2)
  BY FreedBlock DEF Frees, Holder
<1>3. ASSUME NEW l, NEW p
      PROVE  p \in Handles(hp2, l) <=> p \in Handles(hp, l) /\ p[1] \notin F
  <2>1. \A b \in Live(hp) \ F : hp2[b] = hp[b]
    BY DEF Frees, Live
  <2>2. ASSUME p \in Handles(hp2, l) PROVE p \in Handles(hp, l) /\ p[1] \notin F
    <3>1. PICK b \in Live(hp2) : \E i \in DOMAIN hp2[b].lib : p = <<b, i>> /\ hp2[b].lib[i] = <<l>>
      BY <2>2, HandleIn
    <3>2. b \in Live(hp) /\ b \notin F /\ p[1] = b
      BY <1>1, <3>1
    <3> QED BY <2>1, <3>1, <3>2, HandleIn
  <2>3. ASSUME p \in Handles(hp, l), p[1] \notin F PROVE p \in Handles(hp2, l)
    <3>1. PICK b \in Live(hp) : \E i \in DOMAIN hp[b].lib : p = <<b, i>> /\ hp[b].lib[i] = <<l>>
      BY <2>3, HandleIn
    <3>2. b \in Live(hp2) /\ hp2[b] = hp[b]
      BY <1>1, <2>1, <2>3, <3>1
    <3> QED BY <3>1, <3>2, HandleIn
  <2> QED BY <2>2, <2>3
<1> QED BY <1>1, <1>2, <1>3

\* A machine is freed with the blocks that are its own, and its libraries are
\* closed.
LEMMA FreedStep ==
    ASSUME LoaderInv, NEW m \in Loaded, NEW r \in HostState, Return(m, r), left' = left,
           r.amx = Empty, Frees(heap, r.heap, Own(amx[m])),
           \A l \in DOMAIN Libs :
               IsFiniteSet(Handles(r.heap, l)) /\ r.open[l] = Cardinality(Handles(r.heap, l)),
           \A n \in Loaded \ {m} : Pointers(amx[n]) \cap Own(amx[m]) = {},
           \A n \in Loaded \ {m} : amx[n].data # NULL =>
               \E s \in Loaded \ {m} : amx[s].data = NULL /\ amx[s].base = amx[n].base,
           amx[m].data # NULL => amx[m].base \in UNION {Pointers(amx[n]) : n \in Loaded \ {m}}
    PROVE  LoaderInv' /\ Keeps
<1> DEFINE F == Own(amx[m])
<1>1. m \in Machines /\ Empty.base = NULL /\ Empty.data = NULL
  BY DEF Loaded, Empty
<1>2. /\ TypeInv' /\ heap' = r.heap /\ open' = r.open /\ build' = build
      /\ amx'[m] = r.amx /\ \A n \in Machines : n # m => amx'[n] = amx[n]
      /\ Loaded' = IF r.amx.base = NULL THEN Loaded \ {m} ELSE Loaded \cup {m}
  BY <1>1, ReturnFacts
<1>3. Loaded' = Loaded \ {m} /\ \A n \in Loaded' : n \in Loaded /\ n # m /\ amx'[n] = amx[n]
  BY <1>1, <1>2 DEF Loaded
<1>4. heap \in Seq(BlockType) /\ Holder(heap)
  BY DEF LoaderInv, TypeInv
<1>5. Live(heap') = Live(heap) \ F /\ Holder(heap')
  BY <1>2, <1>4, FreesFacts
<1>6. ASSUME NEW n \in Loaded'
      PROVE  /\ Fit(heap', amx'[n])
             /\ amx[n].data = NULL /\ Complete(heap, amx[n]) => Complete(heap', amx'[n])
  <2>1. Fit(heap, amx[n]) /\ Pointers(amx[n]) \cap F = {}
    BY <1>3 DEF LoaderInv
  <2>2. Pointers(amx[n]) \subseteq DOMAIN heap
    BY <1>4, <2>1, FitIn
  <2>3. \A p \in Pointers(amx[n]) : p \in DOMAIN heap' /\ heap'[p] = heap[p]
    BY <1>2, <2>1, <2>2 DEF Frees
  <2>4. Fit(heap', amx[n])
    BY <1>4, <2>1, <2>3, FitApart
  <2>5. ASSUME amx[n].data = NULL, Complete(heap, amx[n]) PROVE Complete(heap', amx[n])
    <3>1. Sound(heap, amx[n])
      BY <1>4, <2>1, <2>5, FitIn
    <3> QED BY <1>4, <2>3, <2>5, <3>1, CompleteApart
  <2> QED BY <1>3, <2>4, <2>5
<1>7. Idle'
  <2> SUFFICES ASSUME NEW n \in Machines \ Loaded' PROVE amx'[n].data = NULL
    BY DEF Idle
  <2> QED BY <1>1, <1>2, <1>3 DEF LoaderInv, Idle
<1>8. Separate'
  BY <1>3 DEF LoaderInv, Separate
<1>9. Rooted'
  <2> SUFFICES ASSUME NEW x \in Loaded', amx'[x].data # NULL
               PROVE  \E s \in Loaded' : amx'[s].data = NULL /\ amx'[s].base = amx'[x].base
    BY DEF Rooted
  <2>1. PICK s \in Loaded \ {m} : amx[s].data = NULL /\ amx[s].base = amx[x].base
    BY <1>3
  <2> QED BY <1>3, <2>1
<1>10. Kept'
  <2>1. Live(heap) \subseteq left \cup UNION {Pointers(amx[n]) : n \in Loaded}
    BY DEF LoaderInv, Kept
  <2>2. Pointers(amx[m]) \subseteq F \cup UNION {Pointers(amx[n]) : n \in Loaded \ {m}}
    <3>1. CASE amx[m].data = NULL
      BY <3>1 DEF Own
    <3>2. CASE amx[m].data # NULL
      <4>1. Fit(heap, amx[m])
        BY DEF LoaderInv
      <4>2. Pointers(amx[m]) \subseteq {amx[m].base, amx[m].data}
        BY <1>4, <3>2, <4>1, FitIn
      <4> QED BY <3>2, <4>2 DEF Own
    <3> QED BY <3>1, <3>2
  <2> HIDE DEF F
  <2>3. Live(heap') \subseteq left \cup UNION {Pointers(amx[n]) : n \in Loaded \ {m}}
    BY <1>5, <2>1, <2>2
  <2>4. UNION {Pointers(amx[n]) : n \in Loaded \ {m}} \subseteq UNION {Pointers(amx'[n]) : n \in Loaded'}
    BY <1>3
  <2> QED BY <2>3, <2>4 DEF Kept
<1>11. Balanced'
  BY <1>2 DEF Balanced
<1>12. Keeps
  <2> SUFFICES ASSUME NEW b \in Live(heap) \cap Live(heap') PROVE heap'[b] = heap[b]
    BY DEF Keeps
  <2>1. b \notin F /\ b \in DOMAIN heap
    BY <1>5 DEF Live
  <2> QED BY <1>2, <2>1 DEF Frees
<1>13. ASSUME NEW x \in Loaded', NEW s \in Loaded', amx'[x].NTVREG,
              amx'[s].base = amx'[x].base, amx'[s].data = NULL
       PROVE  Complete(heap', amx'[s])
  <2>1. Complete(heap, amx[s])
    BY <1>3, <1>13, Vouches
  <2> QED BY <1>3, <1>6, <1>13, <2>1
<1> QED BY <1>2, <1>5, <1>6, <1>7, <1>8, <1>9, <1>10, <1>11, <1>12, <1>13, InvNext

\* A program that no clone uses is freed.
LEMMA FreeStep ==
    ASSUME LoaderInv, NEW m \in Machines, Free(m)
    PROVE  LoaderInv' /\ Keeps
<1> DEFINE h == Here(m)
           a == amx[m]
           k == Len(FileOf(h).libraries)
           F == Pointers(a)
<1>1. /\ m \in Loaded /\ a.data = NULL /\ left' = left
      /\ \A c \in Machines \ {m} : amx[c].base # a.base
      /\ Return(m, [free(amx_Cleanup(h), a.base) EXCEPT !.amx = Empty])
  BY DEF Free, Loaded
<1>2. /\ h \in HostState /\ Counted(h) /\ h.heap = heap /\ h.amx = a /\ h.open = open
  BY HereFacts
<1>3. Sound(heap, a) /\ heap \in Seq(BlockType) /\ Holder(heap) /\ Loaded \subseteq Machines
  BY <1>1, FitIn DEF LoaderInv, TypeInv, Loaded
<1> HIDE DEF h
<1>4. PICK t : /\ Closed(h, k, t)
               /\ amx_Cleanup(h) = free(free(free(t, a.libraries), a.natives), a.instr_addresses)
  BY <1>2, <1>3, CloseAll
<1>5. k \in Nat /\ DOMAIN FileOf(h).libraries = 1 .. k
  BY <1>2, <1>3, LibraryCount
<1> HIDE DEF k
<1> DEFINE f1 == free(t, a.libraries)
           f2 == free(f1, a.natives)
           f3 == free(f2, a.instr_addresses)
           f4 == free(f3, a.base)
           r == [f4 EXCEPT !.amx = Empty]
<1>6. /\ F \subseteq DOMAIN heap /\ LibrariesOf(a) \in F
      /\ \A p \in F : heap[p].kind = (IF build.wide THEN "libraries" ELSE "image") => p = LibrariesOf(a)
      /\ DOMAIN heap[LibrariesOf(a)].lib = 1 .. k
  <2>1. DOMAIN heap[LibrariesOf(a)].lib = 1 .. k
    BY <1>2, <1>3, <1>5 DEF Sound, Sized, FileOf
  <2> QED BY <1>3, <2>1, PointsIn DEF Sound
<1>7. F = {a.base, a.natives, a.libraries, a.instr_addresses} \ {NULL}
  BY <1>1 DEF Pointers
<1>8. 0 \notin DOMAIN heap
  BY <1>3
<1> HIDE DEF a, F
<1>9. f4 \in HostState /\ f4.open = t.open /\ Frees(heap, f4.heap, F)
  <2>1. t \in HostState /\ t.heap = heap
    BY <1>2, <1>4 DEF Closed
  <2>2. /\ a.libraries = NULL \/ a.libraries \in DOMAIN heap
        /\ a.natives = NULL \/ a.natives \in DOMAIN heap
        /\ a.instr_addresses = NULL \/ a.instr_addresses \in DOMAIN heap
        /\ a.base = NULL \/ a.base \in DOMAIN heap
    BY <1>6, <1>7
  <2>3. /\ f1 \in HostState /\ f1.open = t.open /\ DOMAIN f1.heap = DOMAIN heap
        /\ \A b \in DOMAIN heap : f1.heap[b] = IF b = a.libraries THEN FREED ELSE heap[b]
    BY <2>1, <2>2, FreeFacts
  <2> HIDE DEF f1
  <2>4. /\ f2 \in HostState /\ f2.open = t.open /\ DOMAIN f2.heap = DOMAIN heap
        /\ \A b \in DOMAIN heap : f2.heap[b] = IF b = a.natives THEN FREED ELSE f1.heap[b]
    BY <2>2, <2>3, FreeFacts
  <2> HIDE DEF f2
  <2>5. /\ f3 \in HostState /\ f3.open = t.open /\ DOMAIN f3.heap = DOMAIN heap
        /\ \A b \in DOMAIN heap : f3.heap[b] = IF b = a.instr_addresses THEN FREED ELSE f2.heap[b]
    BY <2>2, <2>4, FreeFacts
  <2> HIDE DEF f3
  <2>6. /\ f4 \in HostState /\ f4.open = t.open /\ DOMAIN f4.heap = DOMAIN heap
        /\ \A b \in DOMAIN heap : f4.heap[b] = IF b = a.base THEN FREED ELSE f3.heap[b]
    BY <2>2, <2>5, FreeFacts
  <2> HIDE DEF f4
  <2>7. \A b \in DOMAIN heap : f4.heap[b] = IF b \in F THEN FREED ELSE heap[b]
    <3> TAKE b \in DOMAIN heap
    <3>1. b # NULL
      BY <1>8 DEF NULL
    <3>2. b \in F <=> b = a.base \/ b = a.natives \/ b = a.libraries \/ b = a.instr_addresses
      BY <1>7, <3>1
    <3> QED BY <2>3, <2>4, <2>5, <2>6, <3>2
  <2> QED BY <1>6, <2>6, <2>7 DEF Frees
<1>10. Return(m, r)
  BY <1>1, <1>4
<1> HIDE DEF f4
<1>11. Empty \in AmxType
  BY DEF Empty, AmxType, NULL
<1>12. r \in HostState /\ r.amx = Empty /\ r.heap = f4.heap /\ r.open = t.open
  BY <1>9, <1>11 DEF HostState
<1> HIDE DEF r
<1>13. Frees(heap, r.heap, Own(amx[m])) /\ Own(amx[m]) = F
  BY <1>1, <1>9, <1>12 DEF Own, F, a
<1>14. \A l \in DOMAIN Libs :
         IsFiniteSet(Handles(r.heap, l)) /\ r.open[l] = Cardinality(Handles(r.heap, l))
  <2> TAKE l \in DOMAIN Libs
  <2>1. \A p \in Handles(heap, l) : p[1] \in F <=> p \in First(h, k)
    <3> TAKE p \in Handles(heap, l)
    <3>1. PICK b \in Live(heap) : \E i \in DOMAIN heap[b].lib : p = <<b, i>> /\ heap[b].lib[i] = <<l>>
      BY HandleIn
    <3>2. PICK i \in DOMAIN heap[b].lib : p = <<b, i>> /\ heap[b].lib[i] = <<l>>
      BY <3>1
    <3>3. p[1] = b
      BY <3>2
    <3>4. First(h, k) = {<<LibrariesOf(a), j>> : j \in 1 .. k}
      BY <1>2 DEF First
    <3>5. ASSUME b \in F PROVE p \in First(h, k)
      <4>1. heap[b].lib[i] # UNBOUND /\ b \in DOMAIN heap
        BY <3>2, Bindings DEF Live
      <4>2. b = LibrariesOf(a)
        BY <1>3, <1>6, <3>2, <3>5, <4>1 DEF Holder
      <4>3. i \in 1 .. k
        BY <1>6, <3>2, <4>2
      <4> QED BY <3>2, <3>4, <4>2, <4>3
    <3>6. ASSUME p \in First(h, k) PROVE b \in F
      <4>1. PICK j \in 1 .. k : p = <<LibrariesOf(a), j>>
        BY <3>4, <3>6
      <4>2. b = LibrariesOf(a)
        BY <3>2, <4>1
      <4> QED BY <1>6, <4>2
    <3> QED BY <3>3, <3>5, <3>6
  <2>2. \A p : p \in Handles(r.heap, l) <=> p \in Handles(heap, l) /\ p[1] \notin F
    BY <1>3, <1>13, FreesFacts
  <2>3. Handles(r.heap, l) = Handles(heap, l) \ First(h, k)
    BY <2>1, <2>2
  <2>4. IsFiniteSet(Handles(heap, l))
    BY DEF LoaderInv, Balanced
  <2>5. IsFiniteSet(Handles(heap, l) \ First(h, k))
    BY <2>4, FS_Difference
  <2>6. t.open[l] = Cardinality(Handles(heap, l) \ First(h, k))
    BY <1>2, <1>4 DEF Closed
  <2> QED BY <1>12, <2>3, <2>5, <2>6
<1>15. \A n \in Loaded \ {m} : amx[n].data # NULL =>
         \E s \in Loaded \ {m} : amx[s].data = NULL /\ amx[s].base = amx[n].base
  BY <1>1, <1>3 DEF LoaderInv, Rooted, a
<1>16. ASSUME NEW n \in Loaded \ {m} PROVE Pointers(amx[n]) \cap F = {}
  <2>1. CASE amx[n].data = NULL
    BY <1>1, <1>13, <2>1 DEF LoaderInv, Separate, Own
  <2>2. CASE amx[n].data # NULL
    <3>1. Fit(heap, amx[n])
      BY DEF LoaderInv
    <3>2. Pointers(amx[n]) \subseteq {amx[n].base, amx[n].data}
      BY <1>3, <2>2, <3>1, FitIn
    <3>3. amx[n].data \notin F
      <4>1. amx[n].data \in Own(amx[n])
        BY <2>2 DEF Own
      <4> QED BY <1>1, <1>13, <4>1 DEF LoaderInv, Separate
    <3>4. amx[n].base \notin F
      <4>1. PICK s \in Loaded \ {m} : amx[s].data = NULL /\ amx[s].base = amx[n].base
        BY <1>15, <2>2
      <4>2. amx[s].base \in Own(amx[s])
        <5>1. Fit(heap, amx[s])
          BY DEF LoaderInv
        <5> QED BY <1>3, <4>1, <5>1, FitIn
      <4> QED BY <1>1, <1>13, <4>1, <4>2 DEF LoaderInv, Separate
    <3> QED BY <3>2, <3>3, <3>4
  <2> QED BY <2>1, <2>2
<1> QED BY <1>1, <1>10, <1>12, <1>13, <1>14, <1>15, <1>16, FreedStep DEF a

\* The data of a clone is freed.
LEMMA FreeCloneStep ==
    ASSUME LoaderInv, NEW m \in Machines, FreeClone(m)
    PROVE  LoaderInv' /\ Keeps
<1> DEFINE h == Here(m)
           d == amx[m].data
           f == free(h, d)
           r == [f EXCEPT !.amx = Empty]
<1>1. d # NULL /\ left' = left /\ Return(m, r)
  BY DEF FreeClone
<1>2. m \in Loaded
  BY <1>1 DEF LoaderInv, Idle
<1>3. h \in HostState /\ h.heap = heap /\ h.amx = amx[m] /\ h.open = open
  BY HereFacts
<1>4. /\ heap \in Seq(BlockType) /\ Holder(heap) /\ Is(heap, d, "data")
  BY <1>1, <1>2, FitIn DEF LoaderInv, TypeInv
<1> HIDE DEF h
<1>5. /\ f \in HostState /\ f.open = open /\ Frees(heap, f.heap, {d})
  <2>1. d \in DOMAIN h.heap
    BY <1>3, <1>4 DEF Is
  <2> HIDE DEF d
  <2>2. /\ f \in HostState /\ f.open = h.open /\ DOMAIN f.heap = DOMAIN h.heap
        /\ \A b \in DOMAIN h.heap : f.heap[b] = IF b = d THEN FREED ELSE h.heap[b]
    BY <1>3, <2>1, FreeFacts
  <2> HIDE DEF f
  <2> QED BY <1>3, <2>1, <2>2 DEF Frees
<1> HIDE DEF f
<1>6. Empty \in AmxType
  BY DEF Empty, AmxType, NULL
<1>7. r \in HostState /\ r.amx = Empty /\ r.heap = f.heap /\ r.open = open
  BY <1>5, <1>6 DEF HostState
<1> HIDE DEF r
<1>8. Own(amx[m]) = {d}
  BY <1>1 DEF Own
<1>9. \A l \in DOMAIN Libs :
        IsFiniteSet(Handles(r.heap, l)) /\ r.open[l] = Cardinality(Handles(r.heap, l))
  <2> TAKE l \in DOMAIN Libs
  <2>1. \A p \in Handles(heap, l) : p[1] # d
    <3> TAKE p \in Handles(heap, l)
    <3>1. PICK b \in Live(heap) : \E i \in DOMAIN heap[b].lib : p = <<b, i>> /\ heap[b].lib[i] = <<l>>
      BY HandleIn
    <3>2. heap[b].kind \in {"image", "libraries"} /\ p[1] = b
      BY <1>4, <3>1, Bindings DEF Holder, Live
    <3> QED BY <1>4, <3>2 DEF Is
  <2>2. \A p : p \in Handles(f.heap, l) <=> p \in Handles(heap, l) /\ p[1] \notin {d}
    BY <1>4, <1>5, FreesFacts
  <2>3. Handles(f.heap, l) = Handles(heap, l)
    BY <2>1, <2>2
  <2> QED BY <1>7, <2>3 DEF LoaderInv, Balanced
<1>10. ASSUME NEW n \in Loaded \ {m} PROVE Pointers(amx[n]) \cap {d} = {}
  <2>1. d \notin Own(amx[n])
    BY <1>2, <1>8 DEF LoaderInv, Separate
  <2>2. Fit(heap, amx[n])
    BY DEF LoaderInv
  <2>3. d # amx[n].base
    BY <1>4, <2>2, FitIn DEF Is
  <2>4. CASE amx[n].data = NULL
    BY <2>1, <2>4 DEF Own
  <2>5. CASE amx[n].data # NULL
    <3>1. Pointers(amx[n]) \subseteq {amx[n].base, amx[n].data}
      BY <1>4, <2>2, <2>5, FitIn
    <3> QED BY <2>1, <2>3, <2>5, <3>1 DEF Own
  <2> QED BY <2>4, <2>5
<1>11. \A n \in Loaded : amx[n].data # NULL =>
         \E s \in Loaded \ {m} : amx[s].data = NULL /\ amx[s].base = amx[n].base
  BY <1>1 DEF LoaderInv, Rooted
<1>12. amx[m].base \in UNION {Pointers(amx[n]) : n \in Loaded \ {m}}
  <2>1. PICK s \in Loaded \ {m} : amx[s].base = amx[m].base
    BY <1>1, <1>2, <1>11
  <2>2. amx[s].base \in Pointers(amx[s])
    BY <1>4, FitIn DEF LoaderInv
  <2> QED BY <2>1, <2>2
<1> QED BY <1>1, <1>2, <1>5, <1>7, <1>8, <1>9, <1>10, <1>11, <1>12, FreedStep DEF r

-----------------------------------------------------------------------------
(* The theorems.                                                           *)

HostSpec == HostInit /\ [][HostNext]_hostVars

\* Nothing happens.
LEMMA Stutters ==
    ASSUME LoaderInv, UNCHANGED hostVars
    PROVE  LoaderInv' /\ Keeps
<1>1. heap' = heap /\ amx' = amx /\ open' = open /\ build' = build /\ left' = left /\ err' = err
  BY DEF hostVars
<1>2. Loaded' = Loaded
  BY <1>1 DEF Loaded
<1>3. Holder(heap') /\ \A n \in Loaded' : Fit(heap', amx'[n])
  BY <1>1, <1>2 DEF LoaderInv
<1>6. ASSUME NEW x \in Loaded', NEW s \in Loaded', amx'[x].NTVREG,
             amx'[s].base = amx'[x].base, amx'[s].data = NULL
      PROVE  Complete(heap', amx'[s])
  BY <1>1, <1>2, <1>6, Vouches
<1>4. TypeInv' /\ Idle' /\ Separate' /\ Rooted' /\ Kept' /\ Balanced'
  BY <1>1, <1>2 DEF LoaderInv, TypeInv, Idle, Separate, Rooted, Kept, Balanced
<1>5. Keeps
  BY <1>1 DEF Keeps
<1> QED BY <1>1, <1>3, <1>4, <1>5, <1>6, InvNext

\* Every step of the host.
LEMMA Steps ==
    ASSUME LoaderInv, [HostNext]_hostVars
    PROVE  LoaderInv' /\ Keeps
<1>1. ASSUME NEW m \in Machines, Load(m) \/ Register(m) \/ Clone(m) \/ Exec(m) \/ Free(m) \/ FreeClone(m)
      PROVE  LoaderInv' /\ Keeps
  BY <1>1, LoadStep, RegisterStep, CloneStep, ExecStep, FreeStep, FreeCloneStep
<1>2. CASE HostNext
  BY <1>1, <1>2 DEF HostNext
<1> QED BY <1>2, Stutters

\* The invariant holds of the loader whatever the host calls, in any order.
THEOREM Inductive == HostSpec => []LoaderInv
<1>1. HostInit => LoaderInv
  BY InitHolds
<1>2. LoaderInv /\ [HostNext]_hostVars => LoaderInv'
  BY Steps
<1> QED BY <1>1, <1>2, PTL DEF HostSpec

\* The invariant says who owns what.
LEMMA InvOwned ==
    ASSUME LoaderInv
    PROVE  Owned
<1>1. \A m \in Loaded : Pointers(amx[m]) \subseteq Live(heap)
  BY FitIn DEF LoaderInv, TypeInv
<1> QED BY <1>1 DEF LoaderInv, Owned, Kept, Balanced

\* The invariant says where functions come from.
LEMMA InvNatives ==
    ASSUME LoaderInv
    PROVE  NativesExist
<1> SUFFICES ASSUME NEW m \in Loaded, amx[m].NTVREG
             PROVE  \E s \in Loaded :
                        /\ amx[s].base = amx[m].base /\ amx[s].data = NULL
                        /\ \A i \in DOMAIN heap[amx[s].base].file.natives :
                             Exists(heap[NativesOf(amx[s])].ntv[i], heap[amx[s].base].file.natives[i])
  BY DEF NativesExist
<1>4. \E s \in Loaded : amx[s].data = NULL /\ amx[s].base = amx[m].base
  BY DEF LoaderInv, Rooted
<1>5. PICK s \in Loaded : amx[s].data = NULL /\ amx[s].base = amx[m].base
  BY <1>4
<1>6. heap \in Seq(BlockType) /\ Sound(heap, amx[s]) /\ Complete(heap, amx[s])
  BY <1>5, FitIn, Vouches DEF LoaderInv, TypeInv
<1> SUFFICES ASSUME NEW i \in DOMAIN heap[amx[s].base].file.natives
             PROVE  Exists(heap[NativesOf(amx[s])].ntv[i], heap[amx[s].base].file.natives[i])
  BY <1>5
<1> DEFINE f == heap[NativesOf(amx[s])].ntv[i]
           b == LibrariesOf(amx[s])
<1>1. /\ f # UNBOUND /\ f[1] = heap[amx[s].base].file.natives[i]
      /\ f[2] = "host" \/ Holds(heap, amx[s], f[2])
  BY <1>6 DEF Sound, Sourced, Complete
<1>2. heap \in Seq(BlockType) /\ b \in Live(heap)
  BY <1>6, PointsIn DEF Sound
<1> HIDE DEF f
<1>3. ASSUME Holds(heap, amx[s], f[2]) PROVE open[f[2]] > 0
  <2>1. PICK j \in DOMAIN heap[b].lib : heap[b].lib[j] = <<f[2]>>
    BY <1>3 DEF Holds
  <2>2. heap[b].lib \in Seq(Handle)
    <3>1. heap[b] \in BlockType
      BY <1>2 DEF Live
    <3> QED BY <3>1 DEF BlockType
  <2>3. f[2] \in DOMAIN Libs
    <3>1. heap[b].lib[j] \in Handle
      BY <2>1, <2>2
    <3>2. PICK l \in DOMAIN Libs : <<f[2]>> = <<l>>
      BY <2>1, <3>1, Bindings DEF Handle
    <3> QED BY <3>2
  <2>4. <<b, j>> \in Handles(heap, f[2])
    BY <1>2, <2>1, HandleIn
  <2>5. IsFiniteSet(Handles(heap, f[2])) /\ open[f[2]] = Cardinality(Handles(heap, f[2]))
    BY <2>3 DEF LoaderInv, Balanced
  <2>6. Cardinality(Handles(heap, f[2])) \in Nat /\ Cardinality(Handles(heap, f[2])) # 0
    BY <2>4, <2>5, FS_EmptySet, FS_CardinalityType
  <2> QED BY <2>5, <2>6
<1> QED BY <1>1, <1>3 DEF f, Exists

\* A machine with a program refers to live blocks only, each live block belongs
\* to a machine (or was left by a load that failed), and amx_Init and
\* amx_Cleanup open and close each library equally often.
THEOREM MemoryIsOwned == HostSpec => []Owned
  BY Inductive, InvOwned, PTL

\* When a machine or a clone of it is marked as complete (by amx_Register, or
\* by amx_Clone), each native in the table of the machine that the program was
\* loaded into is bound to a function of its name, of the host or of a library
\* that is open.
THEOREM BoundNativesExist == HostSpec => []NativesExist
  BY Inductive, InvNatives, PTL

\* amx_Register replaces no function that is bound, nor does anything else as
\* long as the block lives.
THEOREM BindingsStay == HostSpec => BoundOnce
<1>1. LoaderInv /\ [HostNext]_hostVars => [Keeps]_hostVars
  BY Steps
<1> QED BY <1>1, Inductive, PTL DEF HostSpec, BoundOnce, Keeps
=============================================================================
