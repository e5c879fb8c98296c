---------------------------- MODULE AmxGCProofs ----------------------------
(***************************************************************************)
(* Proofs about the garbage collector, for every set of hosts, handles and *)
(* machines and all sizes of the table: the types; that a collection       *)
(* destroys the objects without a handle and no others as long as probes   *)
(* find what is in the table; that only a collection can change that.      *)
(*                                                                         *)
(* Handles may collide.  A probe stops at the first place of its path that *)
(* is free or holds the value (StopsAt); InsertChained says what one more  *)
(* value does to the other probes, and the loop that fills a new table is  *)
(* an induction over the slots of the old one.                             *)
(***************************************************************************)
EXTENDS AmxGC, Iteration

-----------------------------------------------------------------------------
(* The hash table.                                                         *)

\* The sizes a table may have.
LEMMA Power == \A e \in 0 .. 16 : 2^e \in Nat \ {0}
<1>1. 2^0 = 1 /\ 2^1 = 2 /\ 2^2 = 4 /\ 2^3 = 8 /\ 2^4 = 16 /\ 2^5 = 32
  OBVIOUS
<1>2. 2^6 = 64 /\ 2^7 = 128 /\ 2^8 = 256 /\ 2^9 = 512 /\ 2^10 = 1024 /\ 2^11 = 2048
  OBVIOUS
<1>3. 2^12 = 4096 /\ 2^13 = 8192 /\ 2^14 = 16384 /\ 2^15 = 32768 /\ 2^16 = 65536
  OBVIOUS
<1> TAKE e \in 0 .. 16
<1>4. CASE e = 0 BY <1>1, <1>4
<1>5. CASE e = 1 BY <1>1, <1>5
<1>6. CASE e = 2 BY <1>1, <1>6
<1>7. CASE e = 3 BY <1>1, <1>7
<1>8. CASE e = 4 BY <1>1, <1>8
<1>9. CASE e = 5 BY <1>1, <1>9
<1>10. CASE e = 6 BY <1>2, <1>10
<1>11. CASE e = 7 BY <1>2, <1>11
<1>12. CASE e = 8 BY <1>2, <1>12
<1>13. CASE e = 9 BY <1>2, <1>13
<1>14. CASE e = 10 BY <1>2, <1>14
<1>15. CASE e = 11 BY <1>2, <1>15
<1>16. CASE e = 12 BY <1>3, <1>16
<1>17. CASE e = 13 BY <1>3, <1>17
<1>18. CASE e = 14 BY <1>3, <1>18
<1>19. CASE e = 15 BY <1>3, <1>19
<1>20. CASE e = 16 BY <1>3, <1>20
<1> QED
  BY <1>4, <1>5, <1>6, <1>7, <1>8, <1>9, <1>10, <1>11, <1>12, <1>13, <1>14,
     <1>15, <1>16, <1>17, <1>18, <1>19, <1>20

\* A slot is a slot.
LEMMA HashSlot ==
    ASSUME NEW e \in 0 .. 16, NEW v \in Int
    PROVE  Hash(e, v) \in Slots(e)
<1>1. 2^e \in Nat \ {0}
  BY Power
<1> DEFINE n == 2^e
<1> HIDE DEF n
<1>2. n \in Nat \ {0}
  BY <1>1 DEF n
<1>3. (255 - v) % n \in 0 .. n - 1
  BY <1>2
<1> QED BY <1>3 DEF Hash, Slots, n

\* A probe goes from slot to slot.
LEMMA PathSlots ==
    ASSUME NEW e \in 0 .. 16, NEW v \in Int
    PROVE  Path(e, v) \in [0 .. e + 2^e -> Slots(e)]
<1> DEFINE n == 2^e
           h == Hash(e, v)
           incr(i) == Increments[1 + (IF i <= e THEN e + 1 - i ELSE 0)]
           walk == [p \in (1 .. e + n) \X Int |-> (p[2] + incr(p[1])) % n]
           Is(f) == f = [i \in 0 .. e + n |->
                           IF i = 0 THEN h ELSE (f[i - 1] + incr(i)) % n]
<1>1. n \in Nat \ {0} /\ e + n \in Nat
  <2>1. n \in Nat \ {0}
    BY Power
  <2> HIDE DEF n
  <2> QED BY <2>1
<1>2. h \in Int
  <2>1. \A s \in 0 .. n - 1 : s \in Int
    <3> HIDE DEF n
    <3> QED BY <1>1
  <2> HIDE DEF h
  <2> QED BY <2>1, HashSlot DEF Slots, h
<1>3. \A i \in 1 .. e + n : incr(i) \in Int
  <2>1. \A k \in 1 .. 17 : Increments[k] \in Int
    BY DEF Increments
  <2> TAKE i \in 1 .. e + n
  <2>2. 1 + (IF i <= e THEN e + 1 - i ELSE 0) \in 1 .. 17
    BY <1>1
  <2> QED BY <2>1, <2>2
<1>4. walk \in [(1 .. e + n) \X Int -> Int]
  <2> SUFFICES ASSUME NEW p \in (1 .. e + n) \X Int PROVE (p[2] + incr(p[1])) % n \in Int
    OBVIOUS
  <2>1. p[1] \in 1 .. e + n /\ p[2] \in Int
    OBVIOUS
  <2>2. incr(p[1]) \in Int
    BY <1>3, <2>1
  <2> HIDE DEF incr, n
  <2> QED BY <1>1, <2>1, <2>2
<1>5. PICK f \in [0 .. e + n -> Int] :
        \A i \in 0 .. e + n : f[i] = IF i = 0 THEN h ELSE walk[<<i, f[i - 1]>>]
  <2> DEFINE N == e + n
  <2>1. N \in Nat /\ walk \in [(1 .. N) \X Int -> Int]
    BY <1>1, <1>4
  <2> HIDE DEF walk, h, N
  <2>2. \E f : Iterates(f, N, Int, h, walk)
    BY <1>2, <2>1, Recurses
  <2> QED BY <2>2 DEF N, Iterates
<1>6. Is(f)
  <2>1. ASSUME NEW i \in 1 .. e + n
        PROVE  walk[<<i, f[i - 1]>>] = (f[i - 1] + incr(i)) % n
    <3>1. i - 1 \in 0 .. e + n
      <4> HIDE DEF n
      <4> QED BY <1>1
    <3>2. <<i, f[i - 1]>> \in (1 .. e + n) \X Int
      BY <3>1
    <3> HIDE DEF incr, n
    <3> QED BY <3>2
  <2>2. \A i \in 0 .. e + n : i = 0 \/ i \in 1 .. e + n
    <3> HIDE DEF n
    <3> QED BY <1>1
  <2> HIDE DEF h, incr, n, walk
  <2> QED BY <1>5, <2>1, <2>2
<1>7. Path(e, v) = CHOOSE g : Is(g)
  BY DEF Path
<1>8. Is(Path(e, v))
  <2> HIDE DEF Is
  <2> QED BY <1>6, <1>7
<1> DEFINE g == Path(e, v)
           N == e + n
<1>9. g = [i \in 0 .. N |-> IF i = 0 THEN h ELSE (g[i - 1] + incr(i)) % n]
  BY <1>8
<1>10. h \in Slots(e)
  BY HashSlot
<1> HIDE DEF h, incr, g
<1> DEFINE T == {i \in 0 .. N : g[i] \in Slots(e)}
<1>11. N \in Nat
  BY <1>1
<1>12. 0 \in T
  <2> HIDE DEF N
  <2> QED BY <1>9, <1>10, <1>11
<1>13. ASSUME NEW i \in 0 .. N, i \in T, i < N PROVE i + 1 \in T
  <2> DEFINE x == g[i] + incr(i + 1)
  <2>1. i + 1 \in 1 .. N /\ i + 1 \in 0 .. N /\ i + 1 # 0 /\ (i + 1) - 1 = i
    <3> HIDE DEF N
    <3> QED BY <1>11, <1>13
  <2>2. g[i + 1] = x % n
    <3> HIDE DEF N
    <3> QED BY <1>9, <2>1
  <2>3. g[i] \in Int
    <3>1. g[i] \in 0 .. n - 1
      BY <1>13 DEF Slots
    <3> HIDE DEF n
    <3> QED BY <1>1, <3>1
  <2>4. x \in Int
    BY <1>3, <2>1, <2>3
  <2> HIDE DEF x
  <2>5. x % n \in 0 .. n - 1
    <3> HIDE DEF n
    <3> QED BY <1>1, <2>4
  <2> QED BY <2>1, <2>2, <2>5 DEF Slots
<1>14. 0 .. N \subseteq T
  <2> HIDE DEF T, N
  <2> QED BY <1>11, <1>12, <1>13, UpTo
<1>15. DOMAIN g = 0 .. N
  <2> HIDE DEF N
  <2> QED BY <1>9
<1>16. g = [i \in 0 .. N |-> g[i]]
  <2> HIDE DEF N
  <2> QED BY <1>9
<1>17. g \in [0 .. N -> Slots(e)]
  <2> HIDE DEF N
  <2> QED BY <1>14, <1>16
<1> QED BY <1>17 DEF g

\* A probe for v in t stops at step n of its path.
StopsAt(t, e, v, n) ==
    /\ n \in DOMAIN Path(e, v)
    /\ t[Path(e, v)[n]].value \in {0, v}
    /\ \A k \in DOMAIN Path(e, v) : t[Path(e, v)[k]].value \in {0, v} => n <= k

\* A place where it stops is the only one.
LEMMA StopsOnce ==
    ASSUME NEW e \in 0 .. 16, NEW v \in Int, NEW t
    PROVE  /\ \A n : StopsAt(t, e, v, n) => Stop(t, e, v) = {Path(e, v)[n]}
           /\ \A s \in Stop(t, e, v) : \E n : StopsAt(t, e, v, n) /\ s = Path(e, v)[n]
<1> DEFINE path == Path(e, v)
           hits == {n \in DOMAIN path : t[path[n]].value \in {0, v}}
           first == {h \in hits : \A g \in hits : h <= g}
<1>1. DOMAIN path \subseteq Nat
  <2>1. 2^e \in Nat
    BY Power
  <2> DEFINE N == e + 2^e
  <2>2. N \in Nat
    BY <2>1
  <2>3. DOMAIN path = 0 .. N
    BY PathSlots
  <2> HIDE DEF N, path
  <2> QED BY <2>2, <2>3
<1>2. Stop(t, e, v) = {path[n] : n \in first}
  BY DEF Stop
<1>3. \A n : n \in first <=> StopsAt(t, e, v, n)
  BY DEF StopsAt
<1> HIDE DEF path
<1>4. ASSUME NEW n \in first PROVE first = {n}
  <2>1. \A k \in first : k \in Nat /\ n \in Nat /\ k <= n /\ n <= k
    BY <1>1, <1>4
  <2>2. \A k \in first : k = n
    BY <2>1
  <2> QED BY <1>4, <2>2
<1> HIDE DEF first
<1> QED BY <1>2, <1>3, <1>4 DEF path

\* Tables of size 2^e that hold handles of H.
Tables(e, H) == [Slots(e) -> [value : H \cup {0}, count : Nat]]

\* No scan has counted anything.
Fresh(t, e) == \A s \in Slots(e) : t[s].count = 0

\* Probes find what is in the table.
Linked(t, e) == \A s \in Slots(e) : t[s].value # 0 => Stop(t, e, t[s].value) = {s}

Filled(t, e) == {t[s].value : s \in Slots(e)} \ {0}

\* Where a probe ends depends on the values only.
LEMMA StopByValues ==
    ASSUME NEW e \in 0 .. 16, NEW v \in Int, NEW t, NEW u,
           \A s \in Slots(e) : t[s].value = u[s].value
    PROVE  Stop(t, e, v) = Stop(u, e, v)
<1> DEFINE path == Path(e, v)
<1>1. path \in [0 .. e + 2^e -> Slots(e)]
  BY PathSlots
<1> HIDE DEF path
<1>2. \A n \in DOMAIN path : path[n] \in Slots(e)
  BY <1>1
<1>3. {n \in DOMAIN path : t[path[n]].value \in {0, v}} = {n \in DOMAIN path : u[path[n]].value \in {0, v}}
  BY <1>2
<1> QED BY <1>3 DEF Stop, path

LEMMA LinkedByValues ==
    ASSUME NEW e \in 0 .. 16, NEW H \in SUBSET (1 .. 255), NEW t \in Tables(e, H), NEW u,
           \A s \in Slots(e) : t[s].value = u[s].value, Linked(t, e)
    PROVE  Linked(u, e)
<1> SUFFICES ASSUME NEW s \in Slots(e), u[s].value # 0 PROVE Stop(u, e, u[s].value) = {s}
  BY DEF Linked
<1> DEFINE v == t[s].value
<1>1. v = u[s].value
  OBVIOUS
<1>2. v \in H \cup {0} /\ v # 0
  BY <1>1 DEF Tables
<1>3. v \in Int
  <2>1. \A w \in 1 .. 255 : w \in Int
    OBVIOUS
  <2> QED BY <1>2, <2>1
<1>4. Stop(t, e, v) = {s}
  BY <1>2 DEF Linked
<1> HIDE DEF v
<1>5. Stop(t, e, v) = Stop(u, e, v)
  BY <1>3, StopByValues
<1> QED BY <1>1, <1>4, <1>5

\* gc_mark keeps a table a table, and counts nothing.
LEMMA InsertTable ==
    ASSUME NEW e \in 0 .. 16, NEW H \in SUBSET (1 .. 255), NEW t \in Tables(e, H), NEW v \in H
    PROVE  /\ Insert(t, e, v) \in Tables(e, H)
           /\ Fresh(t, e) => Fresh(Insert(t, e, v), e)
<1> DEFINE s == CHOOSE s \in Stop(t, e, v) : TRUE
<1>1. Insert(t, e, v) = IF Stop(t, e, v) = {} THEN t ELSE [t EXCEPT ![s].value = v]
  BY DEF Insert
<1> HIDE DEF s
<1>2. [t EXCEPT ![s].value = v] \in Tables(e, H)
  <2>1. ASSUME s \in Slots(e) PROVE [t[s] EXCEPT !.value = v] \in [value : H \cup {0}, count : Nat]
    BY <2>1 DEF Tables
  <2> QED BY ZenonT(30), <2>1 DEF Tables
<1>3. Fresh(t, e) => Fresh([t EXCEPT ![s].value = v], e)
  BY DEF Fresh, Tables
<1> QED BY <1>1, <1>2, <1>3

\* A value is put where its probe stops; the probes for the others end where they did.
LEMMA InsertChained ==
    ASSUME NEW e \in 0 .. 16, NEW H \in SUBSET (1 .. 255), NEW t \in Tables(e, H), Linked(t, e),
           NEW v \in H
    PROVE  /\ Linked(Insert(t, e, v), e)
           /\ Filled(Insert(t, e, v), e) = Filled(t, e) \cup (IF Stop(t, e, v) = {} THEN {} ELSE {v})
<1> DEFINE r == Insert(t, e, v)
<1>a. v \in Int /\ v # 0 /\ \A w \in H : w \in Int /\ w # 0
  <2>1. \A w \in 1 .. 255 : w \in Int /\ w # 0
    OBVIOUS
  <2> QED BY <2>1
<1>1. CASE Stop(t, e, v) = {}
  BY <1>1 DEF Insert
<1>2. CASE Stop(t, e, v) # {}
  <2> DEFINE s == CHOOSE s \in Stop(t, e, v) : TRUE
  <2>1. s \in Stop(t, e, v) /\ r = [t EXCEPT ![s].value = v]
    BY <1>2 DEF Insert
  <2> HIDE DEF s, r
  <2>2. PICK n : StopsAt(t, e, v, n) /\ s = Path(e, v)[n]
    BY <1>a, <2>1, StopsOnce
  <2>3. n \in DOMAIN Path(e, v) /\ s \in Slots(e) /\ t[s].value \in {0, v}
    <3>1. Path(e, v) \in [0 .. e + 2^e -> Slots(e)]
      BY <1>a, PathSlots
    <3>2. n \in DOMAIN Path(e, v) /\ t[Path(e, v)[n]].value \in {0, v}
      BY <2>2 DEF StopsAt
    <3> DEFINE path == Path(e, v)
    <3> HIDE DEF path
    <3>3. path[n] \in Slots(e)
      BY <3>1, <3>2 DEF path
    <3> QED BY <2>2, <3>2, <3>3 DEF path
  <2>4. \A x \in Slots(e) : /\ r[x].value = IF x = s THEN v ELSE t[x].value
                            /\ r[x].count = t[x].count
    BY <2>1, <2>3 DEF Tables
  <2>6. Filled(r, e) = Filled(t, e) \cup {v}
    BY <1>a, <2>3, <2>4 DEF Filled
  <2>7. ASSUME NEW x \in Slots(e), r[x].value # 0 PROVE Stop(r, e, r[x].value) = {x}
    <3>1. CASE t[s].value = v
      <4>1. \A y \in Slots(e) : r[y].value = t[y].value
        BY <2>4, <3>1
      <4>2. t[x].value \in H
        BY <2>7, <4>1 DEF Tables
      <4>3. Stop(r, e, t[x].value) = Stop(t, e, t[x].value)
        BY <1>a, <4>1, <4>2, StopByValues
      <4> QED BY <2>7, <4>1, <4>3 DEF Linked
    <3>2. CASE t[s].value # v /\ x = s
      <4>1. StopsAt(r, e, v, n)
        <5>1. \A k \in DOMAIN Path(e, v) : Path(e, v)[k] \in Slots(e)
          BY <1>a, PathSlots
        <5>2. \A k \in DOMAIN Path(e, v) :
                 r[Path(e, v)[k]].value \in {0, v} => t[Path(e, v)[k]].value \in {0, v}
          BY <2>3, <2>4, <5>1
        <5> QED BY <2>2, <2>3, <2>4, <5>2 DEF StopsAt
      <4>2. Stop(r, e, v) = {s}
        BY <1>a, <2>2, <4>1, StopsOnce
      <4> QED BY <2>4, <3>2, <4>2
    <3>3. CASE t[s].value # v /\ x # s
      <4> DEFINE w == t[x].value
      <4>1. r[x].value = w /\ w # 0 /\ w \in H /\ Stop(t, e, w) = {x}
        BY <2>4, <2>7, <3>3 DEF Linked, Tables
      <4>2. w # v
        <5>1. w = v => s = x
          BY <2>1, <4>1
        <5> QED BY <3>3, <5>1
      <4> HIDE DEF w
      <4>3. PICK k : StopsAt(t, e, w, k) /\ x = Path(e, w)[k]
        BY <1>a, <4>1, StopsOnce
      <4>4. StopsAt(r, e, w, k)
        <5>1. \A j \in DOMAIN Path(e, w) : Path(e, w)[j] \in Slots(e)
          BY <1>a, <4>1, PathSlots
        <5>2. \A j \in DOMAIN Path(e, w) :
                 r[Path(e, w)[j]].value \in {0, w} => t[Path(e, w)[j]].value \in {0, w}
          BY <1>a, <2>4, <4>2, <5>1
        <5> QED BY <4>1, <4>3, <5>2 DEF StopsAt
      <4> QED BY <1>a, <4>1, <4>3, <4>4, StopsOnce
    <3> QED BY <3>1, <3>2, <3>3
  <2>8. Linked(r, e)
    BY <2>7 DEF Linked
  <2> QED BY <1>2, <2>6, <2>8 DEF r
<1> QED BY <1>1, <1>2

\* gc_settable's loop over the old table, one slot after the other.
Remarks(f, old, new, e, n, H) ==
    /\ f \in [0 .. n -> Tables(e, H)]
    /\ f[0] = new
    /\ \A s \in 1 .. n : f[s] = IF old[s - 1].value = 0 THEN f[s - 1]
                                ELSE Insert(f[s - 1], e, old[s - 1].value)

LEMMA RehashLoop ==
    ASSUME NEW e \in 0 .. 16, NEW o \in 0 .. 16, NEW H \in SUBSET (1 .. 255),
           NEW old \in Tables(o, H), NEW new \in Tables(e, H)
    PROVE  \E f : Remarks(f, old, new, e, 2^o, H) /\ Rehash(old, new, e, o) = f[2^o]
<1> DEFINE n == 2^o
           X == Tables(e, H)
           mark(s, t) == IF old[s - 1].value = 0 THEN t ELSE Insert(t, e, old[s - 1].value)
           walk == [p \in (1 .. n) \X X |-> mark(p[1], p[2])]
           Is(f) == f = [s \in 0 .. n |->
                           IF s = 0 THEN new
                           ELSE IF old[s - 1].value = 0 THEN f[s - 1]
                                ELSE Insert(f[s - 1], e, old[s - 1].value)]
<1>1. n \in Nat
  BY Power
<1>2. \A s \in 1 .. n : s - 1 \in Slots(o) /\ s - 1 \in 0 .. n
  <2> HIDE DEF n
  <2>1. \A s \in 1 .. n : s - 1 \in 0 .. n - 1 /\ s - 1 \in 0 .. n
    BY <1>1
  <2> QED BY <2>1 DEF Slots, n
<1>3. ASSUME NEW s \in 1 .. n, NEW t \in X PROVE mark(s, t) \in X
  <2>1. old[s - 1].value \in H \cup {0}
    BY <1>2 DEF Tables
  <2> QED BY <2>1, InsertTable
<1>4. walk \in [(1 .. n) \X X -> X]
  <2> SUFFICES ASSUME NEW p \in (1 .. n) \X X PROVE mark(p[1], p[2]) \in X
    OBVIOUS
  <2>1. p[1] \in 1 .. n /\ p[2] \in X
    OBVIOUS
  <2> HIDE DEF mark, X, n
  <2> QED BY <1>3, <2>1
<1>5. PICK f : Iterates(f, n, X, new, walk)
  <2> HIDE DEF n, walk, X
  <2>1. new \in X
    BY DEF X
  <2> QED BY <1>1, <1>4, <2>1, Recurses
<1>6. f \in [0 .. n -> X]
  BY <1>5 DEF Iterates
<1>7. f[0] = new
  <2> HIDE DEF n, X, walk
  <2>1. 0 \in 0 .. n
    BY <1>1
  <2> QED BY <1>5, <2>1 DEF Iterates
<1>8. ASSUME NEW s \in 1 .. n PROVE f[s] = mark(s, f[s - 1])
  <2>1. f[s] = walk[<<s, f[s - 1]>>]
    <3> HIDE DEF walk, n, X
    <3>1. s \in 0 .. n /\ s # 0
      BY <1>1
    <3> QED BY <1>5, <3>1 DEF Iterates
  <2>2. <<s, f[s - 1]>> \in (1 .. n) \X X
    BY <1>2, <1>6
  <2> HIDE DEF mark, n, X
  <2> QED BY <2>1, <2>2
<1>9. Is(f)
  <2>1. \A s \in 0 .. n : s = 0 \/ s \in 1 .. n
    <3> HIDE DEF n
    <3> QED BY <1>1
  <2> HIDE DEF n, X
  <2> QED BY <1>6, <1>7, <1>8, <2>1
<1>10. Rehash(old, new, e, o) = (CHOOSE g : Is(g))[n]
  BY DEF Rehash
<1> DEFINE g == CHOOSE h : Is(h)
<1>11. Is(g)
  <2> HIDE DEF Is
  <2> QED BY <1>9
<1> HIDE DEF g
<1>12. g = f
  <2>1. \A s \in 0 .. n : s = 0 \/ s \in 1 .. n
    <3> HIDE DEF n
    <3> QED BY <1>1
  <2> DEFINE T == {k \in 0 .. n : g[k] = f[k]}
  <2>2. 0 \in T
    BY <1>1, <1>7, <1>11
  <2>3. \A k \in 0 .. n : k \in T /\ k < n => k + 1 \in T
    <3> SUFFICES ASSUME NEW k \in 0 .. n, g[k] = f[k], k < n PROVE g[k + 1] = f[k + 1] /\ k + 1 \in 0 .. n
      OBVIOUS
    <3>1. k + 1 \in 1 .. n /\ k + 1 \in 0 .. n /\ k + 1 # 0 /\ (k + 1) - 1 = k
      <4> HIDE DEF n
      <4> QED BY <1>1
    <3>2. f[k + 1] = mark(k + 1, f[k])
      BY <1>8, <3>1
    <3>3. g[k + 1] = mark(k + 1, g[k])
      BY <1>11, <3>1
    <3> QED BY <3>1, <3>2, <3>3
  <2> HIDE DEF T, n
  <2>4. 0 .. n \subseteq T
    BY <1>1, <2>2, <2>3, UpTo
  <2>5. \A k \in 0 .. n : g[k] = f[k]
    BY <2>4 DEF T
  <2>6. DOMAIN g = 0 .. n /\ g = [s \in 0 .. n |-> g[s]]
    BY <1>11
  <2>7. f = [s \in 0 .. n |-> f[s]]
    BY <1>6
  <2> QED BY <2>5, <2>6, <2>7
<1>13. Remarks(f, old, new, e, n, H)
  BY <1>6, <1>7, <1>8 DEF Remarks
<1> QED BY <1>10, <1>12, <1>13 DEF g

\* What the loop keeps: the table is one, nothing is counted, its probes end where
\* they should.
LEMMA Rehashed ==
    ASSUME NEW e \in 0 .. 16, NEW o \in 0 .. 16, NEW H \in SUBSET (1 .. 255),
           NEW old \in Tables(o, H)
    PROVE  /\ Rehash(old, Empty(e), e, o) \in Tables(e, H)
           /\ Fresh(Rehash(old, Empty(e), e, o), e) /\ Linked(Rehash(old, Empty(e), e, o), e)
<1> DEFINE n == 2^o
           new == Empty(e)
<1>1. n \in Nat
  BY Power
<1>2. new \in Tables(e, H) /\ Linked(new, e) /\ Fresh(new, e)
  BY DEF Empty, Tables, Linked, Fresh
<1>3. PICK f : Remarks(f, old, new, e, n, H) /\ Rehash(old, new, e, o) = f[n]
  BY <1>2, RehashLoop
<1>4. n \in 0 .. n /\ f[n] \in Tables(e, H)
  <2> HIDE DEF n
  <2> QED BY <1>1, <1>3 DEF Remarks
<1> DEFINE Got(k) == Linked(f[k], e) /\ Fresh(f[k], e)
           T == {k \in 0 .. n : Got(k)}
<1>5. 0 \in T
  <2>1. 0 \in 0 .. n /\ f[0] = new
    BY <1>1, <1>3 DEF Remarks
  <2> HIDE DEF new
  <2> QED BY <1>2, <2>1
<1>6. ASSUME NEW k \in 0 .. n, k \in T, k < n PROVE k + 1 \in T
  <2> DEFINE v == old[k].value
  <2>1. k + 1 \in 1 .. n /\ k + 1 \in 0 .. n /\ (k + 1) - 1 = k /\ k \in 0 .. n - 1
    <3> HIDE DEF n
    <3> QED BY <1>1, <1>6
  <2>2. k \in Slots(o) /\ v \in H \cup {0}
    BY <2>1 DEF Slots, Tables
  <2>3. f[k] \in Tables(e, H) /\ f[k + 1] = IF v = 0 THEN f[k] ELSE Insert(f[k], e, v)
    BY <1>3, <2>1 DEF Remarks
  <2> HIDE DEF v
  <2>4. Got(k)
    BY <1>6
  <2>5. CASE v = 0
    BY <2>1, <2>3, <2>4, <2>5
  <2>6. CASE v # 0
    <3>1. v \in H
      BY <2>2, <2>6
    <3>2. Linked(Insert(f[k], e, v), e) /\ Fresh(Insert(f[k], e, v), e)
      BY <2>3, <2>4, <3>1, InsertChained, InsertTable
    <3> QED BY <2>1, <2>3, <2>6, <3>2
  <2> QED BY <2>5, <2>6
<1> HIDE DEF T, n
<1>7. 0 .. n \subseteq T
  BY <1>1, <1>5, <1>6, UpTo
<1>8. Got(n)
  BY <1>4, <1>7 DEF T
<1> HIDE DEF new
<1>9. Rehash(old, new, e, o) = f[n]
  BY <1>3
<1> QED BY <1>4, <1>8, <1>9 DEF new

LEMMA NotNone ==
    ASSUME NEW e \in 0 .. 16, NEW H, NEW t \in Tables(e, H)
    PROVE  t # <<>>
<1>1. 2^e \in Nat \ {0}
  BY Power
<1> DEFINE n == 2^e
<1> HIDE DEF n
<1>2. n \in Nat \ {0}
  BY <1>1 DEF n
<1>3. 0 \in 0 .. n - 1
  BY <1>2
<1>4. DOMAIN t = 0 .. n - 1
  BY DEF Tables, Slots, n
<1>5. DOMAIN <<>> = {}
  OBVIOUS
<1> QED BY <1>3, <1>4, <1>5

-----------------------------------------------------------------------------
(* The types, and what every run of every host has.                        *)

Handles == host.handles

TypeInv ==
    /\ TypeOK
    /\ count = 0
    /\ table # <<>> => exponent \in MinExponent .. MaxExponent
    /\ phase = "scan" => table # <<>>

\* gc_mark accepts every object, and between two collections nothing is counted.
FreshInv ==
    /\ marked = live
    /\ phase = "run" /\ table # <<>> => Fresh(table, exponent)

\* Within a collection the counts are those of the scans that are done, if the
\* probes find what is in the table.
ScanInv ==
    phase = "scan" /\ Linked(table, exponent) =>
        \A s \in Slots(exponent) : table[s].value # 0 =>
            (table[s].count # 0 <=> \E m \in Machines \ toscan : table[s].value \in refs[m])

GCInv == TypeInv /\ FreshInv /\ ScanInv

LEMMA Sizes ==
    ASSUME TypeInv
    PROVE  /\ MinExponent .. MaxExponent \subseteq 0 .. 16
           /\ exponent \in 0 .. 16
           /\ Handles \in SUBSET (1 .. 255)
           /\ table # <<>> => table \in Tables(exponent, Handles)
<1>1. 1 .. LargestHandle \subseteq 1 .. 255
  BY DEF LargestHandle
<1>2. Handles \subseteq 1 .. LargestHandle
  BY GCAssumption DEF TypeInv, TypeOK, Handles
<1>3. MinExponent .. MaxExponent \subseteq 0 .. 16 /\ exponent \in 0 .. 16
  BY GCAssumption DEF TypeInv, TypeOK
<1>4. table # <<>> => table \in Tables(exponent, Handles)
  BY DEF TypeInv, TypeOK, Tables, Handles
<1> QED BY <1>1, <1>2, <1>3, <1>4

\* A new table: nothing in it is counted, its probes end where they should.
LEMMA NewTable ==
    ASSUME TypeInv, NEW e \in MinExponent .. MaxExponent, SetTable(e)
    PROVE  /\ table' \in Tables(e, Handles) /\ table' # <<>>
           /\ exponent' = e /\ count' = 0 /\ flags' = flags
           /\ Fresh(table', e) /\ Linked(table', e)
<1>1. e \in 0 .. 16 /\ exponent \in 0 .. 16 /\ Handles \in SUBSET (1 .. 255)
  BY Sizes
<1>2. exponent' = e /\ count' = 0 /\ flags' = flags
  BY DEF SetTable
<1>3. CASE table = <<>>
  <2>1. table' = Empty(e)
    BY <1>3 DEF SetTable
  <2>2. table' \in Tables(e, Handles) /\ Linked(table', e) /\ Fresh(table', e)
    BY <2>1 DEF Empty, Tables, Linked, Fresh
  <2> QED BY <1>1, <1>2, <2>2, NotNone
<1>4. CASE table # <<>>
  <2>1. table' = Rehash(table, Empty(e), e, exponent)
    BY <1>4 DEF SetTable
  <2>2. table \in Tables(exponent, Handles)
    BY <1>4, Sizes
  <2>3. table' \in Tables(e, Handles) /\ Fresh(table', e) /\ Linked(table', e)
    BY <1>1, <2>1, <2>2, Rehashed
  <2> QED BY <1>1, <1>2, <2>3, NotNone
<1> QED BY <1>3, <1>4

\* Each action keeps the types.
LEMMA TypeStep == TypeInv /\ [Next]_vars => TypeInv'
<1> SUFFICES ASSUME TypeInv, [Next]_vars PROVE TypeInv'
  OBVIOUS
<1>a. MinExponent .. MaxExponent \subseteq 0 .. MaxExponent
  BY GCAssumption
<1>1. /\ MinExponent .. MaxExponent \subseteq 0 .. MaxExponent
      /\ exponent \in 0 .. 16
      /\ Handles \in SUBSET (1 .. 255)
      /\ table # <<>> => table \in Tables(exponent, Handles)
  BY <1>a, Sizes
<1> USE DEF TypeInv, TypeOK, Tables, Handles
<1>2. CASE UNCHANGED vars
  BY <1>2 DEF vars
<1>3. CASE Next
  <2>1. host' = host
    BY <1>3 DEF Next
  <2>2. CASE Start
    <3>1. PICK e \in MinExponent .. MaxExponent : SetTable(e)
      BY <2>2 DEF Start
    <3>2. table' \in Tables(e, Handles) /\ exponent' = e /\ count' = 0 /\ flags' = flags
      BY <3>1, NewTable
    <3> QED BY <1>1, <2>1, <2>2, <3>2 DEF Start
  <2>3. ASSUME NEW m \in Machines, NEW v \in host.handles, Create(m, v) PROVE TypeInv'
    <3>1. Insert(table, exponent, v) \in Tables(exponent, Handles)
      BY <1>1, <2>3, InsertTable DEF Create
    <3>2. Insert(table, exponent, v) # <<>>
      BY <1>1, <3>1, NotNone
    <3> QED BY <2>1, <2>3, <3>1, <3>2 DEF Create
  <2>4. ASSUME NEW m \in Machines, NEW v \in host.handles, Drop(m, v) PROVE TypeInv'
    BY <2>1, <2>4 DEF Drop
  <2>5. ASSUME NEW m \in Machines, NEW n \in Machines, NEW v \in host.handles, Share(m, n, v)
        PROVE  TypeInv'
    BY <2>1, <2>5 DEF Share
  <2>6. CASE CollectStart
    <3>1. CASE exponent < MaxExponent /\ SetTable(exponent + 1)
      <4>1. exponent + 1 \in MinExponent .. MaxExponent
        BY <1>1, <2>6, <3>1, GCAssumption DEF CollectStart
      <4>2. /\ table' \in Tables(exponent + 1, Handles) /\ table' # <<>>
            /\ exponent' = exponent + 1 /\ count' = 0 /\ flags' = flags
        BY <3>1, <4>1, NewTable
      <4> QED BY <1>1, <2>1, <2>6, <4>1, <4>2 DEF CollectStart
    <3>2. CASE UNCHANGED <<table, exponent, count, flags>>
      BY <2>1, <2>6, <3>2 DEF CollectStart
    <3> QED BY <2>6, <3>1, <3>2 DEF CollectStart
  <2>7. CASE CollectEnd
    BY <1>1, <2>1, <2>7 DEF CollectEnd, Clean, Cleaned
  <2>8. ASSUME NEW m \in Machines, Scan(m) PROVE TypeInv'
    BY <1>1, <2>1, <2>8 DEF Scan
  <2>9. CASE Resize
    <3>1. PICK e \in MinExponent .. MaxExponent : SetTable(e)
      BY <2>9 DEF Resize
    <3>2. /\ table' \in Tables(e, Handles) /\ table' # <<>>
          /\ exponent' = e /\ count' = 0 /\ flags' = flags
      BY <3>1, NewTable
    <3> QED BY <1>1, <2>1, <2>9, <3>2 DEF Resize
  <2>10. CASE Shutdown
    <3>1. 0 \in 0 .. MaxExponent /\ 0 \in Nat
      BY GCAssumption
    <3>2. /\ table' = <<>> /\ exponent' = 0 /\ count' = 0 /\ flags' = 0
          /\ live' \subseteq live /\ marked' = marked \ (live \ live')
      BY <2>10 DEF Shutdown
    <3> QED BY <2>1, <2>10, <3>1, <3>2 DEF Shutdown
  <2> QED BY <1>3, <2>2, <2>3, <2>4, <2>5, <2>6, <2>7, <2>8, <2>9, <2>10 DEF Next
<1> QED BY <1>2, <1>3

\* A scan counts in the slots of the handles it finds, and changes no value.
LEMMA ScanCounts ==
    ASSUME TypeInv, NEW m \in Machines, Scan(m)
    PROVE  /\ \A s \in Slots(exponent) : table'[s].value = table[s].value
           /\ Linked(table, exponent) =>
                \A s \in Slots(exponent) : table[s].value # 0 =>
                    (table'[s].count # 0 <=> table[s].count # 0 \/ table[s].value \in refs[m])
<1> DEFINE seen == {s \in Slots(exponent) :
                      \E v \in refs[m] : s \in Stop(table, exponent, v) /\ table[s].value = v}
<1>1. table \in Tables(exponent, Handles) /\ exponent \in 0 .. 16
  BY Sizes DEF TypeInv, Scan
<1>2. table' = [s \in DOMAIN table |-> IF s \in seen THEN [table[s] EXCEPT !.count = @ + 1] ELSE table[s]]
  BY DEF Scan
<1> HIDE DEF seen
<1>3. ASSUME NEW s \in Slots(exponent)
      PROVE  /\ table'[s].value = table[s].value
             /\ table'[s].count = IF s \in seen THEN table[s].count + 1 ELSE table[s].count
             /\ table[s].count \in Nat
  BY <1>1, <1>2 DEF Tables
<1>4. ASSUME Linked(table, exponent), NEW s \in Slots(exponent), table[s].value # 0
      PROVE  s \in seen <=> table[s].value \in refs[m]
  <2>1. Stop(table, exponent, table[s].value) = {s}
    BY <1>4 DEF Linked
  <2> QED BY <2>1 DEF seen
<1>5. ASSUME Linked(table, exponent), NEW s \in Slots(exponent), table[s].value # 0
      PROVE  table'[s].count # 0 <=> table[s].count # 0 \/ table[s].value \in refs[m]
  <2>1. s \in seen <=> table[s].value \in refs[m]
    BY <1>4, <1>5
  <2> QED BY <1>3, <2>1
<1> QED BY <1>3, <1>5

LEMMA GCInit == Init => GCInv
<1> SUFFICES ASSUME Init PROVE GCInv
  OBVIOUS
<1>1. 0 \in 0 .. MaxExponent /\ 0 \in Nat
  BY GCAssumption
<1> QED BY <1>1 DEF Init, GCInv, TypeInv, TypeOK, FreshInv, ScanInv

LEMMA FreshStep == GCInv /\ [Next]_vars => FreshInv'
<1> SUFFICES ASSUME TypeInv, FreshInv, [Next]_vars PROVE FreshInv'
  BY DEF GCInv
<1>1. exponent \in 0 .. 16 /\ Handles \in SUBSET (1 .. 255) /\ (table # <<>> => table \in Tables(exponent, Handles))
  BY Sizes
<1>2. CASE UNCHANGED vars
  BY <1>2 DEF vars, FreshInv
<1>3. CASE Next
  <2>1. CASE Start
    BY <2>1, NewTable DEF Start, FreshInv
  <2>2. ASSUME NEW m \in Machines, NEW v \in host.handles, Create(m, v) PROVE FreshInv'
    <3>1. count < 2^exponent
      <4>1. 2^exponent \in Nat \ {0}
        BY <1>1, Power
      <4> DEFINE n == 2^exponent
      <4> HIDE DEF n
      <4>2. n \in Nat \ {0} /\ count = 0
        BY <4>1 DEF n, TypeInv
      <4>3. count < n
        BY <4>2
      <4> QED BY <4>3 DEF n
    <3>2. ~(count >= 2^exponent)
      <4>1. 2^exponent \in Nat \ {0} /\ count \in Nat
        BY <1>1, Power DEF TypeInv, TypeOK
      <4> DEFINE n == 2^exponent
      <4> HIDE DEF n
      <4> QED BY <3>1, <4>1 DEF n
    <3>3. table' = Insert(table, exponent, v) /\ marked' = marked \cup {v} /\ live' = live \cup {v}
          /\ exponent' = exponent /\ phase = "run" /\ table # <<>>
      BY <2>2, <3>2 DEF Create
    <3>4. Fresh(table, exponent)
      BY <3>3 DEF FreshInv
    <3>5. Fresh(table', exponent')
      BY <1>1, <3>3, <3>4, InsertTable DEF Handles
    <3> QED BY <3>3, <3>5 DEF FreshInv
  <2>3. ASSUME NEW m \in Machines, NEW v \in host.handles, Drop(m, v) PROVE FreshInv'
    BY <2>3 DEF Drop, FreshInv
  <2>4. ASSUME NEW m \in Machines, NEW n \in Machines, NEW v \in host.handles, Share(m, n, v) PROVE FreshInv'
    BY <2>4 DEF Share, FreshInv
  <2>5. CASE CollectStart
    BY <2>5 DEF CollectStart, FreshInv
  <2>6. CASE CollectEnd
    <3>1. table \in Tables(exponent, Handles)
      BY <1>1, <2>6 DEF CollectEnd, TypeInv
    <3>2. table' = Cleaned(table) /\ exponent' = exponent /\ live' = live \ Destroyed /\ marked' = marked \ Destroyed
      BY <2>6 DEF CollectEnd, Clean
    <3>3. Fresh(table', exponent')
      BY <3>1, <3>2 DEF Fresh, Cleaned, Tables
    <3> QED BY <3>2, <3>3 DEF FreshInv
  <2>7. ASSUME NEW m \in Machines, Scan(m) PROVE FreshInv'
    BY <2>7 DEF Scan, FreshInv
  <2>8. CASE Resize
    <3>1. PICK e \in MinExponent .. MaxExponent : SetTable(e)
      BY <2>8 DEF Resize
    <3>2. Fresh(table', exponent')
      BY <3>1, NewTable
    <3> QED BY <2>8, <3>2 DEF Resize, FreshInv
  <2>9. CASE Shutdown
    BY <2>9 DEF Shutdown, FreshInv
  <2> QED BY <1>3, <2>1, <2>2, <2>3, <2>4, <2>5, <2>6, <2>7, <2>8, <2>9 DEF Next
<1> QED BY <1>2, <1>3

LEMMA ScanStep == GCInv /\ [Next]_vars => ScanInv'
<1> SUFFICES ASSUME GCInv, [Next]_vars, phase' = "scan", Linked(table', exponent'),
                    NEW s \in Slots(exponent'), table'[s].value # 0
             PROVE  table'[s].count # 0 <=> \E m \in Machines \ toscan' : table'[s].value \in refs'[m]
  BY DEF ScanInv
<1>1. TypeInv /\ FreshInv /\ ScanInv
  BY DEF GCInv
<1>2. exponent \in 0 .. 16 /\ Handles \in SUBSET (1 .. 255) /\ (table # <<>> => table \in Tables(exponent, Handles))
  BY <1>1, Sizes
<1>3. CASE UNCHANGED vars
  BY <1>1, <1>3 DEF vars, ScanInv
<1>4. CASE CollectStart
  <2>1. Fresh(table', exponent')
    <3>1. CASE exponent < MaxExponent /\ SetTable(exponent + 1)
      <4>1. exponent + 1 \in MinExponent .. MaxExponent
        BY <1>1, <1>4, <3>1, GCAssumption DEF CollectStart, TypeInv
      <4> QED BY <1>1, <3>1, <4>1, NewTable
    <3>2. CASE UNCHANGED <<table, exponent, count, flags>>
      BY <1>1, <1>4, <3>2 DEF CollectStart, FreshInv
    <3> QED BY <1>4, <3>1, <3>2 DEF CollectStart
  <2> QED BY <1>4, <2>1 DEF CollectStart, Fresh
<1>5. ASSUME NEW m \in Machines, Scan(m) PROVE table'[s].count # 0 <=> \E n \in Machines \ toscan' : table'[s].value \in refs'[n]
  <2>1. exponent' = exponent /\ refs' = refs /\ toscan' = toscan \ {m} /\ phase = "scan" /\ m \in toscan
    BY <1>5 DEF Scan
  <2>2. \A x \in Slots(exponent) : table'[x].value = table[x].value
    BY <1>1, <1>5, ScanCounts
  <2>3. Linked(table, exponent)
    <3>1. table' \in Tables(exponent, Handles)
      <4>1. TypeInv'
        BY <1>1, TypeStep
      <4>2. table' # <<>> /\ host' = host
        <5>1. host' = host
          BY DEF Next, vars
        <5> QED BY <4>1, <5>1 DEF TypeInv
      <4> QED BY <2>1, <4>1, <4>2 DEF TypeInv, TypeOK, Tables, Handles
    <3> QED BY <1>2, <2>1, <2>2, <3>1, LinkedByValues
  <2>4. s \in Slots(exponent) /\ table[s].value # 0 /\ table'[s].value = table[s].value
    BY <2>1, <2>2
  <2>5. table'[s].count # 0 <=> table[s].count # 0 \/ table[s].value \in refs[m]
    BY <1>1, <1>5, <2>3, <2>4, ScanCounts
  <2>6. table[s].count # 0 <=> \E n \in Machines \ toscan : table[s].value \in refs[n]
    BY <1>1, <2>1, <2>3, <2>4 DEF ScanInv
  <2> QED BY <2>1, <2>4, <2>5, <2>6
<1>6. CollectStart \/ (\E m \in Machines : Scan(m)) \/ UNCHANGED vars
  BY DEF Next, Start, Create, Drop, Share, CollectEnd, Resize, Shutdown
<1> QED BY <1>3, <1>4, <1>5, <1>6

LEMMA GCStep == GCInv /\ [Next]_vars => GCInv'
  BY TypeStep, FreshStep, ScanStep DEF GCInv

LEMMA Inductive == Spec => []GCInv
  BY GCInit, GCStep, PTL DEF Spec

\* The variables have their types in every state, whatever the hosts, the
\* machines and the sizes of the table.
THEOREM TypeCorrect == Spec => []TypeOK
<1>1. GCInv => TypeOK
  BY DEF GCInv, TypeInv
<1> QED BY <1>1, Inductive, PTL

-----------------------------------------------------------------------------
(* What a collection destroys, and what hides an object from it.           *)

\* gc_clean destroys the objects whose slots no scan has counted.
LEMMA DestroyedAre ==
    ASSUME TypeInv, table # <<>>, Chained
    PROVE  \A v \in marked : \E s \in Slots(exponent) :
               /\ table[s].value = v /\ v # 0
               /\ v \in Destroyed <=> table[s].count = 0
<1> TAKE v \in marked
<1>1. DOMAIN table = Slots(exponent)
  BY DEF TypeInv, TypeOK
<1>2. PICK s \in Slots(exponent) : table[s].value = v /\ v # 0
  BY <1>1 DEF Chained, Values
<1>3. \A x \in Slots(exponent) : table[x].value = v => x = s
  <2> SUFFICES ASSUME NEW x \in Slots(exponent), table[x].value = v PROVE x = s
    OBVIOUS
  <2>1. Stop(table, exponent, v) = {x} /\ Stop(table, exponent, v) = {s}
    BY <1>1, <1>2 DEF Chained
  <2> QED BY <2>1
<1>4. v \in Destroyed <=> \E x \in Slots(exponent) : Dead(table[x]) /\ table[x].value = v
  BY <1>1 DEF Destroyed
<1> QED BY <1>2, <1>3, <1>4 DEF Dead

LEMMA CollectsExactly ==
    ASSUME GCInv, CollectEnd, Chained
    PROVE  marked' = {v \in marked : \E m \in Machines : v \in refs[m]}
<1>1. TypeInv /\ ScanInv /\ phase = "scan" /\ toscan = {} /\ table # <<>> /\ marked' = marked \ Destroyed
  BY DEF GCInv, CollectEnd, Clean, TypeInv
<1>2. Linked(table, exponent)
  BY <1>1 DEF Chained, Linked, TypeInv, TypeOK
<1>3. \A v \in marked : \E s \in Slots(exponent) :
         /\ table[s].value = v /\ v # 0
         /\ v \in Destroyed <=> table[s].count = 0
  BY <1>1, DestroyedAre
<1>4. ASSUME NEW v \in marked PROVE v \in Destroyed <=> ~\E m \in Machines : v \in refs[m]
  <2>1. PICK s \in Slots(exponent) : /\ table[s].value = v /\ v # 0
                                     /\ v \in Destroyed <=> table[s].count = 0
    BY <1>3
  <2>2. table[s].count # 0 <=> \E m \in Machines \ toscan : v \in refs[m]
    BY <1>1, <1>2, <2>1 DEF ScanInv
  <2> QED BY <1>1, <2>1, <2>2
<1> QED BY <1>1, <1>4

\* A collection destroys the objects whose handle no machine has and no others,
\* for all handles, colliding or not, and all sizes of the table, if the probes
\* find what is in the table when gc_clean is called.
THEOREM Exactly == Spec => CollectedExactly
<1>1. GCInv /\ [Next]_vars =>
        [Collects /\ Chained => marked' = {v \in marked : \E m \in Machines : v \in refs[m]}]_vars
  <2> SUFFICES ASSUME GCInv, Next, Collects, Chained
               PROVE  marked' = {v \in marked : \E m \in Machines : v \in refs[m]}
    OBVIOUS
  <2>1. CollectEnd
    BY DEF Collects, Next, Start, Create, Drop, Share, CollectStart, Scan, Resize, Shutdown
  <2> QED BY <2>1, CollectsExactly
<1> QED BY <1>1, Inductive, PTL DEF Spec, CollectedExactly

\* At the end there are only objects that a probe could have found.
LEMMA ShutdownDestroysAll ==
    ASSUME GCInv, Shutdown, Chained
    PROVE  live' = {} /\ marked' = {}
<1>1. TypeInv /\ FreshInv /\ table # <<>> /\ Fresh(table, exponent) /\ marked = live
      /\ live' = live \ Destroyed /\ marked' = marked \ Destroyed
  BY DEF GCInv, FreshInv, Shutdown
<1>2. \A v \in marked : \E s \in Slots(exponent) :
         /\ table[s].value = v /\ v # 0
         /\ v \in Destroyed <=> table[s].count = 0
  BY <1>1, DestroyedAre
<1>3. ASSUME NEW v \in marked PROVE v \in Destroyed
  <2>1. PICK s \in Slots(exponent) : v \in Destroyed <=> table[s].count = 0
    BY <1>2
  <2> QED BY <1>1, <2>1 DEF Fresh
<1> QED BY <1>1, <1>3

\* The probes find what is in the table until a collection empties a slot: no
\* other operation of the collector or of a script hides a value, whatever
\* handles collide and however the table is resized, unless it does not end.
THEOREM OnlyCleaningHides == Spec => ChainsKept
<1> DEFINE A == Chained /\ ~Collects /\ phase' # "halted" => Chained'
<1>1. GCInv /\ [Next]_vars => [A]_vars
  <2> SUFFICES ASSUME GCInv, Next, Chained, ~Collects, phase' # "halted" PROVE Chained'
    OBVIOUS
  <2>1. TypeInv /\ FreshInv /\ TypeInv' /\ host' = host
    BY TypeStep DEF GCInv, Next
  <2>2. exponent \in 0 .. 16 /\ Handles \in SUBSET (1 .. 255) /\ (table # <<>> => table \in Tables(exponent, Handles))
    BY <2>1, Sizes
  <2>3. table # <<>> => Linked(table, exponent) /\ marked \subseteq Filled(table, exponent)
    BY <2>1 DEF Chained, Values, Linked, Filled, TypeInv, TypeOK
  <2>4. ASSUME table' # <<>>, Linked(table', exponent'), marked' \subseteq Filled(table', exponent') PROVE Chained'
    BY <2>1, <2>4 DEF Chained, Values, Linked, Filled, TypeInv, TypeOK
  <2>5. table = <<>> => marked = {}
    BY DEF Chained, Values
  <2>6. ASSUME NEW e \in MinExponent .. MaxExponent, SetTable(e), marked' = marked, Remarked PROVE Chained'
    <3>1. table' # <<>> /\ Linked(table', exponent')
      BY <2>1, <2>6, NewTable
    <3>2. Values(table') = Filled(table', exponent')
      BY <2>1, <3>1 DEF Values, Filled, TypeInv, TypeOK
    <3>3. marked \subseteq Values(table)
      BY DEF Chained
    <3> QED BY <2>4, <2>6, <3>1, <3>2, <3>3 DEF Remarked
  <2>7. CASE Start
    <3>1. PICK e \in MinExponent .. MaxExponent : SetTable(e)
      BY <2>7 DEF Start
    <3>2. table' # <<>> /\ Linked(table', exponent') /\ marked' = {}
      BY <2>1, <2>5, <2>7, <3>1, NewTable DEF Start
    <3> QED BY <2>4, <3>2
  <2>8. ASSUME NEW m \in Machines, NEW v \in host.handles, Create(m, v) PROVE Chained'
    <3>1. CASE UNCHANGED <<table, marked>> /\ exponent' = exponent
      BY <3>1 DEF Chained
    <3>2. CASE table' = Insert(table, exponent, v) /\ marked' = marked \cup {v} /\ exponent' = exponent
               /\ phase' = IF Stop(table, exponent, v) = {} THEN "halted" ELSE phase
      <4>1. table \in Tables(exponent, Handles) /\ Linked(table, exponent) /\ v \in Handles
            /\ Stop(table, exponent, v) # {}
        BY <2>2, <2>3, <2>8, <3>2 DEF Create, Handles
      <4>2. Linked(table', exponent') /\ Filled(table', exponent') = Filled(table, exponent) \cup {v}
        BY <2>2, <3>2, <4>1, InsertChained
      <4>3. table' # <<>>
        BY <2>2, <2>8, <3>2, InsertTable, NotNone DEF Create, Handles
      <4> QED BY <2>3, <2>4, <2>8, <3>2, <4>2, <4>3 DEF Create
    <3> QED BY <2>8, <3>1, <3>2 DEF Create
  <2>9. ASSUME UNCHANGED <<table, exponent, marked>> PROVE Chained'
    BY <2>9 DEF Chained
  <2>10. ASSUME NEW m \in Machines, Scan(m) PROVE Chained'
    <3>1. exponent' = exponent /\ marked' = marked /\ table # <<>> /\ table' # <<>>
      BY <2>1, <2>10 DEF Scan, TypeInv
    <3>2. \A s \in Slots(exponent) : table'[s].value = table[s].value
      BY <2>1, <2>10, ScanCounts
    <3>3. Linked(table', exponent')
      BY <2>2, <2>3, <3>1, <3>2, LinkedByValues
    <3>4. Filled(table', exponent') = Filled(table, exponent)
      BY <3>1, <3>2 DEF Filled
    <3> QED BY <2>3, <2>4, <3>1, <3>3, <3>4
  <2>11. CASE CollectStart
    <3>1. marked' = marked /\ Remarked
      BY <2>11 DEF CollectStart
    <3>2. CASE exponent < MaxExponent /\ SetTable(exponent + 1)
      <4>1. exponent + 1 \in MinExponent .. MaxExponent
        BY <2>1, <2>11, <3>2, GCAssumption DEF CollectStart, TypeInv
      <4> QED BY <2>6, <3>1, <3>2, <4>1
    <3>3. CASE UNCHANGED <<table, exponent, count, flags>>
      BY <2>9, <3>1, <3>3
    <3> QED BY <2>11, <3>2, <3>3 DEF CollectStart
  <2>12. CASE Resize
    <3>1. PICK e \in MinExponent .. MaxExponent : SetTable(e) /\ Remarked /\ marked' = marked
      BY <2>12 DEF Resize
    <3> QED BY <2>6, <3>1
  <2>13. CASE Shutdown
    <3>1. table' = <<>> /\ marked' = {}
      BY <2>13, ShutdownDestroysAll DEF Shutdown
    <3> QED BY <3>1 DEF Chained
  <2>14. ~CollectEnd
    BY DEF CollectEnd, Collects
  <2>15. ASSUME NEW m \in Machines, NEW v \in host.handles, Drop(m, v) PROVE Chained'
    BY <2>9, <2>15 DEF Drop
  <2>16. ASSUME NEW m \in Machines, NEW n \in Machines, NEW v \in host.handles, Share(m, n, v) PROVE Chained'
    BY <2>9, <2>16 DEF Share
  <2> QED BY <2>7, <2>8, <2>10, <2>11, <2>12, <2>13, <2>14, <2>15, <2>16 DEF Next
<1> HIDE DEF A
<1>2. Spec => [][A]_vars
  BY <1>1, Inductive, PTL DEF Spec
<1> QED BY <1>2 DEF A, ChainsKept

-----------------------------------------------------------------------------
(* The promise.                                                            *)

AllHandles == UNION {h.handles : h \in Hosts}

O == INSTANCE Objects WITH Handles <- AllHandles

\* With its table, its counts and its three calls the collector does what Objects
\* says at every step that finds the table with its probes in order: a whole
\* collection is one step, at its end, that destroys the objects without a handle
\* and no others.  OnlyCleaningHides says which step may leave it otherwise.
THEOREM Implements == Spec => O!Init /\ [][Chained => O!Next]_(O!objects)
<1> DEFINE A == Chained => O!Next
<1>1. Init => O!Init
  BY DEF Init, O!Init
<1>2. GCInv /\ [Next]_vars => [A]_(O!objects)
  <2> SUFFICES ASSUME GCInv, [Next]_vars, Chained, ~UNCHANGED <<live, refs>>
               PROVE  O!Next
    BY DEF O!objects
  <2>1. TypeInv /\ FreshInv /\ Next /\ host.handles \subseteq AllHandles
    BY DEF vars, GCInv, TypeInv, TypeOK, AllHandles
  <2>2. ASSUME NEW m \in Machines, NEW v \in host.handles, Create(m, v) \/ Drop(m, v)
        PROVE  O!Next
    <3>1. O!Create(m, v) \/ O!Drop(m, v)
      BY <2>2 DEF Create, Drop, O!Create, O!Drop
    <3> QED BY <2>1, <3>1 DEF O!Next
  <2>3. ASSUME NEW m \in Machines, NEW n \in Machines, NEW v \in host.handles, Share(m, n, v)
        PROVE  O!Next
    <3>1. O!Share(m, n, v)
      BY <2>3 DEF Share, O!Share
    <3> QED BY <2>1, <3>1 DEF O!Next
  <2>4. CASE CollectEnd
    <3>1. refs' = refs /\ live' = live \ Destroyed /\ marked' = marked \ Destroyed /\ marked = live
      BY <2>1, <2>4 DEF CollectEnd, Clean, FreshInv
    <3>2. O!Collect
      BY <2>4, <3>1, CollectsExactly DEF O!Collect
    <3> QED BY <3>2 DEF O!Next
  <2>5. CASE Shutdown
    <3>1. O!Shutdown
      BY <2>5, ShutdownDestroysAll DEF Shutdown, O!Shutdown
    <3> QED BY <3>1 DEF O!Next
  <2> QED BY <2>1, <2>2, <2>3, <2>4, <2>5 DEF Next, Start, CollectStart, Scan, Resize
<1> HIDE DEF A
<1>3. Spec => [][A]_(O!objects)
  BY <1>2, Inductive, PTL DEF Spec
<1> QED BY <1>1, <1>3, PTL DEF A, Spec
=============================================================================
