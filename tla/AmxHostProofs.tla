--------------------------- MODULE AmxHostProofs ---------------------------
(***************************************************************************)
(* Proofs about the event loop, for every set of modules, scripts, limits  *)
(* and widths: the types, and that the timer measures real time.           *)
(*                                                                         *)
(* The chain of idle functions is followed along PrevIdle until there is   *)
(* none; that it ends, and only reaches modules that the script has a      *)
(* function for, follows from the order of the Inits (ChainInv).  So the   *)
(* timer is polled only for a script with @timer, and a poll that finds it *)
(* due takes one period off the time that has passed (ArmedInv, Wraps).    *)
(* A cell may be narrower than a long: Stamps says at which one tick the   *)
(* sign extension moves a stamp by more than one.                          *)
(***************************************************************************)
EXTENDS AmxHost, Iteration

\* Values is what its definition says.
LEMMA ValuesAre ==
    /\ Values \in [0 .. LongBits -> Nat \ {0}]
    /\ \A n \in 0 .. LongBits : Values[n] = IF n = 0 THEN 1 ELSE 2 * Values[n - 1]
<1> DEFINE S == 0 .. LongBits
           X == Nat \ {0}
           twice == [p \in (1 .. LongBits) \X X |-> 2 * p[2]]
           Is(f) == f = [n \in S |-> IF n = 0 THEN 1 ELSE 2 * f[n - 1]]
<1>1. LongBits \in Nat
  BY HostAssumption
<1>2. twice \in [(1 .. LongBits) \X X -> X]
  <2> SUFFICES ASSUME NEW p \in (1 .. LongBits) \X X PROVE 2 * p[2] \in X
    OBVIOUS
  <2>1. p[2] \in X
    OBVIOUS
  <2> QED BY <2>1
<1>3. PICK f : Iterates(f, LongBits, X, 1, twice)
  <2> HIDE DEF twice, X
  <2>1. 1 \in X
    BY DEF X
  <2> QED BY <1>1, <1>2, <2>1, Recurses
<1>4. f \in [S -> X]
  BY <1>3 DEF Iterates
<1>5. ASSUME NEW n \in S PROVE f[n] = IF n = 0 THEN 1 ELSE 2 * f[n - 1]
  <2>1. n # 0 => n \in 1 .. LongBits /\ n - 1 \in S
    BY <1>1
  <2>2. n # 0 => <<n, f[n - 1]>> \in (1 .. LongBits) \X X
    BY <1>4, <2>1
  <2>3. n # 0 => twice[<<n, f[n - 1]>>] = 2 * f[n - 1]
    BY <2>2
  <2> HIDE DEF twice
  <2> QED BY <1>3, <2>3 DEF Iterates
<1>6. Is(f)
  <2> HIDE DEF X
  <2> QED BY <1>4, <1>5
<1>7. Is(Values)
  <2>1. Values = CHOOSE g : Is(g)
    BY DEF Values
  <2> HIDE DEF Is
  <2> QED BY <1>6, <2>1
<1>8. \A n \in S : Values[n] = IF n = 0 THEN 1 ELSE 2 * Values[n - 1]
  BY <1>7
<1>9. \A n \in S : Values[n] \in X
  <2> DEFINE T == {n \in S : Values[n] \in X}
  <2>1. 0 \in T
    BY <1>1, <1>8
  <2>2. ASSUME NEW n \in S, n \in T, n < LongBits PROVE n + 1 \in T
    <3>1. n + 1 \in S /\ n + 1 # 0 /\ (n + 1) - 1 = n
      BY <1>1, <2>2
    <3>2. Values[n + 1] = 2 * Values[n]
      BY <1>8, <3>1
    <3> QED BY <2>2, <3>1, <3>2
  <2> HIDE DEF T
  <2>3. S \subseteq T
    BY <1>1, <2>1, <2>2, UpTo
  <2> QED BY <2>3 DEF T
<1>10. Values = [n \in S |-> Values[n]]
  BY <1>7
<1> QED BY <1>8, <1>9, <1>10

-----------------------------------------------------------------------------
(* The chain of idle functions.                                            *)

\* No module is loaded twice: its Init would save its own idle function.
Once == \A i, j \in DOMAIN Loaded : Loaded[i] = Loaded[j] => i = j

\* The script has a public function for the module.
Served(m) == Wanted(m) \cap script # {}

\* Every idle function in the chain belongs to a module that ran its Init for
\* this script, and calls the idle function of one that did so earlier.
ChainInv ==
    /\ inits \in 0 .. Len(Loaded)
    /\ idle \in ModuleNames \cup {"none"} /\ prev \in [ModuleNames -> ModuleNames \cup {"none"}]
    /\ idle # "none" => Served(idle) /\ \E i \in 1 .. inits : Loaded[i] = idle
    /\ \A m \in ModuleNames : prev[m] # "none" =>
         /\ Served(prev[m])
         /\ \E i, j \in 1 .. inits : i < j /\ Loaded[i] = prev[m] /\ Loaded[j] = m

\* An idle function calls only those of modules that the script has a public
\* function for.
LEMMA OrderServed ==
    ASSUME Once, ChainInv
    PROVE  /\ CallOrder \in Seq(ModuleNames)
           /\ \A i \in DOMAIN CallOrder : Served(CallOrder[i])
<1> DEFINE M == ModuleNames \cup {"none"}
           X == Seq(ModuleNames)
           Place(m) == {i \in DOMAIN Loaded : Loaded[i] = m}
           rank == [m \in M |-> IF m = "none" THEN 0
                                ELSE IF Place(m) = {} THEN 1
                                ELSE 1 + CHOOSE i \in Place(m) : TRUE]
           next == [m \in M |-> IF m = "none" THEN "none" ELSE prev[m]]
           first == [m \in M |-> <<>>]
           grow == [p \in M \X X |-> IF p[1] = "none" THEN <<>> ELSE Append(p[2], p[1])]
           Is(f) == f = [m \in M |-> IF m = "none" THEN <<>> ELSE Append(f[prev[m]], m)]
           N == Len(Loaded) + 1
<1>1. Len(Loaded) \in Nat /\ DOMAIN Loaded = 1 .. Len(Loaded) /\ N \in Nat /\ inits \in 0 .. Len(Loaded)
      /\ "none" \notin ModuleNames
  BY HostAssumption DEF ChainInv, ModuleNames
<1>2. ASSUME NEW m \in ModuleNames, NEW i \in DOMAIN Loaded, Loaded[i] = m PROVE rank[m] = 1 + i
  <2>1. Place(m) = {i}
    BY <1>2 DEF Once
  <2>2. (CHOOSE j \in Place(m) : TRUE) = i
    BY <2>1
  <2> HIDE DEF Place
  <2> QED BY <1>1, <2>1, <2>2
<1>3. rank \in [M -> 0 .. N]
  <2> SUFFICES ASSUME NEW m \in M PROVE rank[m] \in 0 .. N
    OBVIOUS
  <2>1. CASE m = "none" \/ Place(m) = {}
    BY <1>1, <2>1
  <2>2. CASE m # "none" /\ Place(m) # {}
    <3>1. PICK i \in DOMAIN Loaded : Loaded[i] = m
      BY <2>2
    <3>2. rank[m] = 1 + i
      BY <1>2, <2>2, <3>1
    <3> HIDE DEF rank
    <3> QED BY <1>1, <3>1, <3>2
  <2> QED BY <2>1, <2>2
<1>4. \A m \in M : rank[m] = 0 <=> m = "none"
  <2> TAKE m \in M
  <2>1. ASSUME m # "none", Place(m) # {} PROVE rank[m] # 0
    <3>1. PICK i \in DOMAIN Loaded : Loaded[i] = m
      BY <2>1
    <3>2. rank[m] = 1 + i
      BY <1>2, <2>1, <3>1
    <3> HIDE DEF rank
    <3> QED BY <1>1, <3>1, <3>2
  <2> QED BY <2>1
<1>5. next \in [M -> M] /\ first \in [M -> X] /\ grow \in [M \X X -> X]
  <2>1. next \in [M -> M] /\ first \in [M -> X]
    BY DEF ChainInv
  <2>2. grow \in [M \X X -> X]
    <3> SUFFICES ASSUME NEW p \in M \X X, p[1] # "none" PROVE Append(p[2], p[1]) \in X
      OBVIOUS
    <3>1. p[2] \in X /\ p[1] \in ModuleNames
      OBVIOUS
    <3> QED BY <3>1
  <2> QED BY <2>1, <2>2
<1>6. ASSUME NEW m \in M, rank[m] # 0 PROVE rank[next[m]] < rank[m]
  <2>1. m # "none" /\ next[m] = prev[m]
    BY <1>4, <1>6
  <2>2. CASE prev[m] = "none"
    <3>1. rank[next[m]] = 0 /\ rank[m] \in 0 .. N
      BY <1>3, <1>4, <1>5, <2>1, <2>2
    <3> HIDE DEF rank
    <3> QED BY <1>6, <3>1
  <2>3. CASE prev[m] # "none"
    <3>1. PICK i, j \in 1 .. inits : i < j /\ Loaded[i] = prev[m] /\ Loaded[j] = m
      BY <2>1, <2>3 DEF ChainInv
    <3>2. i \in DOMAIN Loaded /\ j \in DOMAIN Loaded /\ i \in Int /\ j \in Int
      BY <1>1
    <3>3. prev[m] \in ModuleNames /\ m \in ModuleNames
      BY <2>1, <2>3 DEF ChainInv
    <3>4. rank[prev[m]] = 1 + i /\ rank[m] = 1 + j
      BY <1>2, <3>1, <3>2, <3>3
    <3> HIDE DEF rank
    <3> QED BY <2>1, <3>1, <3>2, <3>4
  <2> QED BY <2>2, <2>3
<1>7. PICK f : Follows(f, M, X, rank, next, first, grow)
  <2> HIDE DEF M, X, N, rank, next, first, grow
  <2> QED BY <1>1, <1>3, <1>5, <1>6, Descends
<1>8. f \in [M -> X]
  BY <1>7 DEF Follows
<1>9. ASSUME NEW m \in M PROVE f[m] = IF m = "none" THEN <<>> ELSE Append(f[prev[m]], m)
  <2>1. f[m] = IF rank[m] = 0 THEN first[m] ELSE grow[<<m, f[next[m]]>>]
    BY <1>7 DEF Follows
  <2>2. m # "none" => next[m] = prev[m] /\ <<m, f[prev[m]]>> \in M \X X
    BY <1>5, <1>8
  <2>3. m # "none" => grow[<<m, f[prev[m]]>>] = Append(f[prev[m]], m)
    BY <2>2
  <2> HIDE DEF rank, grow, next, M, X
  <2>4. CASE m = "none"
    BY <1>4, <2>1, <2>4
  <2>5. CASE m # "none"
    BY <1>4, <2>1, <2>2, <2>3, <2>5
  <2> QED BY <2>4, <2>5
<1>10. Is(f)
  <2> HIDE DEF X
  <2> QED BY <1>8, <1>9
<1> DEFINE order == CHOOSE g : Is(g)
<1>11. CallOrder = order[idle]
  BY DEF CallOrder
<1>12. Is(order)
  <2> HIDE DEF Is
  <2> QED BY <1>10
<1> HIDE DEF order
<1>13. \A m \in M : order[m] = IF m = "none" THEN <<>> ELSE Append(order[prev[m]], m)
  BY <1>12
<1> DEFINE Fine(s) == s \in Seq(ModuleNames) /\ \A i \in DOMAIN s : Served(s[i])
           T == {n \in 0 .. N : \A m \in M : (m = "none" \/ Served(m)) /\ rank[m] <= n => Fine(order[m])}
<1>14. Fine(<<>>)
  OBVIOUS
<1>15. 0 \in T
  <2>1. \A m \in M : rank[m] <= 0 => m = "none"
    <3>1. \A m \in M : rank[m] \in Nat
      BY <1>3
    <3>2. \A m \in M : rank[m] <= 0 => rank[m] = 0
      <4> HIDE DEF rank
      <4> QED BY <3>1
    <3> QED BY <1>4, <3>2
  <2>2. Fine(order["none"])
    BY <1>13, <1>14
  <2> HIDE DEF Fine, rank
  <2> QED BY <1>1, <2>1, <2>2
<1>16. ASSUME NEW n \in 0 .. N, n \in T, n < N PROVE n + 1 \in T
  <2> SUFFICES ASSUME NEW m \in M, m = "none" \/ Served(m), rank[m] <= n + 1 PROVE Fine(order[m])
    <3>1. n + 1 \in 0 .. N
      BY <1>1, <1>16
    <3> HIDE DEF Fine, rank, N
    <3> QED BY <3>1
  <2>1. CASE m = "none"
    BY <1>13, <1>14, <2>1
  <2>2. CASE m # "none"
    <3>1. m \in ModuleNames /\ prev[m] \in M /\ (prev[m] = "none" \/ Served(prev[m]))
      BY <2>2 DEF ChainInv
    <3>2. rank[prev[m]] <= n
      <4>a. \A k \in M : rank[k] \in Nat
        BY <1>3
      <4>b. rank[m] # 0
        BY <1>4, <2>2
      <4>c. next[m] = prev[m]
        BY <2>2
      <4> HIDE DEF rank, next
      <4>1. rank[m] # 0 /\ next[m] = prev[m] /\ rank[m] \in Nat /\ rank[prev[m]] \in Nat
        BY <3>1, <4>a, <4>b, <4>c
      <4>2. rank[prev[m]] < rank[m]
        BY <1>6, <4>1
      <4> HIDE DEF rank
      <4> QED BY <4>1, <4>2
    <3>3. Fine(order[prev[m]])
      <4> HIDE DEF Fine, rank
      <4> QED BY <1>16, <3>1, <3>2
    <3>4. order[m] = Append(order[prev[m]], m)
      BY <1>13, <2>2
    <3> DEFINE s == order[prev[m]]
    <3> HIDE DEF s, Served
    <3>5. s \in Seq(ModuleNames) /\ \A i \in DOMAIN s : Served(s[i])
      BY <3>3 DEF s
    <3>6. Append(s, m) \in Seq(ModuleNames) /\ \A i \in DOMAIN Append(s, m) : Served(Append(s, m)[i])
      <4>1. Served(m)
        BY <2>2
      <4> QED BY <3>1, <3>5, <4>1
    <3> QED BY <3>4, <3>6 DEF s
  <2> QED BY <2>1, <2>2
<1>17. Fine(order[idle])
  <2> HIDE DEF T
  <2>1. 0 .. N \subseteq T
    BY <1>1, <1>15, <1>16, UpTo
  <2>2. N \in T
    BY <1>1, <2>1
  <2>3. idle \in M /\ (idle = "none" \/ Served(idle))
    BY DEF ChainInv
  <2>4. rank[idle] <= N
    BY <1>3, <2>3
  <2> HIDE DEF Fine, rank
  <2> QED BY <2>2, <2>3, <2>4 DEF T
<1> QED BY <1>11, <1>17

-----------------------------------------------------------------------------
(* The clock.                                                              *)

\* No poll comes a whole turn of the stamps late.
Prompt == MaxElapsed < Values[LongBits]

\* The counter of a tick more, and of a period less, on the circle of P values.
LEMMA Wraps ==
    ASSUME NEW P \in Nat \ {0}, NEW c \in 0 .. P - 1, NEW s \in 0 .. P - 1
    PROVE  /\ (c - s) % P \in 0 .. P - 1
           /\ (c + 1) % P \in 0 .. P - 1
           /\ ((c - s) % P) + 1 < P => (((c + 1) % P) - s) % P = ((c - s) % P) + 1
           /\ \A l \in Nat : l <= (c - s) % P =>
                 /\ (s + l) % P \in 0 .. P - 1
                 /\ (c - ((s + l) % P)) % P = ((c - s) % P) - l
<1> DEFINE d == (c - s) % P
<1>1. d \in 0 .. P - 1 /\ d = IF c >= s THEN c - s ELSE c - s + P
  OBVIOUS
<1>2. (c + 1) % P \in 0 .. P - 1 /\ (c + 1) % P = IF c + 1 < P THEN c + 1 ELSE 0
  OBVIOUS
<1>3. ASSUME NEW n \in 0 .. P - 1
      PROVE  (n - s) % P = IF n >= s THEN n - s ELSE n - s + P
  OBVIOUS
<1>4. d + 1 < P => (((c + 1) % P) - s) % P = d + 1
  <2> DEFINE n == (c + 1) % P
  <2>1. (n - s) % P = IF n >= s THEN n - s ELSE n - s + P
    BY <1>2, <1>3
  <2> HIDE DEF d, n
  <2>2. n = IF c + 1 < P THEN c + 1 ELSE 0
    BY <1>2 DEF n
  <2>3. n \in Int /\ d \in Int /\ d = (IF c >= s THEN c - s ELSE c - s + P)
    BY <1>1, <1>2 DEF n
  <2>4. d + 1 < P => (n - s) % P = d + 1
    BY <2>1, <2>2, <2>3
  <2> QED BY <2>4 DEF n
<1>5. ASSUME NEW l \in Nat, l <= d
      PROVE  (s + l) % P \in 0 .. P - 1 /\ (c - ((s + l) % P)) % P = d - l
  <2> DEFINE t == (s + l) % P
  <2>1. s + l >= 0 /\ s + l < P + P
    BY <1>1, <1>5
  <2>2. t \in 0 .. P - 1 /\ t = IF s + l < P THEN s + l ELSE s + l - P
    BY <2>1
  <2>3. ASSUME NEW n \in 0 .. P - 1 PROVE (c - n) % P = IF c >= n THEN c - n ELSE c - n + P
    OBVIOUS
  <2>4. (c - t) % P = IF c >= t THEN c - t ELSE c - t + P
    BY <2>2, <2>3
  <2>5. d \in Int /\ d = IF c >= s THEN c - s ELSE c - s + P
    BY <1>1
  <2> HIDE DEF d, t
  <2>6. (c - t) % P = d - l
    BY <1>5, <2>2, <2>4, <2>5
  <2> QED BY <2>2, <2>6 DEF t
<1> QED BY <1>1, <1>2, <1>4, <1>5

\* A long has at least as many values as a cell, which has two halves.
LEMMA Widths ==
    /\ Values[LongBits] \in Nat \ {0} /\ Values[CellBits] \in Nat \ {0} /\ Values[CellBits - 1] \in Nat \ {0}
    /\ Values[CellBits] = 2 * Values[CellBits - 1] /\ Values[CellBits] <= Values[LongBits]
<1>1. CellBits \in 0 .. LongBits /\ CellBits # 0 /\ CellBits - 1 \in 0 .. LongBits /\ LongBits \in 0 .. LongBits
      /\ LongBits \in Nat
  BY HostAssumption
<1>2. \A n \in 0 .. LongBits : Values[n] \in Nat \ {0} /\ Values[n] = IF n = 0 THEN 1 ELSE 2 * Values[n - 1]
  BY ValuesAre
<1> DEFINE T == {n \in 0 .. LongBits : CellBits <= n => Values[CellBits] <= Values[n]}
<1>3. 0 \in T
  BY <1>1, HostAssumption
<1>4. ASSUME NEW n \in 0 .. LongBits, n \in T, n < LongBits PROVE n + 1 \in T
  <2>1. n + 1 \in 0 .. LongBits /\ n + 1 # 0 /\ (n + 1) - 1 = n
    BY <1>1, <1>4
  <2>2. Values[n + 1] = 2 * Values[n] /\ Values[n] \in Nat
    BY <1>2, <2>1
  <2>3. CellBits <= n => Values[CellBits] <= Values[n]
    BY <1>4
  <2>4. Values[CellBits] \in Nat
    BY <1>1, <1>2
  <2>5. CASE CellBits = n + 1
    BY <2>1, <2>4, <2>5
  <2>6. CASE CellBits # n + 1
    <3>1. CellBits <= n + 1 => CellBits <= n
      BY <1>1, <2>6
    <3>2. CellBits <= n + 1 => Values[CellBits] <= Values[n + 1]
      BY <2>2, <2>3, <2>4, <3>1
    <3> QED BY <2>1, <3>2
  <2> QED BY <2>5, <2>6
<1>5. 0 .. LongBits \subseteq T
  <2> HIDE DEF T
  <2> QED BY <1>1, <1>3, <1>4, UpTo
<1>6. Values[CellBits] <= Values[LongBits]
  BY <1>1, <1>5
<1> QED BY <1>1, <1>2, <1>6

\* The stamp of a tick is one more than that of the tick before, on the circle of
\* the long, unless a wider long is extended with another sign.
LEMMA Stamps ==
    ASSUME NEW c \in 0 .. Values[CellBits] - 1
    PROVE  /\ Stamp(c) \in 0 .. Values[LongBits] - 1
           /\ (c + 1) % Values[CellBits] \in 0 .. Values[CellBits] - 1
           /\ ~(CellBits < LongBits /\ (c + 1) % Values[CellBits] = Values[CellBits - 1]) =>
                 Stamp((c + 1) % Values[CellBits]) = (Stamp(c) + 1) % Values[LongBits]
<1> DEFINE P == Values[LongBits]
           Q == Values[CellBits]
           H == Values[CellBits - 1]
           n == (c + 1) % Q
           S(x) == IF x < H THEN x ELSE P - Q + x
<1>1. P \in Nat \ {0} /\ Q \in Nat \ {0} /\ H \in Nat \ {0} /\ Q = 2 * H /\ Q <= P
  BY Widths
<1>2. \A x : Stamp(x) = S(x)
  BY DEF Stamp
<1>3. CellBits < LongBits \/ P = Q
  BY HostAssumption
<1> HIDE DEF P, Q, H
<1>4. n \in 0 .. Q - 1 /\ n = IF c + 1 < Q THEN c + 1 ELSE 0
  BY <1>1 DEF Q
<1> HIDE DEF n
<1>5. c \in 0 .. Q - 1
  BY DEF Q
<1>6. S(c) \in 0 .. P - 1
  BY <1>1, <1>5
<1>7. (S(c) + 1) % P = IF S(c) + 1 < P THEN S(c) + 1 ELSE 0
  <2> DEFINE s == S(c)
  <2> HIDE DEF s
  <2>1. s \in 0 .. P - 1
    BY <1>6 DEF s
  <2>2. (s + 1) % P = IF s + 1 < P THEN s + 1 ELSE 0
    BY <1>1, <2>1
  <2> QED BY <2>2 DEF s
<1>8. ASSUME n # H \/ P = Q PROVE S(n) = IF S(c) + 1 < P THEN S(c) + 1 ELSE 0
  <2>1. CASE c + 1 = Q
    BY <1>1, <1>4, <1>5, <2>1
  <2>2. CASE c + 1 < Q
    BY <1>1, <1>4, <1>5, <1>8, <2>2
  <2> QED BY <1>1, <1>5, <2>1, <2>2
<1>9. ~(CellBits < LongBits /\ n = H) => S(n) = (S(c) + 1) % P
  BY <1>3, <1>7, <1>8
<1> QED BY <1>2, <1>4, <1>6, <1>9 DEF P, Q, H, n

-----------------------------------------------------------------------------
(* The invariant.                                                          *)

\* The idle functions that are still to look for an event belong to modules
\* that the script has a public function for, and one of them has called the
\* public function that runs.
TurnInv ==
    /\ \A i \in DOMAIN turn : Served(turn[i])
    /\ running \in Publics => turn # <<>>

ArmedInv == armed <=> timer.limit > 0 /\ "@timer" \in script

HostInv == TypeOK /\ ChainInv /\ TurnInv /\ ArmedInv /\ TimerMeasure

LEMMA Tails ==
    ASSUME NEW S, NEW s \in Seq(S), s # <<>>, NEW Q, \A i \in DOMAIN s : s[i] \in Q
    PROVE  Tail(s) \in Seq(S) /\ \A i \in DOMAIN Tail(s) : Tail(s)[i] \in Q
  OBVIOUS

\* Returning from an idle function.
LEMMA Leaves ==
    ASSUME HostInv, turn # <<>>, NEW ok \in BOOLEAN, Leave(ok), UNCHANGED script
    PROVE  /\ running' = "none" /\ turn' \in Seq(ModuleNames)
           /\ phase' \in {"load", "main", "asleep", "events", "exit"}
           /\ TurnInv'
<1> DEFINE Q == {m \in ModuleNames : Served(m)}
<1>1. turn \in Seq(ModuleNames) /\ \A i \in DOMAIN turn : turn[i] \in Q
  BY DEF HostInv, TypeOK, TurnInv
<1> HIDE DEF Q
<1>2. turn' \in Seq(ModuleNames) /\ \A i \in DOMAIN turn' : turn'[i] \in Q
  BY <1>1, Tails DEF Leave
<1>3. running' = "none" /\ phase' \in {"load", "main", "asleep", "events", "exit"}
  BY DEF Leave, HostInv, TypeOK
<1>4. \A i \in DOMAIN turn' : Wanted(turn'[i]) \cap script' # {}
  BY <1>2 DEF Q, Served
<1>5. "none" \notin Publics
  BY DEF Publics
<1> QED BY <1>2, <1>3, <1>4, <1>5 DEF TurnInv, Served

\* What the chain of idle functions says stays true as long as no module is
\* initialized.
LEMMA ChainStays == ChainInv /\ UNCHANGED <<script, chain>> => ChainInv'
  BY DEF ChainInv, chain, Served

LEMMA TurnStays == TurnInv /\ UNCHANGED <<script, turn, running>> => TurnInv'
  BY DEF TurnInv, Served

LEMMA MeasureStays == TimerMeasure /\ UNCHANGED <<clock, timer, armed, elapsed, crossed>> => TimerMeasure'
  BY DEF TimerMeasure, Passed, Stamp

\* The Init of a module.
LEMMA InitStep == HostInv /\ InitModule => HostInv'
<1> SUFFICES ASSUME HostInv, InitModule PROVE HostInv'
  OBVIOUS
<1> DEFINE m == Loaded[inits + 1]
<1>1. /\ inits + 1 \in 1 .. Len(Loaded) /\ inits' = inits + 1 /\ inits \in Nat
      /\ m \in ModuleNames /\ script' = script
  BY HostAssumption DEF InitModule, HostInv, TypeOK
<1>2. ChainInv'
  <2>1. CASE Wanted(m) \cap script # {} /\ prev' = [prev EXCEPT ![m] = idle] /\ idle' = m
    <3>1. prev' = [prev EXCEPT ![m] = idle] /\ idle' = m
      BY <2>1
    <3> HIDE DEF m
    <3>2. /\ inits' \in 0 .. Len(Loaded) /\ idle' \in ModuleNames \cup {"none"}
          /\ prev' \in [ModuleNames -> ModuleNames \cup {"none"}]
      BY <1>1, <3>1 DEF HostInv, ChainInv
    <3>3. Wanted(idle') \cap script' # {} /\ \E i \in 1 .. inits' : Loaded[i] = idle'
      BY <1>1, <2>1, <3>1 DEF m
    <3>4. ASSUME NEW k \in ModuleNames, prev'[k] # "none"
          PROVE  /\ Wanted(prev'[k]) \cap script' # {}
                 /\ \E i, j \in 1 .. inits' : i < j /\ Loaded[i] = prev'[k] /\ Loaded[j] = k
      <4>1. CASE k = m
        <5>1. prev'[k] = idle /\ idle # "none"
          BY <1>1, <3>1, <3>4, <4>1 DEF HostInv, ChainInv
        <5>2. Served(idle) /\ \E i \in 1 .. inits : Loaded[i] = idle
          BY <5>1 DEF HostInv, ChainInv
        <5>3. PICK i \in 1 .. inits : Loaded[i] = idle
          BY <5>2
        <5>4. i \in 1 .. inits' /\ inits + 1 \in 1 .. inits' /\ i < inits + 1 /\ Loaded[inits + 1] = k
          BY <1>1, <4>1 DEF m
        <5> QED BY <1>1, <5>1, <5>2, <5>3, <5>4 DEF Served
      <4>2. CASE k # m
        <5>1. prev'[k] = prev[k]
          BY <3>1, <4>2 DEF HostInv, ChainInv
        <5>2. Served(prev[k])
          BY <3>4, <5>1 DEF HostInv, ChainInv
        <5>3. PICK i, j \in 1 .. inits : i < j /\ Loaded[i] = prev[k] /\ Loaded[j] = k
          BY <3>4, <5>1 DEF HostInv, ChainInv
        <5>4. i \in 1 .. inits' /\ j \in 1 .. inits'
          BY <1>1
        <5> QED BY <1>1, <5>1, <5>2, <5>3, <5>4 DEF Served
      <4> QED BY <4>1, <4>2
    <3> QED BY <3>2, <3>3, <3>4 DEF ChainInv, Served
  <2>2. CASE UNCHANGED <<prev, idle>>
    <3>1. \A i \in 1 .. inits : i \in 1 .. inits'
      BY <1>1
    <3> QED BY <1>1, <2>2, <3>1 DEF HostInv, ChainInv, Served
  <2> QED BY <2>1, <2>2 DEF InitModule
<1>3. UNCHANGED <<control, events, debug>>
  BY DEF InitModule
<1>4. TypeOK'
  BY <1>1, <1>2, <1>3 DEF HostInv, TypeOK, ChainInv, control, events, debug
<1> QED
  BY <1>1, <1>2, <1>3, <1>4, TurnStays, MeasureStays
     DEF HostInv, ArmedInv, control, events, debug

\* Actions that leave the timer and the chain alone.
Quiet == UNCHANGED <<script, chain, clock, timer, armed, elapsed, crossed>>

LEMMA QuietStep ==
    ASSUME HostInv, Quiet, TypeOK', TurnInv'
    PROVE  HostInv'
  BY ChainStays, MeasureStays DEF HostInv, Quiet, ArmedInv

LEMMA QuietTypes ==
    ASSUME HostInv, Quiet,
           phase' \in {"load", "main", "asleep", "events", "exit"}, wake' \in Nat,
           turn' \in Seq(ModuleNames), running' \in Publics \cup {"main", "none"}, loops' \in BOOLEAN,
           keys' \in 0 .. MaxPending, dgrams' \in Seq({"string", "packet"}),
           {bound', abort', hook', nested'} \subseteq BOOLEAN, TurnInv'
    PROVE  HostInv'
<1>1. TypeOK'
  BY DEF HostInv, Quiet, TypeOK, chain
<1> QED BY <1>1, QuietStep

\* The script sets the timer: time is measured from now.
LEMMA SetTimerStep ==
    ASSUME HostInv, NEW limit \in Limits, NEW single \in BOOLEAN, SetTimer(limit, single)
    PROVE  HostInv'
<1> DEFINE P == Values[LongBits]
           now == Stamp(clock)
<1>1. P \in Nat \ {0} /\ now \in 0 .. P - 1 /\ clock \in 0 .. Values[CellBits] - 1
  BY Widths, Stamps DEF HostInv, TypeOK
<1>2. /\ timer' = [stamp |-> now, limit |-> limit, repeat |-> ~single]
      /\ elapsed' = 0 /\ armed' = (limit > 0 /\ "@timer" \in script) /\ crossed' = FALSE
      /\ UNCHANGED <<script, chain, control, debug, clock, keys, dgrams, bound>>
  BY DEF SetTimer
<1>3. limit \in Nat
  BY HostAssumption
<1>4. TypeOK'
  <2>1. 0 \in 0 .. MaxElapsed /\ timer' \in [stamp : 0 .. P - 1, limit : Nat, repeat : BOOLEAN]
    BY <1>1, <1>2, <1>3, HostAssumption
  <2>2. armed' \in BOOLEAN
    BY <1>2
  <2> QED BY <1>2, <2>1, <2>2 DEF HostInv, TypeOK, chain, control, debug
<1>5. TimerMeasure'
  <2>1. Passed' = (now - now) % P
    BY <1>2 DEF Passed, Stamp
  <2> HIDE DEF now, P
  <2>2. now - now = 0 /\ 0 % P = 0
    BY <1>1
  <2> QED BY <1>2, <2>1, <2>2 DEF TimerMeasure
<1>6. ArmedInv'
  BY <1>2 DEF ArmedInv
<1> QED BY <1>2, <1>4, <1>5, <1>6, ChainStays, TurnStays DEF HostInv, control

\* amx_TimeIdle: what is left of the time is what the poll is late.
LEMMA PollTimeStep == HostInv /\ PollTime => HostInv'
<1> SUFFICES ASSUME HostInv, PollTime PROVE HostInv'
  OBVIOUS
<1> DEFINE P == Values[LongBits]
           now == Stamp(clock)
<1>1. /\ P \in Nat \ {0} /\ now \in 0 .. P - 1 /\ timer.stamp \in 0 .. P - 1
      /\ timer.limit \in Nat
  BY Widths, Stamps DEF HostInv, TypeOK
<1>2. turn # <<>> /\ Served("time") /\ UNCHANGED <<script, chain, clock, crossed>>
      /\ UNCHANGED <<wake, loops, debug, keys, dgrams, bound>>
  <2>1. turn # <<>> /\ Head(turn) = "time" /\ turn \in Seq(ModuleNames)
    BY DEF PollTime, Polls, HostInv, TypeOK
  <2>2. 1 \in DOMAIN turn /\ turn[1] = "time"
    BY <2>1
  <2> QED BY <2>1, <2>2 DEF PollTime, HostInv, TurnInv
<1>3. "@timer" \in script
  BY <1>2 DEF Served, Wanted
<1>4. CASE ~Due
  <2>1. Leave(TRUE) /\ UNCHANGED <<timer, elapsed, armed>>
    BY <1>4 DEF PollTime
  <2>2. /\ running' = "none" /\ turn' \in Seq(ModuleNames)
        /\ phase' \in {"load", "main", "asleep", "events", "exit"} /\ TurnInv'
    BY <1>2, <2>1, Leaves
  <2> QED BY <1>2, <2>1, <2>2, QuietTypes DEF Quiet, HostInv, TypeOK, debug
<1>5. CASE Due
  <2>1. armed /\ timer.limit > 0 /\ (~crossed => Passed = elapsed /\ timer.limit <= elapsed)
    BY <1>1, <1>3, <1>5 DEF Due, HostInv, ArmedInv, TimerMeasure
  <2>2. /\ running' = "@timer" /\ UNCHANGED <<phase, turn>>
        /\ timer' = IF timer.repeat THEN [timer EXCEPT !.stamp = (@ + timer.limit) % P]
                                    ELSE [timer EXCEPT !.limit = 0]
        /\ elapsed' = IF timer.repeat /\ timer.limit <= elapsed THEN elapsed - timer.limit ELSE elapsed
        /\ armed' = timer.repeat
    BY <1>5 DEF PollTime, Enter
  <2>3. Passed = (now - timer.stamp) % P
    BY DEF Passed
  <2>4. /\ (timer.stamp + timer.limit) % P \in 0 .. P - 1
        /\ ~crossed => (now - ((timer.stamp + timer.limit) % P)) % P = elapsed - timer.limit
    <3> HIDE DEF P, now
    <3>1. \A l \in Nat : l <= (now - timer.stamp) % P =>
             /\ (timer.stamp + l) % P \in 0 .. P - 1
             /\ (now - ((timer.stamp + l) % P)) % P = ((now - timer.stamp) % P) - l
      BY <1>1, Wraps
    <3>2. ~crossed => timer.limit <= (now - timer.stamp) % P /\ (now - timer.stamp) % P = elapsed
      BY <2>1, <2>3
    <3>3. (timer.stamp + timer.limit) % P \in 0 .. P - 1
      <4> DEFINE s == timer.stamp + timer.limit
      <4>1. s \in Int
        BY <1>1
      <4> HIDE DEF s
      <4>2. s % P \in 0 .. P - 1
        BY <1>1, <4>1
      <4> QED BY <4>2 DEF s
    <3> QED BY <1>1, <3>1, <3>2, <3>3
  <2>5. elapsed' \in 0 .. MaxElapsed
    <3>1. elapsed \in 0 .. MaxElapsed /\ MaxElapsed \in Nat
      BY HostAssumption DEF HostInv, TypeOK
    <3>2. timer.limit <= elapsed => elapsed - timer.limit \in 0 .. MaxElapsed
      BY <1>1, <3>1
    <3> QED BY <2>2, <3>1, <3>2
  <2>6. timer \in [stamp : 0 .. P - 1, limit : Nat, repeat : BOOLEAN]
    BY DEF HostInv, TypeOK
  <2>7. timer' \in [stamp : 0 .. P - 1, limit : Nat, repeat : BOOLEAN] /\ armed' \in BOOLEAN
    BY <2>2, <2>4, <2>6
  <2>8. TypeOK'
    BY <1>2, <2>2, <2>5, <2>7 DEF HostInv, TypeOK, chain, debug, Publics
  <2>9. TimerMeasure'
    <3>1. SUFFICES ASSUME timer.repeat, ~crossed PROVE Passed' = elapsed'
      BY <1>2, <2>2 DEF TimerMeasure
    <3>2. timer'.stamp = (timer.stamp + timer.limit) % P /\ clock' = clock
      BY <1>2, <2>2, <2>6, <3>1
    <3>3. Passed' = (now - timer'.stamp) % P
      BY <3>2 DEF Passed, Stamp
    <3> QED BY <2>1, <2>2, <2>4, <3>1, <3>2, <3>3
  <2>10. ArmedInv'
    <3>1. timer.repeat => timer'.limit = timer.limit
      BY <2>2, <2>6
    <3>2. ~timer.repeat => timer'.limit = 0
      BY <2>2, <2>6
    <3> QED BY <1>2, <1>3, <2>1, <2>2, <3>1, <3>2 DEF ArmedInv
  <2>11. TurnInv'
    BY <1>2, <2>2 DEF HostInv, TurnInv, Served
  <2> QED BY <1>2, <2>8, <2>9, <2>10, <2>11, ChainStays DEF HostInv
<1> QED BY <1>4, <1>5

\* A tick is one more tick.
LEMMA TickStep == Prompt /\ HostInv /\ Tick => HostInv'
<1> SUFFICES ASSUME Prompt, HostInv, Tick PROVE HostInv'
  OBVIOUS
<1> DEFINE P == Values[LongBits]
           now == Stamp(clock)
<1>1. /\ P \in Nat \ {0} /\ now \in 0 .. P - 1 /\ timer.stamp \in 0 .. P - 1
      /\ clock \in 0 .. Values[CellBits] - 1
  BY Widths, Stamps DEF HostInv, TypeOK
<1>2. clock' = (clock + 1) % Values[CellBits] /\ clock' \in 0 .. Values[CellBits] - 1
      /\ crossed' = (crossed \/ (CellBits < LongBits /\ clock' = Values[CellBits - 1]))
  BY <1>1, Stamps DEF Tick
<1>3. /\ UNCHANGED <<script, chain, phase, turn, running, loops, debug, timer, keys, dgrams, bound, armed>>
      /\ elapsed' = (IF armed THEN elapsed + 1 ELSE 0) /\ wake' \in Nat
      /\ (armed => elapsed < MaxElapsed) /\ elapsed \in 0 .. MaxElapsed
  BY DEF Tick, HostInv, TypeOK
<1>4. elapsed' \in 0 .. MaxElapsed
  BY <1>3, HostAssumption
<1>5. TypeOK'
  <2>1. crossed' \in BOOLEAN
    BY <1>2
  <2> QED BY <1>2, <1>3, <1>4, <2>1 DEF HostInv, TypeOK, chain, debug
<1>6. TimerMeasure'
  <2> SUFFICES ASSUME armed, ~crossed' PROVE Passed' = elapsed + 1
    BY <1>3 DEF TimerMeasure
  <2>1. ~crossed /\ ~(CellBits < LongBits /\ clock' = Values[CellBits - 1])
    BY <1>2
  <2>2. (now - timer.stamp) % P = elapsed
    BY <2>1 DEF HostInv, TimerMeasure, Passed
  <2>3. elapsed + 1 < P
    BY <1>1, <1>3, HostAssumption DEF Prompt
  <2>4. (((now + 1) % P) - timer.stamp) % P = elapsed + 1
    <3> HIDE DEF now, P
    <3> QED BY <1>1, <2>2, <2>3, Wraps
  <2>5. Stamp(clock') = (now + 1) % P
    BY <1>1, <1>2, <2>1, Stamps
  <2>6. Passed' = (Stamp(clock') - timer.stamp) % P
    BY <1>3 DEF Passed, Stamp
  <2> QED BY <2>4, <2>5, <2>6
<1> QED BY <1>3, <1>5, <1>6, ChainStays, TurnStays DEF HostInv, ArmedInv

\* Everything else leaves the time and the timer alone.
LEMMA OtherSteps ==
    ASSUME Once, HostInv,
           \/ StartMain \/ CallIdle \/ Resume \/ PollKeys \/ PollDGram \/ ScriptEnds \/ Loop \/ Break
           \/ KeyPress \/ Signal \/ \E kind \in {"string", "packet"} : Datagram(kind)
    PROVE  HostInv'
<1> USE DEF control, events, debug
<1>1. /\ phase \in {"load", "main", "asleep", "events", "exit"} /\ wake \in Nat
      /\ turn \in Seq(ModuleNames) /\ running \in Publics \cup {"main", "none"} /\ loops \in BOOLEAN
      /\ keys \in 0 .. MaxPending /\ dgrams \in Seq({"string", "packet"})
      /\ {bound, abort, hook, nested} \subseteq BOOLEAN /\ MaxPending \in Nat
  BY HostAssumption DEF HostInv, TypeOK
<1>2. "none" \notin Publics /\ "main" \notin Publics
  BY DEF Publics
<1>3. UNCHANGED <<script, turn, running>> => TurnInv'
  BY TurnStays DEF HostInv
<1>4. running' \notin Publics /\ UNCHANGED <<script, turn>> => TurnInv'
  BY DEF HostInv, TurnInv, Served
<1>5. ASSUME NEW f \in Publics, turn # <<>>, Enter(f), UNCHANGED script
      PROVE  running' = f /\ UNCHANGED <<phase, turn>> /\ TurnInv'
  BY <1>5 DEF Enter, HostInv, TurnInv, Served
<1>6. CASE StartMain
  BY <1>1, <1>2, <1>4, <1>6, QuietTypes DEF StartMain, Quiet
<1>7. CASE CallIdle
  <2>1. turn' = CallOrder /\ UNCHANGED <<script, running>> /\ running = "none"
    BY <1>7 DEF CallIdle
  <2>2. turn' \in Seq(ModuleNames) /\ \A i \in DOMAIN turn' : Served(turn'[i])
    BY <2>1, OrderServed DEF HostInv
  <2>3. TurnInv'
    BY <1>2, <2>1, <2>2 DEF TurnInv, Served
  <2> QED BY <1>1, <1>7, <2>2, <2>3, QuietTypes DEF CallIdle, Quiet
<1>8. CASE Resume
  BY <1>1, <1>2, <1>4, <1>8, QuietTypes DEF Resume, Quiet
<1>9. CASE PollKeys
  <2>1. turn # <<>> /\ UNCHANGED <<script, chain, wake, loops, debug, clock, timer, dgrams, bound, elapsed, armed, crossed>>
    BY <1>9 DEF PollKeys, Polls
  <2>2. CASE keys > 0
    <3>1. keys' \in 0 .. MaxPending /\ Enter("@keypressed") /\ "@keypressed" \in Publics
      BY <1>1, <1>9, <2>2 DEF PollKeys, Publics
    <3> QED BY <1>1, <1>5, <2>1, <3>1, QuietTypes DEF Quiet
  <2>3. CASE ~(keys > 0)
    <3>1. Leave(TRUE) /\ keys' = keys
      BY <1>9, <2>3 DEF PollKeys
    <3>2. /\ running' = "none" /\ turn' \in Seq(ModuleNames)
          /\ phase' \in {"load", "main", "asleep", "events", "exit"} /\ TurnInv'
      BY <2>1, <3>1, Leaves
    <3> QED BY <1>1, <2>1, <3>1, <3>2, QuietTypes DEF Quiet
  <2> QED BY <2>2, <2>3
<1>10. CASE PollDGram
  <2>1. turn # <<>> /\ UNCHANGED <<script, chain, wake, loops, debug, clock, timer, keys, elapsed, armed, crossed>>
    BY <1>10 DEF PollDGram, Polls
  <2>2. ASSUME NEW ok \in BOOLEAN, Leave(ok), dgrams' = dgrams, bound' \in BOOLEAN PROVE HostInv'
    <3>1. /\ running' = "none" /\ turn' \in Seq(ModuleNames)
          /\ phase' \in {"load", "main", "asleep", "events", "exit"} /\ TurnInv'
      BY <2>1, <2>2, Leaves
    <3> QED BY <1>1, <2>1, <2>2, <3>1, QuietTypes DEF Quiet
  <2>3. ASSUME NEW kind, Deliver(kind), dgrams' \in Seq({"string", "packet"}), bound' \in BOOLEAN
        PROVE  HostInv'
    <3>1. CASE Enter(Route(kind))
      <4>1. Route(kind) \in Publics
        BY DEF Route, Publics
      <4>2. running' = Route(kind) /\ UNCHANGED <<phase, turn>> /\ TurnInv'
        BY <1>5, <2>1, <3>1, <4>1
      <4> QED BY <1>1, <2>1, <2>3, <4>1, <4>2, QuietTypes DEF Quiet
    <3>2. CASE Leave(FALSE)
      <4>1. /\ running' = "none" /\ turn' \in Seq(ModuleNames)
            /\ phase' \in {"load", "main", "asleep", "events", "exit"} /\ TurnInv'
        BY <2>1, <3>2, Leaves
      <4> QED BY <1>1, <2>1, <2>3, <4>1, QuietTypes DEF Quiet
    <3> QED BY <2>3, <3>1, <3>2 DEF Deliver
  <2>4. bound \in BOOLEAN /\ (dgrams # <<>> => Tail(dgrams) \in Seq({"string", "packet"}))
    BY <1>1
  <2> QED BY <1>1, <1>10, <2>2, <2>3, <2>4 DEF PollDGram
<1>11. CASE HandlerEnd
  <2>1. turn # <<>> /\ UNCHANGED <<script, chain, wake, loops, events, debug>>
    BY <1>11 DEF HandlerEnd, HostInv, TurnInv
  <2>2. PICK ok \in BOOLEAN : Leave(ok)
    BY <1>11 DEF HandlerEnd
  <2>3. /\ running' = "none" /\ turn' \in Seq(ModuleNames)
        /\ phase' \in {"load", "main", "asleep", "events", "exit"} /\ TurnInv'
    BY <2>1, <2>2, Leaves
  <2> QED BY <1>1, <2>1, <2>3, QuietTypes DEF Quiet
<1>12. CASE MainEnd
  BY <1>1, <1>2, <1>4, <1>12, QuietTypes DEF MainEnd, Quiet
<1>13. CASE MainSleep
  <2>1. wake' \in Nat
    BY <1>13, HostAssumption DEF MainSleep
  <2> QED BY <1>1, <1>2, <1>4, <1>13, <2>1, QuietTypes DEF MainSleep, Quiet
<1>14. CASE Loop
  BY <1>1, <1>3, <1>14, QuietTypes DEF Loop, Quiet
<1>15. CASE Break
  <2>1. CASE running = "main"
    BY <1>1, <1>2, <1>4, <1>15, <2>1, QuietTypes DEF Break, Quiet
  <2>2. CASE running # "main"
    <3>1. turn # <<>> /\ UNCHANGED <<script, chain, wake, events, debug>> /\ loops' = FALSE /\ Leave(FALSE)
      BY <1>1, <1>15, <2>2 DEF Break, HostInv, TurnInv
    <3>2. /\ running' = "none" /\ turn' \in Seq(ModuleNames)
          /\ phase' \in {"load", "main", "asleep", "events", "exit"} /\ TurnInv'
      BY <3>1, Leaves
    <3> QED BY <1>1, <3>1, <3>2, QuietTypes DEF Quiet
  <2> QED BY <2>1, <2>2
<1>16. CASE KeyPress
  <2>1. keys' \in 0 .. MaxPending
    BY <1>1, <1>16 DEF KeyPress
  <2> QED BY <1>1, <1>3, <1>16, <2>1, QuietTypes DEF KeyPress, Quiet
<1>17. CASE Signal
  BY <1>1, <1>3, <1>17, QuietTypes DEF Signal, Quiet
<1>18. ASSUME NEW kind \in {"string", "packet"}, Datagram(kind) PROVE HostInv'
  <2>1. dgrams' \in Seq({"string", "packet"})
    BY <1>1, <1>18 DEF Datagram
  <2> QED BY <1>1, <1>3, <1>18, <2>1, QuietTypes DEF Datagram, Quiet
<1> QED BY <1>6, <1>7, <1>8, <1>9, <1>10, <1>11, <1>12, <1>13, <1>14, <1>15, <1>16, <1>17, <1>18
        DEF ScriptEnds

-----------------------------------------------------------------------------
(* The theorems.                                                           *)

LEMMA Inductive == ASSUME Once, Prompt PROVE Spec => []HostInv
<1>1. Init => HostInv
  <2> SUFFICES ASSUME Init PROVE HostInv
    OBVIOUS
  <2> USE HostAssumption DEF Init
  <2>1. ChainInv
    BY DEF ChainInv
  <2>2. TurnInv /\ ArmedInv /\ TimerMeasure
    BY DEF TurnInv, ArmedInv, TimerMeasure, Publics
  <2>3. 0 \in 0 .. Values[CellBits] - 1 /\ 0 \in 0 .. Values[LongBits] - 1
    BY Widths
  <2>4. timer \in [stamp : 0 .. Values[LongBits] - 1, limit : Nat, repeat : BOOLEAN]
    BY <2>3
  <2>5. /\ turn \in Seq(ModuleNames) /\ dgrams \in Seq({"string", "packet"})
        /\ inits \in 0 .. Len(Loaded) /\ keys \in 0 .. MaxPending /\ elapsed \in 0 .. MaxElapsed
    OBVIOUS
  <2>6. {bound, abort, hook, nested, armed, crossed} \subseteq BOOLEAN
    OBVIOUS
  <2>7. TypeOK
    BY <2>3, <2>4, <2>5, <2>6 DEF TypeOK
  <2> QED BY <2>1, <2>2, <2>7 DEF HostInv
<1>2. HostInv /\ [Next]_vars => HostInv'
  <2> SUFFICES ASSUME HostInv, [Next]_vars PROVE HostInv'
    OBVIOUS
  <2>1. CASE UNCHANGED vars
    <3>1. Quiet /\ TypeOK' /\ TurnInv'
      BY <2>1, TurnStays DEF vars, Quiet, chain, HostInv, TypeOK
    <3> QED BY <3>1, QuietStep
  <2>2. ASSUME NEW limit \in Limits, NEW single \in BOOLEAN, SetTimer(limit, single) PROVE HostInv'
    BY <2>2, SetTimerStep
  <2> QED
    BY <2>1, <2>2, InitStep, PollTimeStep, TickStep, OtherSteps DEF Next, HostStep, ScriptEnds
<1> QED BY <1>1, <1>2, PTL DEF Spec

\* The variables keep their types; in particular a machine's chain of idle
\* functions ends, and a function of the script only runs inside one.
THEOREM TypeCorrect == ASSUME Once, Prompt PROVE Spec => []TypeOK
<1>1. HostInv => TypeOK
  BY DEF HostInv
<1> QED BY <1>1, Inductive, PTL

\* The timer measures real time, for every width of cells and longs, every limit
\* and every schedule of the polls, over all wraps of the two counters, until a
\* long that is wider than a cell is extended with another sign.
THEOREM TimerMeasures == ASSUME Once, Prompt PROVE Spec => []TimerMeasure
<1>1. HostInv => TimerMeasure
  BY DEF HostInv
<1> QED BY <1>1, Inductive, PTL
=============================================================================
