----------------------------- MODULE Iteration -----------------------------
(***************************************************************************)
(* Facts about the natural numbers and about recursive functions that the  *)
(* proofs of several components need.  A definition f[n \in S] == body is  *)
(* a choice of some f with f = [n \in S |-> body]: nothing is known of it  *)
(* before such an f is shown to exist.  Recurses shows it for a recursion  *)
(* that counts to a bound, whatever the step; its proof is an induction,   *)
(* by the least counterexample.                                            *)
(***************************************************************************)
EXTENDS Integers, WellFoundedInduction, TLAPS

\* A nonempty set of naturals has a least element.
LEMMA Least ==
    ASSUME NEW T \in SUBSET Nat, T # {}
    PROVE  \E n \in T : \A m \in T : n <= m
<1>1. IsWellFoundedOn(OpToRel(<, Nat), Nat)
  BY NatLessThanWellFounded
<1>2. PICK n \in T : \A m \in T : ~(<<m, n>> \in OpToRel(<, Nat))
  BY <1>1, WFMin
<1>3. \A m \in T : ~(m < n)
  BY <1>2 DEF OpToRel
<1> QED BY <1>3

\* Induction up to N: what holds of 0, and of n + 1 below N if of n, holds of
\* 0 .. N.
LEMMA UpTo ==
    ASSUME NEW N \in Nat, NEW T, 0 \in T, \A n \in 0 .. N : n \in T /\ n < N => n + 1 \in T
    PROVE  0 .. N \subseteq T
<1> SUFFICES ASSUME (0 .. N) \ T # {} PROVE FALSE
  OBVIOUS
<1>1. PICK n \in (0 .. N) \ T : \A m \in (0 .. N) \ T : n <= m
  <2>1. (0 .. N) \ T \in SUBSET Nat
    OBVIOUS
  <2> QED BY <2>1, Least
<1>2. n # 0 /\ n - 1 \in 0 .. N /\ n - 1 < N /\ n - 1 + 1 = n
  BY <1>1
<1>3. n - 1 \in T
  BY <1>1, <1>2
<1> QED BY <1>1, <1>2, <1>3

\* f goes along next, from the elements of rank 0, where it is given by c;
\* step says what follows from an element and the value at the next one.
Follows(f, S, X, rank, next, c, step) ==
    /\ f \in [S -> X]
    /\ \A m \in S : f[m] = IF rank[m] = 0 THEN c[m] ELSE step[<<m, f[next[m]]>>]

\* A recursion that goes to a lower rank has a solution.
LEMMA Descends ==
    ASSUME NEW N \in Nat, NEW S, NEW X, NEW rank \in [S -> 0 .. N], NEW next \in [S -> S],
           NEW c \in [S -> X], NEW step \in [S \X X -> X],
           \A m \in S : rank[m] # 0 => rank[next[m]] < rank[m]
    PROVE  \E f : Follows(f, S, X, rank, next, c, step)
<1> DEFINE Value(f, m) == IF rank[m] = 0 THEN c[m] ELSE step[<<m, f[next[m]]>>]
           Solves(k, f) == \A m \in S : rank[m] <= k => f[m] = Value(f, m)
           T == {k \in 0 .. N : \E f \in [S -> X] : Solves(k, f)}
<1>1. 0 \in T
  <2>1. Solves(0, c) /\ 0 \in 0 .. N
    <3>1. \A m \in S : rank[m] \in 0 .. N /\ (rank[m] <= 0 => rank[m] = 0)
      OBVIOUS
    <3> QED BY <3>1
  <2>2. \E f \in [S -> X] : Solves(0, f)
    <3> HIDE DEF Solves
    <3> QED BY <2>1
  <2> QED BY <2>1, <2>2
<1>2. ASSUME NEW k \in 0 .. N, k \in T, k < N PROVE k + 1 \in T
  <2>1. PICK f \in [S -> X] : Solves(k, f)
    BY <1>2
  <2> DEFINE g == [m \in S |-> Value(f, m)]
  <2>2. ASSUME NEW m \in S PROVE Value(f, m) \in X
    <3>1. <<m, f[next[m]]>> \in S \X X
      OBVIOUS
    <3> QED BY <3>1
  <2>3. g \in [S -> X]
    <3> HIDE DEF Value
    <3> QED BY <2>2
  <2>4. ASSUME NEW m \in S, rank[m] <= k + 1 PROVE g[m] = Value(g, m)
    <3>1. rank[m] # 0 => next[m] \in S /\ rank[next[m]] <= k
      <4>1. rank[m] \in 0 .. N /\ rank[next[m]] \in 0 .. N
        OBVIOUS
      <4> QED BY <2>4, <4>1
    <3>2. rank[m] # 0 => g[next[m]] = f[next[m]]
      <4> HIDE DEF Value
      <4> QED BY <2>1, <3>1
    <3>3. g[m] = Value(f, m)
      OBVIOUS
    <3> HIDE DEF g
    <3> QED BY <3>2, <3>3
  <2>5. k + 1 \in 0 .. N
    BY <1>2
  <2> HIDE DEF g, Value
  <2> QED BY <2>3, <2>4, <2>5
<1> HIDE DEF T
<1>3. 0 .. N \subseteq T
  BY <1>1, <1>2, UpTo
<1>4. N \in T
  BY <1>3
<1>5. PICK f \in [S -> X] : Solves(N, f)
  BY <1>4 DEF T
<1>6. \A m \in S : rank[m] <= N
  OBVIOUS
<1> QED BY <1>5, <1>6 DEF Follows

\* f counts from c to N: step says what follows from the number reached and
\* the value before.
Iterates(f, N, X, c, step) ==
    /\ f \in [0 .. N -> X]
    /\ \A n \in 0 .. N : f[n] = IF n = 0 THEN c ELSE step[<<n, f[n - 1]>>]

\* A recursion that counts to a bound has a solution.
LEMMA Recurses ==
    ASSUME NEW N \in Nat, NEW X, NEW c \in X, NEW step \in [(1 .. N) \X X -> X]
    PROVE  \E f : Iterates(f, N, X, c, step)
<1> DEFINE S == 0 .. N
           rank == [n \in S |-> n]
           next == [n \in S |-> IF n = 0 THEN 0 ELSE n - 1]
           first == [n \in S |-> c]
           on == [p \in S \X X |-> IF p[1] = 0 THEN c ELSE step[p]]
<1>1. rank \in [S -> 0 .. N] /\ next \in [S -> S] /\ first \in [S -> X]
  OBVIOUS
<1>2. on \in [S \X X -> X]
  <2> SUFFICES ASSUME NEW p \in S \X X, p[1] # 0 PROVE step[p] \in X
    OBVIOUS
  <2>1. p = <<p[1], p[2]>> /\ p[1] \in 1 .. N /\ p[2] \in X
    OBVIOUS
  <2>2. p \in (1 .. N) \X X
    BY <2>1
  <2> QED BY <2>2
<1>3. \A m \in S : rank[m] # 0 => rank[next[m]] < rank[m]
  OBVIOUS
<1>4. PICK f : Follows(f, S, X, rank, next, first, on)
  <2> HIDE DEF S, rank, next, first, on
  <2>1. rank \in [S -> 0 .. N]
    BY <1>1
  <2> QED BY <1>1, <1>2, <1>3, <2>1, Descends
<1>5. ASSUME NEW n \in 0 .. N PROVE f[n] = IF n = 0 THEN c ELSE step[<<n, f[n - 1]>>]
  <2>1. f[n] = IF rank[n] = 0 THEN first[n] ELSE on[<<n, f[next[n]]>>]
    BY <1>4 DEF Follows
  <2>2. f \in [0 .. N -> X]
    BY <1>4 DEF Follows
  <2>3. n # 0 => <<n, f[n - 1]>> \in S \X X /\ on[<<n, f[n - 1]>>] = step[<<n, f[n - 1]>>]
    BY <2>2
  <2>4. rank[n] = n /\ first[n] = c /\ (n # 0 => next[n] = n - 1)
    OBVIOUS
  <2> HIDE DEF rank, first, on, next
  <2> QED BY <2>1, <2>3, <2>4
<1> QED BY <1>4, <1>5 DEF Iterates, Follows

\* f repeats step from c on, N times, and never leaves T, a set of pairs of a
\* number of steps and a value.
Repeats(f, N, c, step, T) ==
    /\ f = [n \in 0 .. N |-> IF n = 0 THEN c ELSE step[<<n, f[n - 1]>>]]
    /\ \A n \in 0 .. N : <<n, f[n]>> \in T

\* A loop with an invariant has a run, and the run keeps the invariant: step
\* need not be defined elsewhere.
LEMMA Loops ==
    ASSUME NEW N \in Nat, NEW X, NEW c, NEW step, NEW T \in SUBSET ((0 .. N) \X X),
           <<0, c>> \in T,
           \A n \in 0 .. N, x \in X :
               <<n, x>> \in T /\ n < N => <<n + 1, step[<<n + 1, x>>]>> \in T
    PROVE  \E f : Repeats(f, N, c, step, T)
<1> DEFINE inside == [q \in (1 .. N) \X X |->
                        IF <<q[1] - 1, q[2]>> \in T THEN step[q] ELSE c]
<1>1. c \in X
  OBVIOUS
<1>2. ASSUME NEW n \in 1 .. N, NEW x \in X, <<n - 1, x>> \in T
      PROVE  <<n, step[<<n, x>>]>> \in T
  <2>1. n - 1 \in 0 .. N /\ n - 1 < N /\ n - 1 + 1 = n
    OBVIOUS
  <2> QED BY <1>2, <2>1
<1>3. inside \in [(1 .. N) \X X -> X]
  <2> SUFFICES ASSUME NEW q \in (1 .. N) \X X, <<q[1] - 1, q[2]>> \in T PROVE step[q] \in X
    BY <1>1
  <2>1. q[1] \in 1 .. N /\ q[2] \in X /\ q = <<q[1], q[2]>>
    OBVIOUS
  <2>2. <<q[1], step[<<q[1], q[2]>>]>> \in T
    BY <1>2, <2>1
  <2>3. <<q[1], step[q]>> \in (0 .. N) \X X
    BY <2>1, <2>2
  <2> QED BY <2>3
<1>4. PICK f : Iterates(f, N, X, c, inside)
  <2> HIDE DEF inside
  <2> QED BY <1>1, <1>3, Recurses
<1>5. f \in [0 .. N -> X] /\ \A n \in 0 .. N : f[n] = IF n = 0 THEN c ELSE inside[<<n, f[n - 1]>>]
  BY <1>4 DEF Iterates
<1>6. ASSUME NEW n \in 1 .. N, <<n - 1, f[n - 1]>> \in T
      PROVE  f[n] = step[<<n, f[n - 1]>>] /\ <<n, f[n]>> \in T
  <2>1. f[n - 1] \in X /\ <<n, f[n - 1]>> \in (1 .. N) \X X /\ n # 0 /\ n \in 0 .. N
    BY <1>5
  <2>2. inside[<<n, f[n - 1]>>] = step[<<n, f[n - 1]>>]
    BY <1>6, <2>1
  <2>3. f[n] = step[<<n, f[n - 1]>>]
    <3> HIDE DEF inside
    <3> QED BY <1>5, <2>1, <2>2
  <2> QED BY <1>2, <1>6, <2>1, <2>3
<1>7. \A n \in 0 .. N : <<n, f[n]>> \in T
  <2> DEFINE U == {n \in 0 .. N : <<n, f[n]>> \in T}
  <2>1. 0 \in U
    BY <1>5
  <2>2. ASSUME NEW n \in 0 .. N, n \in U, n < N PROVE n + 1 \in U
    <3> DEFINE m == n + 1
    <3>1. m \in 1 .. N /\ m \in 0 .. N /\ m - 1 = n
      BY <2>2
    <3> HIDE DEF m
    <3>2. <<m - 1, f[m - 1]>> \in T
      BY <2>2, <3>1
    <3>3. <<m, f[m]>> \in T
      BY <1>6, <3>1, <3>2
    <3> QED BY <3>1, <3>3 DEF m
  <2> HIDE DEF U
  <2>3. 0 .. N \subseteq U
    BY <2>1, <2>2, UpTo
  <2> QED BY <2>3 DEF U
<1>8. ASSUME NEW n \in 0 .. N PROVE f[n] = IF n = 0 THEN c ELSE step[<<n, f[n - 1]>>]
  <2>1. n # 0 => n \in 1 .. N /\ n - 1 \in 0 .. N
    OBVIOUS
  <2> QED BY <1>5, <1>6, <1>7, <2>1
<1> HIDE DEF inside
<1>9. f = [n \in 0 .. N |-> IF n = 0 THEN c ELSE step[<<n, f[n - 1]>>]]
  BY <1>5, <1>8
<1> QED BY <1>7, <1>9 DEF Repeats
=============================================================================
