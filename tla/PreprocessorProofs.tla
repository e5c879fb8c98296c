------------------------- MODULE PreprocessorProofs -------------------------
(***************************************************************************)
(* Proofs about the reading of lines, for every set of modes and names and *)
(* all values of the bounds: what sc2.c notes while it reads agrees with   *)
(* what the lines mean.                                                    *)
(*                                                                         *)
(* The meaning keeps a record for every open file; the compiler keeps one  *)
(* set of variables and a stack.  The invariant says that the stack is the *)
(* concatenation of what each file saved (Held), that iflevel, skiplevel   *)
(* and ifstack note the frames of all files in one row (Nest), and that    *)
(* the place is that of the innermost file (Stands).  A directive that     *)
(* ends an expression is looked at twice: in between the meaning is ahead  *)
(* of the state by this one line (Again).                                  *)
(***************************************************************************)
EXTENDS Preprocessor, Iteration, TLAPS

-----------------------------------------------------------------------------
(* Sequences.                                                              *)

\* The end of a concatenation, and what is in front of it.
LEMMA Back ==
    ASSUME NEW V, NEW st \in Seq(V), NEW back \in Seq(V)
    PROVE  /\ Len(st \o back) = Len(st) + Len(back) /\ Len(st) \in Nat
           /\ \A k \in 0 .. Len(back) - 1 : (st \o back)[Len(st) + Len(back) - k] = back[Len(back) - k]
           /\ SubSeq(st \o back, 1, Len(st)) = st
<1>1. /\ st \o back \in Seq(V) /\ Len(st \o back) = Len(st) + Len(back)
      /\ Len(st) \in Nat /\ Len(back) \in Nat
  OBVIOUS
<1>2. \A i \in 1 .. Len(st) : (st \o back)[i] = st[i]
  OBVIOUS
<1>3. ASSUME NEW k \in 0 .. Len(back) - 1
      PROVE  (st \o back)[Len(st) + Len(back) - k] = back[Len(back) - k]
  OBVIOUS
<1>4. SubSeq(st \o back, 1, Len(st)) = st
  <2> DEFINE q == SubSeq(st \o back, 1, Len(st))
  <2>1. q \in Seq(V) /\ Len(q) = Len(st) /\ \A i \in 1 .. Len(st) : q[i] = (st \o back)[i]
    BY <1>1
  <2> HIDE DEF q
  <2> QED BY <1>1, <1>2, <2>1
<1> QED BY <1>1, <1>3, <1>4

\* A sequence is what is in front of its last element, and this element.
LEMMA Top ==
    ASSUME NEW V, NEW q \in Seq(V), q # <<>>
    PROVE  /\ Front(q) \in Seq(V) /\ Last(q) \in V /\ q = Append(Front(q), Last(q))
           /\ Len(Front(q)) = Len(q) - 1 /\ Len(q) \in Nat \ {0}
<1>1. Len(q) \in Nat \ {0}
  OBVIOUS
<1>2. Front(q) \in Seq(V) /\ Len(Front(q)) = Len(q) - 1 /\ \A i \in 1 .. Len(q) - 1 : Front(q)[i] = q[i]
  <2> DEFINE n == Len(q) - 1
  <2>1. n \in 0 .. Len(q)
    BY <1>1
  <2> HIDE DEF n
  <2>2. SubSeq(q, 1, n) \in Seq(V) /\ Len(SubSeq(q, 1, n)) = n /\ \A i \in 1 .. n : SubSeq(q, 1, n)[i] = q[i]
    BY <1>1, <2>1
  <2> QED BY <2>2 DEF Front, n
<1>3. Last(q) \in V /\ Last(q) = q[Len(q)]
  BY <1>1 DEF Last
<1>4. q = Append(Front(q), Last(q))
  BY <1>1, <1>2, <1>3
<1> QED BY <1>1, <1>2, <1>3, <1>4

\* What appending an element makes of a sequence.
LEMMA Appended ==
    ASSUME NEW V, NEW q \in Seq(V), NEW x \in V
    PROVE  /\ Append(q, x) \in Seq(V) /\ Append(q, x) # <<>>
           /\ Front(Append(q, x)) = q /\ Last(Append(q, x)) = x
           /\ Len(Append(q, x)) = Len(q) + 1 /\ Append(q, x)[Len(q) + 1] = x
           /\ \A i \in 1 .. Len(q) : Append(q, x)[i] = q[i]
           /\ \A y \in V : [Append(q, x) EXCEPT ![Len(q) + 1] = y] = Append(q, y)
<1> DEFINE a == Append(q, x)
<1>1. /\ a \in Seq(V) /\ a # <<>> /\ Len(a) = Len(q) + 1 /\ a[Len(q) + 1] = x
      /\ \A i \in 1 .. Len(q) : a[i] = q[i]
  OBVIOUS
<1>2. Len(q) \in Nat
  OBVIOUS
<1>3. Last(a) = x
  BY <1>1 DEF Last
<1>4. Front(a) = q
  <2>1. Front(a) \in Seq(V) /\ Len(Front(a)) = Len(q) /\ \A i \in 1 .. Len(q) : Front(a)[i] = a[i]
    <3> HIDE DEF a
    <3> QED BY <1>1, <1>2 DEF Front
  <2> HIDE DEF a
  <2> QED BY <1>1, <1>2, <2>1
<1>5. ASSUME NEW y \in V PROVE [a EXCEPT ![Len(q) + 1] = y] = Append(q, y)
  <2> DEFINE b == [a EXCEPT ![Len(q) + 1] = y]
  <2>1. b \in Seq(V) /\ Len(b) = Len(q) + 1 /\ b[Len(q) + 1] = y /\ \A i \in 1 .. Len(q) : b[i] = q[i]
    <3> HIDE DEF a
    <3> QED BY <1>1, <1>2
  <2>2. Append(q, y) \in Seq(V) /\ Len(Append(q, y)) = Len(q) + 1 /\ Append(q, y)[Len(q) + 1] = y
        /\ \A i \in 1 .. Len(q) : Append(q, y)[i] = q[i]
    OBVIOUS
  <2>3. \A i \in 1 .. Len(q) + 1 : b[i] = Append(q, y)[i]
    <3> HIDE DEF a, b
    <3> QED BY <1>2, <2>1, <2>2
  <2>4. Append(q, y) = b
    <3> HIDE DEF a, b
    <3> QED BY <1>2, <2>1, <2>2, <2>3
  <2> QED BY <2>4
<1> QED BY <1>1, <1>3, <1>4, <1>5

\* Changing the end of the second part changes the end of the whole.
LEMMA Ends ==
    ASSUME NEW V, NEW a \in Seq(V), NEW b \in Seq(V)
    PROVE  /\ \A x \in V : a \o Append(b, x) = Append(a \o b, x)
           /\ b # <<>> => /\ a \o b # <<>> /\ Last(a \o b) = Last(b)
                          /\ a \o Front(b) = Front(a \o b)
<1>1. \A x \in V : a \o Append(b, x) = Append(a \o b, x)
  OBVIOUS
<1>2. ASSUME b # <<>> PROVE a \o b # <<>> /\ Last(a \o b) = Last(b) /\ a \o Front(b) = Front(a \o b)
  <2>1. Front(b) \in Seq(V) /\ Last(b) \in V /\ b = Append(Front(b), Last(b))
    BY <1>2, Top
  <2>2. a \o b = Append(a \o Front(b), Last(b))
    BY <2>1
  <2>3. a \o Front(b) \in Seq(V)
    BY <2>1
  <2> DEFINE c == a \o Front(b)
             x == Last(b)
  <2>4. c \in Seq(V) /\ x \in V /\ a \o b = Append(c, x)
    BY <2>1, <2>2, <2>3
  <2> HIDE DEF c, x
  <2>5. a \o b # <<>> /\ Last(a \o b) = x /\ Front(a \o b) = c
    BY <2>4, Appended
  <2> QED BY <2>5 DEF c, x
<1> QED BY <1>1, <1>2

\* The last two elements of a sequence.
LEMMA LastTwo ==
    ASSUME NEW V, NEW q \in Seq(V), NEW n \in 2 .. Len(q)
    PROVE  /\ SubSeq(q, n - 1, n) \in Seq(V) /\ Len(SubSeq(q, n - 1, n)) = 2
           /\ SubSeq(q, n - 1, n)[1] = q[n - 1] /\ SubSeq(q, n - 1, n)[2] = q[n]
<1>1. Len(q) \in Nat /\ n \in Nat /\ n - 1 \in 1 .. Len(q) /\ n - (n - 1) + 1 = 2
  OBVIOUS
<1> QED BY <1>1

-----------------------------------------------------------------------------
(* FlattenSeq.                                                             *)

\* The partial concatenations of a sequence of sequences.
Joins(f, q, V) ==
    /\ f \in [0 .. Len(q) -> Seq(V)] /\ f[0] = <<>>
    /\ \A i \in 1 .. Len(q) : f[i] = f[i - 1] \o q[i]

\* FlattenSeq is the last of the partial concatenations.
LEMMA Flattens ==
    ASSUME NEW V, NEW q \in Seq(Seq(V))
    PROVE  \E f : Joins(f, q, V) /\ FlattenSeq(q) = f[Len(q)]
<1> DEFINE N == Len(q)
           X == Seq(V)
           step == [p \in (1 .. N) \X X |-> p[2] \o q[p[1]]]
<1>1. N \in Nat /\ <<>> \in X /\ step \in [(1 .. N) \X X -> X]
  <2>1. ASSUME NEW p \in (1 .. N) \X X PROVE p[2] \o q[p[1]] \in X
    <3>1. p[1] \in 1 .. N /\ p[2] \in X
      OBVIOUS
    <3>2. q[p[1]] \in X
      BY <3>1
    <3> QED BY <3>1, <3>2
  <2> QED BY <2>1
<1>2. PICK f : Iterates(f, N, X, <<>>, step)
  <2> HIDE DEF N, X, step
  <2> QED BY <1>1, Recurses
<1>3. f \in [0 .. N -> X] /\ f[0] = <<>>
  <2> HIDE DEF N, X, step
  <2>1. 0 \in 0 .. N
    BY <1>1
  <2> QED BY <1>2, <2>1 DEF Iterates
<1>4. ASSUME NEW i \in 1 .. N PROVE f[i] = f[i - 1] \o q[i]
  <2>1. i \in 0 .. N /\ i # 0 /\ i - 1 \in 0 .. N
    BY <1>1
  <2>2. f[i] = step[<<i, f[i - 1]>>]
    BY <1>2, <2>1 DEF Iterates
  <2>3. <<i, f[i - 1]>> \in (1 .. N) \X X
    BY <1>3, <2>1
  <2>4. step[<<i, f[i - 1]>>] = f[i - 1] \o q[i]
    BY <2>3
  <2> HIDE DEF step
  <2> QED BY <2>2, <2>4
<1>5. Joins(f, q, V)
  BY <1>3, <1>4 DEF Joins
<1>6. FlattenSeq(q) = f[N]
  <2>1. CASE N = 0
    BY <1>3, <2>1 DEF FlattenSeq
  <2>2. CASE N # 0
    <3> DEFINE Is(h) == h = [i \in 1 .. N |-> IF i = 1 THEN q[i] ELSE h[i - 1] \o q[i]]
               h0 == [i \in 1 .. N |-> f[i]]
               h == CHOOSE g : Is(g)
    <3>1. Is(h0)
      <4>1. ASSUME NEW i \in 1 .. N PROVE f[i] = IF i = 1 THEN q[i] ELSE h0[i - 1] \o q[i]
        <5>1. CASE i = 1
          <6>1. f[1] = f[0] \o q[1]
            <7>1. 1 \in 1 .. N /\ 1 - 1 = 0
              BY <5>1
            <7> QED BY <1>4, <7>1
          <6>2. q[1] \in Seq(V)
            BY <5>1
          <6> QED BY <1>3, <5>1, <6>1, <6>2
        <5>2. CASE i # 1
          <6>1. i - 1 \in 1 .. N
            BY <1>1, <5>2
          <6> QED BY <1>4, <5>2, <6>1
        <5> QED BY <5>1, <5>2
      <4> QED BY <4>1
    <3>2. Is(h)
      <4> HIDE DEF Is
      <4> QED BY <3>1
    <3>3. FlattenSeq(q) = h[N]
      BY <2>2 DEF FlattenSeq
    <3>4. \A i \in 1 .. N : h[i] = IF i = 1 THEN q[i] ELSE h[i - 1] \o q[i]
      <4> HIDE DEF h
      <4> QED BY <3>2
    <3> DEFINE T == {i \in 0 .. N : i = 0 \/ h[i] = f[i]}
    <3>5. 0 .. N \subseteq T
      <4> HIDE DEF h
      <4>1. 0 \in T
        BY <1>1
      <4>2. ASSUME NEW i \in 0 .. N, i \in T, i < N PROVE i + 1 \in T
        <5> DEFINE j == i + 1
        <5>1. j \in 1 .. N /\ j \in 0 .. N /\ j - 1 = i
          BY <1>1, <4>2
        <5> HIDE DEF j
        <5>2. f[j] = f[i] \o q[j] /\ q[j] \in Seq(V)
          <6>1. q[j] \in Seq(V)
            BY <5>1
          <6> QED BY <1>4, <5>1, <6>1
        <5>3. h[j] = f[j]
          <6>1. CASE j = 1
            <7>1. i = 0
              BY <5>1, <6>1
            <7>2. f[j] = q[j]
              BY SMTT(30), <1>3, <5>2, <7>1
            <7> QED BY <3>4, <5>1, <6>1, <7>2
          <6>2. CASE j # 1
            <7>1. i # 0
              BY <5>1, <6>2
            <7>2. h[i] = f[i]
              BY <4>2, <7>1
            <7> QED BY <3>4, <5>1, <5>2, <6>2, <7>2
          <6> QED BY <6>1, <6>2
        <5>4. j \in T
          BY <5>1, <5>3
        <5> QED BY <5>4 DEF j
      <4> HIDE DEF N, T
      <4> QED BY <1>1, <4>1, <4>2, UpTo
    <3>6. N \in T
      <4>1. N \in 0 .. N
        BY <1>1
      <4> HIDE DEF T, N
      <4> QED BY <3>5, <4>1
    <3>7. h[N] = f[N]
      <4> HIDE DEF h, N
      <4> QED BY <2>2, <3>6
    <3> QED BY <3>3, <3>7
  <2> QED BY <2>1, <2>2
<1> QED BY <1>5, <1>6

\* What is joined at the end comes last.
LEMMA FlattenAppend ==
    ASSUME NEW V, NEW q \in Seq(Seq(V)), NEW x \in Seq(V)
    PROVE  FlattenSeq(Append(q, x)) = FlattenSeq(q) \o x /\ FlattenSeq(q) \in Seq(V)
<1> DEFINE a == Append(q, x)
           N == Len(q)
<1>1. N \in Nat /\ a \in Seq(Seq(V)) /\ Len(a) = N + 1 /\ a[N + 1] = x /\ \A i \in 1 .. N : a[i] = q[i]
  OBVIOUS
<1>2. PICK f : Joins(f, q, V) /\ FlattenSeq(q) = f[N]
  BY Flattens
<1> HIDE DEF a, N
<1>3. PICK g : Joins(g, a, V) /\ FlattenSeq(a) = g[N + 1]
  BY <1>1, Flattens
<1> DEFINE T == {i \in 0 .. N : f[i] = g[i]}
<1>4. Len(q) = N
  BY DEF N
<1>5. 0 \in T
  BY <1>1, <1>2, <1>3 DEF Joins
<1>6. ASSUME NEW i \in 0 .. N, i \in T, i < N PROVE i + 1 \in T
  <2> DEFINE j == i + 1
  <2>1. j \in 1 .. N /\ j \in 0 .. N /\ j \in 1 .. N + 1 /\ j - 1 = i
    BY <1>1, <1>6
  <2> HIDE DEF j
  <2>2. f[j] = f[i] \o q[j]
    BY <1>2, <1>4, <2>1 DEF Joins
  <2>3. g[j] = g[i] \o a[j]
    BY <1>1, <1>3, <2>1 DEF Joins
  <2>4. j \in T
    BY <1>1, <1>6, <2>1, <2>2, <2>3
  <2> QED BY <2>4 DEF j
<1>7. 0 .. N \subseteq T
  <2> HIDE DEF T
  <2> QED BY <1>1, <1>5, <1>6, UpTo
<1>8. f[N] = g[N] /\ f[N] \in Seq(V)
  <2>1. N \in 0 .. N
    BY <1>1
  <2> QED BY <1>2, <1>4, <1>7, <2>1 DEF Joins
<1>9. g[N + 1] = g[N] \o x
  <2> DEFINE m == N + 1
  <2>1. m \in 1 .. Len(a) /\ m - 1 = N /\ a[m] = x
    BY <1>1
  <2> HIDE DEF m
  <2>2. g[m] = g[m - 1] \o a[m]
    BY <1>3, <2>1 DEF Joins
  <2>3. g[m] = g[N] \o x
    BY <2>1, <2>2
  <2> QED BY <2>3 DEF m
<1> QED BY <1>2, <1>3, <1>8, <1>9 DEF a

-----------------------------------------------------------------------------
(* Types, and how the state notes what the lines mean.                     *)

\* The names #pragma library gives, and none.
Libraries == {NONE} \cup UNION {mode.libraries : mode \in Modes}

\* One #if block of the meaning.
FrameType == [live : BOOLEAN, taken : BOOLEAN, last : BOOLEAN]

\* One open file of the meaning.
FileType == [id : Nat \ {0}, line : 0 .. Period - 1, frames : Seq(FrameType), comment : BOOLEAN,
             lib : Libraries, parens : {0, 1}]

\* The state of sc2.c.
ReaderType ==
    [inpf : Nat, atEnd : SUBSET Nat, freading : BOOLEAN, stack : Seq(Int \cup Libraries), iflevel : Nat,
     skiplevel : Nat, ifstack : [1 .. MaxNest -> 0 .. 3], icomment : {0, 1}, fcurrent : Nat, fnumber : Nat,
     fline : 0 .. Period - 1, curlibrary : Libraries, libname_tab : SUBSET Libraries, compat : BOOLEAN,
     libraries : SUBSET Libraries, included : SUBSET Names, errors : SUBSET Nat, needsemicolon : BOOLEAN,
     staging : BOOLEAN, reread : BOOLEAN, line : Lines]

\* The frames of all open files, the outermost first.
Flat(fs) == FlattenSeq([i \in DOMAIN fs |-> fs[i].frames])

\* What the parser has on the stack for a file.
FlagsOf(f) == IF f.parens = 1 THEN Flags ELSE <<>>

\* What an include saves of the file it stands in (plungequalifiedfile()).
Saved(f, level) == <<f.id, f.lib, level, IF f.comment THEN 1 ELSE 0, f.id, f.line>>

\* What is on the stack below the innermost file.
Held(fs) == FlattenSeq([i \in DOMAIN fs |-> FlagsOf(fs[i]) \o Saved(fs[i], Len(Flat(SubSeq(fs, 1, i))))])

\* What an entry of ifstack says of a block.
ModeIs(frame, mode) ==
    /\ frame.live <=> mode \in {0, PARSEMODE}
    /\ frame.taken <=> mode # SKIPMODE
    /\ mode = 0 => frame.last

\* How iflevel, skiplevel and ifstack note the frames: up to skiplevel every entry is right and
\* every block but the last is live; a block below it is dead and stays dead, so its entry
\* is never looked at.
Nest(level, k, modes, frames) ==
    /\ level = Len(frames) /\ k <= Len(frames) /\ Len(frames) <= MaxNest
    /\ \A i \in 1 .. k : ModeIs(frames[i], modes[i]) /\ (i < k => frames[i].live)
    /\ k < Len(frames) => k > 0 /\ ~frames[k].live
    /\ \A i \in k + 1 .. Len(frames) : ~frames[i].live /\ frames[i].taken

\* The same, of a state.
Nested(s, frames) == Nest(s.iflevel, s.skiplevel, s.ifstack, frames)

\* The place in the innermost file.
Stands(s, top) ==
    /\ s.fcurrent = top.id /\ s.fline = top.line /\ s.curlibrary = top.lib
    /\ s.icomment = IF top.comment THEN 1 ELSE 0

\* Files are numbered in the order in which they were opened.
Numbered(s, fs) ==
    /\ \A i, j \in DOMAIN fs : i < j => fs[i].id < fs[j].id
    /\ \A i \in DOMAIN fs : fs[i].id <= s.fnumber
    /\ \A i \in s.atEnd : i <= s.fnumber

\* Every frame is live.
Clear(frames) == \A i \in DOMAIN frames : frames[i].live

\* The state agrees with what the lines mean: low are the files around the innermost, top.
Matches(s, low, top) ==
    /\ s.stack = Held(low) \o FlagsOf(top)
    /\ Nested(s, Flat(low) \o top.frames)
    /\ Clear(Flat(low))
    /\ Stands(s, top)
    /\ Numbered(s, Append(low, top))

\* What may be said by a line that is obeyed now.
Legal(s, low, top, body) ==
    LET op == body.op IN
     /\ s.inpf = top.id
     /\ op = "#if" => Len(Flat(low) \o top.frames) < MaxNest
     /\ op \in {"#else", "#elseif"} => top.frames # <<>> /\ ~Last(top.frames).last
     /\ op = "#endif" => top.frames # <<>>
     /\ op = "#library" => body.arg \in s.libraries \ s.libname_tab
     /\ op = "#endinput" => top.parens = 0
     /\ op = "(" => top.parens = 0
     /\ op = ")" => top.parens = 1

\* A directive that ended an expression and will be looked at again: the meaning has it already.
Again ==
    \E low \in Seq(FileType), top \in FileType :
      /\ Matches(in, low, top) /\ top.parens = 0 /\ in.icomment = 0
      /\ in.line.body \in Directives /\ ~in.line.open /\ ~in.line.close
      /\ ~in.staging /\ Legal(in, low, top, in.line.body)
      /\ files = Meaning(Append(low, top), in.line.body, in)

\* No parenthesis is open where a file has ended.
Closed == \A i \in DOMAIN files : files[i].id \in in.atEnd => files[i].parens = 0

\* The types of the variables.
Typed == in \in ReaderType /\ files \in Seq(FileType) /\ files # <<>>

\* The invariant. While a line waits to be looked at again, the state lags behind the meaning
\* by that line; otherwise they agree.
ReaderInv ==
    /\ Typed
    /\ in.freading /\ in.reread => Again
    /\ in.freading /\ ~in.reread =>
          /\ Matches(in, Front(files), Last(files)) /\ in.inpf \in {0, Last(files).id}
          /\ in.inpf = 0 => Last(files).parens = 0
    /\ in.freading => Closed

-----------------------------------------------------------------------------
(* The frames of all files, and the stack.                                 *)

\* The elements of a sequence.
LEMMA Elements == \A V : \A q \in Seq(V) : \A i \in DOMAIN q : q[i] \in V
  OBVIOUS

\* A sequence is the function of its indices.
LEMMA AsFunction == \A V : \A q \in Seq(V) : q = [i \in 1 .. Len(q) |-> q[i]]
  OBVIOUS

\* A sequence with one element more, as a function.
LEMMA AppendIs ==
    ASSUME NEW V, NEW q \in Seq(V), NEW x \in V
    PROVE  Append(q, x) = [i \in 1 .. Len(q) + 1 |-> IF i = Len(q) + 1 THEN x ELSE q[i]]
<1> DEFINE a == Append(q, x)
<1>1. Len(a) = Len(q) + 1 /\ Len(q) \in Nat /\ a[Len(q) + 1] = x /\ \A i \in 1 .. Len(q) : a[i] = q[i]
  OBVIOUS
<1>2. a = [i \in 1 .. Len(a) |-> a[i]]
  <2>1. a \in Seq(V)
    OBVIOUS
  <2> HIDE DEF a
  <2> QED BY <2>1, AsFunction
<1> HIDE DEF a
<1>3. \A i \in 1 .. Len(q) + 1 : a[i] = IF i = Len(q) + 1 THEN x ELSE q[i]
  BY <1>1
<1>4. a = [i \in 1 .. Len(q) + 1 |-> a[i]]
  BY <1>1, <1>2
<1>5. a = [i \in 1 .. Len(q) + 1 |-> IF i = Len(q) + 1 THEN x ELSE q[i]]
  BY <1>3, <1>4
<1> QED BY <1>5 DEF a

\* The frames of one file more.
LEMMA FlatAppend ==
    ASSUME NEW low \in Seq(FileType), NEW f \in FileType
    PROVE  /\ Flat(Append(low, f)) = Flat(low) \o f.frames
           /\ Flat(low) \in Seq(FrameType) /\ Flat(Append(low, f)) \in Seq(FrameType)
<1> DEFINE q == [i \in DOMAIN low |-> low[i].frames]
           r == [i \in DOMAIN Append(low, f) |-> Append(low, f)[i].frames]
<1>1. f.frames \in Seq(FrameType) /\ \A i \in DOMAIN low : low[i].frames \in Seq(FrameType)
  <2>1. \A i \in DOMAIN low : low[i] \in FileType
    BY Elements
  <2> QED BY <2>1 DEF FileType
<1>2. q \in Seq(Seq(FrameType)) /\ Len(q) = Len(low)
  BY <1>1
<1>3. r = Append(q, f.frames)
  <2>1. Append(low, f) \in Seq(FileType) /\ Len(Append(low, f)) = Len(low) + 1
        /\ Append(low, f)[Len(low) + 1] = f /\ \A i \in 1 .. Len(low) : Append(low, f)[i] = low[i]
    BY Appended
  <2>2. DOMAIN r = 1 .. Len(low) + 1 /\ r = [i \in 1 .. Len(low) + 1 |-> r[i]]
    BY <2>1
  <2>3. r[Len(low) + 1] = f.frames /\ \A i \in 1 .. Len(low) : r[i] = q[i]
    <3>1. Len(low) \in Nat
      OBVIOUS
    <3> QED BY <2>1, <3>1
  <2>4. Append(q, f.frames) = [i \in 1 .. Len(low) + 1 |-> IF i = Len(low) + 1 THEN f.frames ELSE q[i]]
    <3> HIDE DEF q
    <3> QED BY <1>2
  <2>5. \A i \in 1 .. Len(low) + 1 : i = Len(low) + 1 \/ i \in 1 .. Len(low)
    <3>1. Len(low) \in Nat
      OBVIOUS
    <3> QED BY <3>1
  <2> HIDE DEF q, r
  <2>6. \A i \in 1 .. Len(low) + 1 : r[i] = IF i = Len(low) + 1 THEN f.frames ELSE q[i]
    BY <2>3, <2>5
  <2> QED BY <2>2, <2>4, <2>6
<1>4. FlattenSeq(Append(q, f.frames)) = FlattenSeq(q) \o f.frames /\ FlattenSeq(q) \in Seq(FrameType)
  <2> HIDE DEF q
  <2> QED BY <1>1, <1>2, FlattenAppend
<1>5. Flat(Append(low, f)) = Flat(low) \o f.frames /\ Flat(low) \in Seq(FrameType)
  <2>1. Flat(low) = FlattenSeq(q) /\ Flat(Append(low, f)) = FlattenSeq(r)
    BY DEF Flat
  <2> HIDE DEF q, r
  <2> QED BY <1>3, <1>4, <2>1
<1> QED BY <1>1, <1>5

\* All frames of the open files, as one sequence.
LEMMA FlatTypes == \A fs \in Seq(FileType) : Flat(fs) \in Seq(FrameType) /\ Len(Flat(fs)) \in Nat
<1> TAKE fs \in Seq(FileType)
<1>1. Flat(fs) \in Seq(FrameType)
  <2> DEFINE q == [i \in DOMAIN fs |-> fs[i].frames]
  <2>1. \A i \in DOMAIN fs : fs[i].frames \in Seq(FrameType)
    <3>1. \A i \in DOMAIN fs : fs[i] \in FileType
      BY Elements
    <3> QED BY <3>1 DEF FileType
  <2>2. q \in Seq(Seq(FrameType))
    BY <2>1
  <2>3. <<>> \in Seq(FrameType)
    OBVIOUS
  <2>4. FlattenSeq(q) \in Seq(FrameType)
    <3> HIDE DEF q
    <3> QED BY <2>2, <2>3, FlattenAppend
  <2> QED BY <2>4 DEF Flat
<1> QED BY <1>1

\* What can be on the stack.
Values == Int \cup Libraries

\* What one file has on the stack: two flags if a parenthesis is open in it, six values
\* if a file is read from it (pushstk(), sc2.c).
LEMMA SavedTypes ==
    ASSUME NEW f \in FileType, NEW level \in Nat
    PROVE  /\ FlagsOf(f) \in Seq(Values) /\ Saved(f, level) \in Seq(Values)
           /\ FlagsOf(f) \o Saved(f, level) \in Seq(Values)
           /\ Len(Saved(f, level)) = 6 /\ Len(FlagsOf(f)) = 2 * f.parens
<1>1. f.id \in Int /\ f.lib \in Libraries /\ f.line \in Int /\ f.parens \in {0, 1} /\ f.comment \in BOOLEAN
  BY ReaderAssumption DEF FileType
<1>2. FlagsOf(f) \in Seq(Int) /\ Len(FlagsOf(f)) = 2 * f.parens
  BY <1>1 DEF FlagsOf, Flags
<1>3. Len(Saved(f, level)) = 6
  BY DEF Saved
<1>4. Saved(f, level) \in Seq(Values)
  <2> DEFINE c == IF f.comment THEN 1 ELSE 0
  <2>1. f.id \in Values /\ f.lib \in Values /\ level \in Values /\ c \in Values /\ f.line \in Values
    BY <1>1 DEF Values
  <2> HIDE DEF c
  <2>2. <<f.id, f.lib, level, c, f.id, f.line>> \in Seq(Values)
    BY <2>1
  <2> QED BY <2>2 DEF Saved, c
<1>5. FlagsOf(f) \in Seq(Values)
  <2>1. \A s \in Seq(Int) : s \in Seq(Values)
    BY DEF Values
  <2> QED BY <1>2, <2>1
<1> QED BY <1>2, <1>3, <1>4, <1>5

\* What is on the stack under one file more.
LEMMA HeldAppend ==
    ASSUME NEW low \in Seq(FileType), NEW f \in FileType
    PROVE  /\ Held(Append(low, f)) =
                Held(low) \o (FlagsOf(f) \o Saved(f, Len(Flat(low) \o f.frames)))
           /\ Held(low) \in Seq(Values) /\ Held(Append(low, f)) \in Seq(Values)
<1> DEFINE Piece(fs, i) == FlagsOf(fs[i]) \o Saved(fs[i], Len(Flat(SubSeq(fs, 1, i))))
           q == [i \in DOMAIN low |-> Piece(low, i)]
           a == Append(low, f)
           r == [i \in DOMAIN a |-> Piece(a, i)]
           N == Len(low)
           x == Piece(a, N + 1)
<1>1. N \in Nat /\ a \in Seq(FileType) /\ Len(a) = N + 1 /\ a[N + 1] = f /\ \A i \in 1 .. N : a[i] = low[i]
  BY Appended
<1>2. ASSUME NEW fs \in Seq(FileType), NEW i \in 1 .. Len(fs) PROVE Piece(fs, i) \in Seq(Values)
  <2>1. SubSeq(fs, 1, i) \in Seq(FileType)
    OBVIOUS
  <2> QED BY <2>1, FlatTypes, SavedTypes
<1>3. q \in Seq(Seq(Values)) /\ Len(q) = N
  <2>1. DOMAIN low = 1 .. N /\ low \in Seq(FileType)
    OBVIOUS
  <2>2. \A i \in 1 .. N : Piece(low, i) \in Seq(Values)
    BY <1>2
  <2> HIDE DEF Piece
  <2> QED BY <1>1, <2>1, <2>2
<1>4. x \in Seq(Values)
  <2> HIDE DEF Piece, a, N
  <2> QED BY <1>1, <1>2
<1>5. ASSUME NEW i \in 1 .. N PROVE Piece(a, i) = Piece(low, i)
  <2>1. SubSeq(a, 1, i) = SubSeq(low, 1, i)
    <3> HIDE DEF a
    <3> QED BY <1>1
  <2> QED BY <1>1, <2>1
<1>6. SubSeq(a, 1, N + 1) = a
  <2> HIDE DEF a
  <2> QED BY <1>1
<1>7. r = Append(q, x)
  <2>1. DOMAIN a = 1 .. N + 1
    <3> HIDE DEF a
    <3> QED BY <1>1
  <2>2. r = [i \in 1 .. N + 1 |-> Piece(a, i)]
    BY <2>1
  <2>3. \A i \in 1 .. N : q[i] = Piece(low, i)
    <3>1. DOMAIN low = 1 .. N
      OBVIOUS
    <3> HIDE DEF Piece, N
    <3> QED BY <3>1
  <2>4. Append(q, x) = [i \in 1 .. N + 1 |-> IF i = N + 1 THEN x ELSE q[i]]
    <3> HIDE DEF q, x, N
    <3>1. Append(q, x) = [i \in 1 .. Len(q) + 1 |-> IF i = Len(q) + 1 THEN x ELSE q[i]]
      BY <1>3, <1>4, AppendIs
    <3> QED BY <1>3, <3>1
  <2>5. \A i \in 1 .. N + 1 : i = N + 1 \/ i \in 1 .. N
    BY <1>1
  <2>6. x = Piece(a, N + 1)
    OBVIOUS
  <2> HIDE DEF q, r, a, N, Piece, x
  <2>7. \A i \in 1 .. N + 1 : Piece(a, i) = IF i = N + 1 THEN x ELSE q[i]
    BY <1>5, <2>3, <2>5, <2>6
  <2> QED BY <2>2, <2>4, <2>7
<1>8. FlattenSeq(Append(q, x)) = FlattenSeq(q) \o x /\ FlattenSeq(q) \in Seq(Values)
  <2> HIDE DEF q, x
  <2> QED BY <1>3, <1>4, FlattenAppend
<1>9. Held(low) = FlattenSeq(q) /\ Held(a) = FlattenSeq(r)
  BY DEF Held
<1>10. x = FlagsOf(f) \o Saved(f, Len(Flat(low) \o f.frames))
  <2>1. Flat(a) = Flat(low) \o f.frames
    BY FlatAppend
  <2> HIDE DEF a
  <2> QED BY <1>1, <1>6, <2>1
<1> HIDE DEF q, r, x, a
<1>11. Held(a) = Held(low) \o x /\ Held(low) \in Seq(Values)
  BY <1>7, <1>8, <1>9
<1>12. Held(a) \in Seq(Values)
  BY <1>4, <1>11
<1> QED BY <1>10, <1>11, <1>12 DEF a

\* Frames are all live if those of both parts are.
LEMMA ClearJoin ==
    ASSUME NEW p \in Seq(FrameType), NEW q \in Seq(FrameType)
    PROVE  Clear(p \o q) <=> Clear(p) /\ Clear(q)
<1> DEFINE j == p \o q
<1>1. /\ j \in Seq(FrameType) /\ Len(j) = Len(p) + Len(q) /\ Len(p) \in Nat /\ Len(q) \in Nat
      /\ \A i \in 1 .. Len(p) : j[i] = p[i] /\ i \in 1 .. Len(j)
      /\ \A i \in 1 .. Len(q) : j[Len(p) + i] = q[i] /\ Len(p) + i \in 1 .. Len(j)
  OBVIOUS
<1>2. DOMAIN j = 1 .. Len(j) /\ DOMAIN p = 1 .. Len(p) /\ DOMAIN q = 1 .. Len(q)
  OBVIOUS
<1> HIDE DEF j
<1>3. ASSUME NEW i \in 1 .. Len(j), i \notin 1 .. Len(p) PROVE i - Len(p) \in 1 .. Len(q) /\ i = Len(p) + (i - Len(p))
  BY <1>1, <1>3
<1>4. Clear(j) => Clear(p) /\ Clear(q)
  BY <1>1, <1>2 DEF Clear
<1>5. Clear(p) /\ Clear(q) => Clear(j)
  <2> SUFFICES ASSUME Clear(p), Clear(q), NEW i \in 1 .. Len(j) PROVE j[i].live
    BY <1>2 DEF Clear
  <2>1. CASE i \in 1 .. Len(p)
    BY <1>1, <1>2, <2>1 DEF Clear
  <2>2. CASE i \notin 1 .. Len(p)
    <3> DEFINE k == i - Len(p)
    <3>1. k \in 1 .. Len(q) /\ i = Len(p) + k
      BY <1>3, <2>2
    <3> HIDE DEF k
    <3>2. j[i] = q[k]
      BY <1>1, <3>1
    <3> QED BY <1>2, <3>1, <3>2 DEF Clear
  <2> QED BY <2>1, <2>2
<1> QED BY <1>4, <1>5 DEF j

\* Code is live where all frames are.
LEMMA LiveIsClear == \A fs \in Seq(FileType) : Live(fs) <=> Clear(Flat(fs))
<1> TAKE fs \in Seq(FileType)
<1> DEFINE N == Len(fs)
           P(n) == SubSeq(fs, 1, n)
           T == {n \in 0 .. N : Live(P(n)) <=> Clear(Flat(P(n)))}
<1>1. N \in Nat
  OBVIOUS
<1>2. 0 \in T
  <2>1. P(0) = <<>>
    OBVIOUS
  <2>2. Live(<<>>)
    BY DEF Live
  <2>3. Flat(<<>>) = <<>>
    BY DEF Flat, FlattenSeq
  <2>4. Clear(<<>>)
    BY DEF Clear
  <2> HIDE DEF P
  <2> QED BY <1>1, <2>1, <2>2, <2>3, <2>4
<1>3. ASSUME NEW n \in 0 .. N, n \in T, n < N PROVE n + 1 \in T
  <2> DEFINE m == n + 1
             f == fs[m]
             low == P(n)
  <2>1. m \in 1 .. N /\ m \in 0 .. N /\ f \in FileType /\ low \in Seq(FileType) /\ Len(low) = n
        /\ P(m) = Append(low, f)
    BY <1>1, <1>3
  <2>2. /\ \A i \in 1 .. n : Append(low, f)[i] = low[i]
        /\ Append(low, f)[m] = f /\ DOMAIN Append(low, f) = 1 .. m /\ DOMAIN low = 1 .. n
    <3> HIDE DEF low, f
    <3> QED BY <2>1
  <2>3. f.frames \in Seq(FrameType)
    BY <2>1 DEF FileType
  <2> HIDE DEF P, f, low
  <2>4. Live(Append(low, f)) <=> Live(low) /\ Clear(f.frames)
    <3>1. m \in 1 .. m /\ \A i \in 1 .. m : i \in 1 .. n \/ i = m
      BY <1>1, <2>1
    <3>2. \A i \in 1 .. n : i \in 1 .. m
      BY <1>1, <2>1
    <3> HIDE DEF m
    <3> QED BY <2>2, <3>1, <3>2 DEF Live, Clear
  <2>5. Clear(Flat(Append(low, f))) <=> Clear(Flat(low)) /\ Clear(f.frames)
    <3>1. Flat(Append(low, f)) = Flat(low) \o f.frames /\ Flat(low) \in Seq(FrameType)
      BY <2>1, FlatAppend
    <3>2. Clear(Flat(low) \o f.frames) <=> Clear(Flat(low)) /\ Clear(f.frames)
      BY <2>3, <3>1, ClearJoin
    <3> QED BY <3>1, <3>2
  <2>6. Live(low) <=> Clear(Flat(low))
    BY <1>3 DEF low
  <2>7. m \in T
    BY <2>1, <2>4, <2>5, <2>6
  <2> QED BY <2>7 DEF m
<1>4. N \in T
  <2> HIDE DEF T, N
  <2>1. 0 .. N \subseteq T
    BY <1>1, <1>2, <1>3, UpTo
  <2>2. N \in 0 .. N
    BY <1>1
  <2> QED BY <2>1, <2>2
<1>5. P(N) = fs
  OBVIOUS
<1> HIDE DEF P
<1> QED BY <1>4, <1>5

-----------------------------------------------------------------------------
(* How the blocks are noted.                                               *)

\* The values of ifstack.
IfStacks == [1 .. MaxNest -> 0 .. 3]

\* What is skipped is what is not live.
LEMMA NestSkips ==
    ASSUME NEW level \in Nat, NEW k \in Nat, NEW modes \in IfStacks, NEW F \in Seq(FrameType),
           Nest(level, k, modes, F)
    PROVE  k > 0 /\ modes[k] \in {SKIPMODE, SKIPMODE + PARSEMODE} <=> ~Clear(F)
<1>1. Len(F) \in Nat /\ DOMAIN F = 1 .. Len(F) /\ k <= Len(F) /\ Len(F) <= MaxNest /\ MaxNest \in Nat
  BY ReaderAssumption DEF Nest
<1>2. ASSUME k > 0 PROVE ModeIs(F[k], modes[k]) /\ k \in 1 .. Len(F) /\ modes[k] \in 0 .. 3
  <2>1. k \in 1 .. k /\ k \in 1 .. Len(F) /\ k \in 1 .. MaxNest
    BY <1>1, <1>2
  <2> QED BY <2>1 DEF Nest, IfStacks
<1>3. ASSUME k > 0, modes[k] \in {SKIPMODE, SKIPMODE + PARSEMODE} PROVE ~Clear(F)
  BY <1>1, <1>2, <1>3 DEF Clear, ModeIs, SKIPMODE, PARSEMODE
<1>4. ASSUME k > 0, ~(modes[k] \in {SKIPMODE, SKIPMODE + PARSEMODE}) PROVE Clear(F)
  <2>1. F[k].live
    BY <1>2, <1>4 DEF ModeIs, SKIPMODE, PARSEMODE
  <2>2. k = Len(F)
    BY <1>1, <2>1 DEF Nest
  <2> SUFFICES ASSUME NEW i \in 1 .. Len(F) PROVE F[i].live
    BY <1>1 DEF Clear
  <2>3. i \in 1 .. k /\ (i < k \/ i = k)
    <3>1. i \in 1 .. k
      BY <2>2
    <3> QED BY <3>1
  <2> QED BY <2>1, <2>3 DEF Nest
<1>5. ASSUME ~(k > 0) PROVE Clear(F)
  BY <1>1, <1>5 DEF Nest, Clear
<1> QED BY <1>3, <1>4, <1>5

\* The fields of a frame.
LEMMA FrameTypes ==
    /\ \A a, b, c \in BOOLEAN : /\ Frame(a, b, c) \in FrameType /\ (Frame(a, b, c).live <=> a)
                                /\ (Frame(a, b, c).taken <=> b) /\ (Frame(a, b, c).last <=> c)
    /\ \A f \in FrameType, a, b \in BOOLEAN :
         /\ Branch(f, a, b) \in FrameType /\ (Branch(f, a, b).live <=> a /\ ~f.taken)
         /\ (Branch(f, a, b).taken <=> f.taken \/ a) /\ (Branch(f, a, b).last <=> b)
  BY DEF Frame, Branch, FrameType

\* The entries of ifstack that #if makes.
LEMMA FreshModes ==
    \A f : (f.live /\ f.taken => ModeIs(f, 2)) /\ (~f.live /\ ~f.taken => ModeIs(f, 1))
  BY DEF ModeIs, PARSEMODE, SKIPMODE

\* #if
LEMMA NestIf ==
    ASSUME NEW level \in Nat, NEW k \in Nat, NEW modes \in IfStacks, NEW F \in Seq(FrameType),
           NEW cond \in BOOLEAN, Nest(level, k, modes, F), Len(F) < MaxNest,
           NEW l, NEW m, NEW x, x = Frame(Clear(F) /\ cond, (Clear(F) /\ cond) \/ ~Clear(F), FALSE),
           ~Clear(F) => l = k /\ m = modes,
           Clear(F) => l = level + 1 /\ m = [modes EXCEPT ![level + 1] = IF cond THEN PARSEMODE ELSE SKIPMODE]
    PROVE  l \in Nat /\ m \in IfStacks /\ x \in FrameType /\ Nest(level + 1, l, m, Append(F, x))
<1> DEFINE G == Append(F, x)
<1> DEFINE C == Clear(F)
<1>0. C \in BOOLEAN /\ x = Frame(C /\ cond, (C /\ cond) \/ ~C, FALSE)
  BY DEF Clear
<1>1. x \in FrameType /\ (x.live <=> C /\ cond) /\ (x.taken <=> (C /\ cond) \/ ~C)
  <2> HIDE DEF C
  <2> DEFINE a == C /\ cond
             b == a \/ ~C
  <2>1. a \in BOOLEAN /\ b \in BOOLEAN /\ x = Frame(a, b, FALSE)
    BY <1>0
  <2>2. x \in FrameType /\ (x.live <=> a) /\ (x.taken <=> b)
    <3> HIDE DEF a, b
    <3>1. Frame(a, b, FALSE) \in FrameType /\ (Frame(a, b, FALSE).live <=> a)
          /\ (Frame(a, b, FALSE).taken <=> b)
      BY <2>1, FrameTypes
    <3> QED BY <2>1, <3>1
  <2> QED BY <2>1, <2>2
<1>6. x \in FrameType
  BY <1>1
<1>2. /\ Len(F) \in Nat /\ DOMAIN F = 1 .. Len(F) /\ k <= Len(F) /\ level = Len(F) /\ MaxNest \in Nat
      /\ Len(G) = level + 1 /\ G[level + 1] = x /\ \A i \in 1 .. level : G[i] = F[i]
  <2>1. Len(F) \in Nat /\ DOMAIN F = 1 .. Len(F) /\ MaxNest \in Nat
    BY ReaderAssumption
  <2>2. Len(G) = Len(F) + 1 /\ G[Len(F) + 1] = x /\ \A i \in 1 .. Len(F) : G[i] = F[i]
    BY ONLY <1>6, F \in Seq(FrameType), Appended DEF G
  <2>3. k <= Len(F) /\ level = Len(F)
    BY DEF Nest
  <2> HIDE DEF G
  <2> QED BY <2>1, <2>2, <2>3
<1>3. l \in Nat /\ m \in IfStacks
  BY SMTT(30), <1>2 DEF IfStacks, PARSEMODE, SKIPMODE
<1> HIDE DEF G
<1>4. CASE ~Clear(F)
  <2>1. k > 0 /\ ~F[k].live
    <3>1. k > 0 /\ modes[k] \in {SKIPMODE, SKIPMODE + PARSEMODE}
      BY <1>4, NestSkips
    <3>2. k \in 1 .. k
      BY <3>1
    <3> QED BY <3>1, <3>2 DEF Nest, ModeIs, SKIPMODE, PARSEMODE
  <2>2. \A i \in 1 .. k : G[i] = F[i]
    BY <1>2
  <2>3. \A i \in k + 1 .. Len(G) : ~G[i].live /\ G[i].taken
    <3> SUFFICES ASSUME NEW i \in k + 1 .. Len(G) PROVE ~G[i].live /\ G[i].taken
      OBVIOUS
    <3>1. CASE i = level + 1
      BY <1>1, <1>2, <1>4, <3>1
    <3>2. CASE i # level + 1
      <4>1. i \in k + 1 .. Len(F) /\ G[i] = F[i]
        BY <1>2, <3>2
      <4> QED BY <4>1 DEF Nest
    <3> QED BY <3>1, <3>2
  <2>4. G[k] = F[k]
    BY <1>2, <2>1, <2>2
  <2>5. \A i \in 1 .. k : ModeIs(G[i], modes[i]) /\ (i < k => G[i].live)
    BY <2>2 DEF Nest
  <2>6. k < Len(G)
    BY <1>2
  <2>7. Nest(level + 1, k, modes, G)
    BY <1>2, <2>1, <2>3, <2>4, <2>5, <2>6 DEF Nest
  <2> QED BY <1>1, <1>3, <1>4, <2>7 DEF G
<1>5. CASE Clear(F)
  <2>1. k = Len(F)
    <3>1. ASSUME k < Len(F) PROVE FALSE
      <4>1. k \in DOMAIN F /\ ~F[k].live
        BY <1>2, <3>1 DEF Nest
      <4> QED BY <1>5, <4>1 DEF Clear
    <3>2. k \in Nat /\ Len(F) \in Nat /\ k <= Len(F)
      BY <1>2
    <3>3. ~(k < Len(F))
      BY <3>1
    <3> QED BY ONLY <3>2, <3>3
  <2>0. l = level + 1 /\ m = [modes EXCEPT ![level + 1] = IF cond THEN PARSEMODE ELSE SKIPMODE]
    BY <1>5
  <2>2. ASSUME NEW i \in 1 .. l PROVE ModeIs(G[i], m[i]) /\ (i < l => G[i].live)
    <3>1. CASE i = level + 1
      <4>1. m[i] = IF cond THEN PARSEMODE ELSE SKIPMODE
        BY <1>2, <2>0, <3>1 DEF IfStacks
      <4>2. (x.live <=> cond) /\ (x.taken <=> cond) /\ G[i] = x /\ ~(i < l)
        <5>1. G[i] = x /\ ~(i < l)
          <6>1. level + 1 \in Nat /\ i = level + 1 /\ l = level + 1
            BY <2>0, <3>1
          <6> QED BY ONLY <6>1, <1>2
        <5>2. (x.live <=> cond) /\ (x.taken <=> cond)
          BY <1>1, <1>5
        <5> QED BY <5>1, <5>2
      <4>3. CASE cond
        <5>1. m[i] = 2
          BY <4>1, <4>3 DEF PARSEMODE
        <5>2. ModeIs(x, 2)
          BY <4>2, <4>3, FreshModes
        <5> QED BY <4>2, <5>1, <5>2
      <4>4. CASE ~cond
        <5>1. m[i] = 1
          BY <4>1, <4>4 DEF SKIPMODE
        <5>2. ModeIs(x, 1)
          BY <4>2, <4>4, FreshModes
        <5> QED BY <4>2, <5>1, <5>2
      <4> QED BY <4>3, <4>4
    <3>2. CASE i # level + 1
      <4>1. i \in 1 .. k /\ i \in DOMAIN F /\ G[i] = F[i] /\ m[i] = modes[i]
        BY <1>2, <1>5, <2>1, <3>2 DEF IfStacks
      <4> QED BY <1>5, <4>1 DEF Nest, Clear
    <3> QED BY <3>1, <3>2
  <2>3. l = Len(G) /\ l <= MaxNest
    BY <1>2, <1>5
  <2>4. Nest(level + 1, l, m, G)
    BY <1>2, <2>2, <2>3 DEF Nest
  <2> QED BY <1>1, <1>3, <2>4 DEF G
<1> QED BY <1>1, <1>3, <1>4, <1>5

\* #else and #elseif: the last frame changes.
LEMMA NestTurn ==
    ASSUME NEW level \in Nat, NEW k \in Nat, NEW modes \in IfStacks, NEW low \in Seq(FrameType),
           NEW f \in FrameType, NEW g \in FrameType, NEW mode \in 0 .. 3,
           Nest(level, k, modes, Append(low, f)),
           f.taken => ~g.live /\ g.taken,
           k = level /\ ModeIs(f, modes[level]) => ModeIs(g, mode)
    PROVE  Nest(level, k, [modes EXCEPT ![level] = mode], Append(low, g))
<1> DEFINE F == Append(low, f)
           G == Append(low, g)
           m == [modes EXCEPT ![level] = mode]
<1>1. /\ Len(low) \in Nat /\ MaxNest \in Nat
      /\ Len(F) = Len(low) + 1 /\ F[Len(low) + 1] = f /\ \A i \in 1 .. Len(low) : F[i] = low[i]
      /\ Len(G) = Len(low) + 1 /\ G[Len(low) + 1] = g /\ \A i \in 1 .. Len(low) : G[i] = low[i]
  BY ReaderAssumption
<1> HIDE DEF F, G
<1>2. level = Len(low) + 1 /\ k <= level /\ level <= MaxNest
  BY <1>1 DEF Nest, F
<1>3. m[level] = mode /\ \A i \in 1 .. level - 1 : m[i] = modes[i]
  BY <1>2 DEF IfStacks
<1>4. /\ \A i \in 1 .. k : ModeIs(F[i], modes[i]) /\ (i < k => F[i].live)
      /\ k < level => k > 0 /\ ~F[k].live
      /\ \A i \in k + 1 .. level : ~F[i].live /\ F[i].taken
  BY <1>1, <1>2 DEF Nest, F
<1> HIDE DEF m
<1>5. ASSUME NEW i \in 1 .. k PROVE ModeIs(G[i], m[i]) /\ (i < k => G[i].live)
  <2>1. CASE i = level
    <3>1. k = level /\ ModeIs(f, modes[level])
      BY <1>1, <1>2, <1>4, <2>1
    <3> QED BY <1>1, <1>2, <1>3, <2>1, <3>1
  <2>2. CASE i # level
    <3>1. i \in 1 .. Len(low) /\ i \in 1 .. level - 1
      BY <1>1, <1>2, <2>2
    <3> QED BY <1>1, <1>3, <1>4, <3>1
  <2> QED BY <2>1, <2>2
<1>6. ASSUME NEW i \in k + 1 .. level PROVE ~G[i].live /\ G[i].taken
  <2>1. CASE i = level
    BY <1>1, <1>2, <1>4, <2>1
  <2>2. CASE i # level
    <3>1. i \in 1 .. Len(low)
      BY <1>1, <1>2, <2>2
    <3> QED BY <1>1, <1>4, <3>1
  <2> QED BY <2>1, <2>2
<1>7. k < level => k > 0 /\ ~G[k].live
  <2>1. k < level /\ k > 0 => k \in 1 .. Len(low)
    BY <1>1, <1>2
  <2> QED BY <1>1, <1>4, <2>1
<1>8. Nest(level, k, m, G)
  BY <1>1, <1>2, <1>5, <1>6, <1>7 DEF Nest
<1> QED BY <1>8 DEF m, G

\* #endif: the last frame goes; and the end of a file, which ends its frames.
LEMMA NestEnd ==
    ASSUME NEW level \in Nat, NEW k \in Nat, NEW modes \in IfStacks, NEW low \in Seq(FrameType),
           NEW f \in FrameType, Nest(level, k, modes, Append(low, f))
    PROVE  /\ level > 0 /\ level - 1 \in Nat
           /\ Nest(level - 1, IF level - 1 < k THEN level - 1 ELSE k, modes, low)
<1> DEFINE F == Append(low, f)
           l == IF level - 1 < k THEN level - 1 ELSE k
<1>1. /\ Len(low) \in Nat /\ MaxNest \in Nat
      /\ Len(F) = Len(low) + 1 /\ F[Len(low) + 1] = f /\ \A i \in 1 .. Len(low) : F[i] = low[i]
  BY ReaderAssumption
<1> HIDE DEF F
<1>2. level = Len(low) + 1 /\ k <= level /\ level <= MaxNest
  BY <1>1 DEF Nest, F
<1>3. /\ \A i \in 1 .. k : ModeIs(F[i], modes[i]) /\ (i < k => F[i].live)
      /\ k < level => k > 0 /\ ~F[k].live
      /\ \A i \in k + 1 .. level : ~F[i].live /\ F[i].taken
  BY <1>1, <1>2 DEF Nest, F
<1>4. CASE k = level
  <2>1. l = Len(low)
    BY <1>1, <1>2, <1>4
  <2> HIDE DEF l
  <2>2. \A i \in 1 .. l : i \in 1 .. k /\ i < k /\ F[i] = low[i]
    BY <1>1, <1>2, <1>4, <2>1
  <2>3. Nest(level - 1, l, modes, low)
    BY <1>1, <1>2, <1>3, <2>1, <2>2 DEF Nest
  <2> QED BY <1>1, <1>2, <2>3 DEF l
<1>5. CASE k # level
  <2>1. l = k /\ k <= Len(low)
    BY <1>1, <1>2, <1>5
  <2> HIDE DEF l
  <2>2. \A i \in 1 .. Len(low) : F[i] = low[i] /\ i < level
    BY <1>1, <1>2
  <2>3. k > 0 /\ k \in 1 .. Len(low) /\ ~low[k].live
    BY <1>1, <1>2, <1>3, <1>5, <2>1
  <2>4. \A i \in 1 .. l : ModeIs(low[i], modes[i]) /\ (i < l => low[i].live)
    <3> TAKE i \in 1 .. l
    <3>1. i \in 1 .. k /\ i \in 1 .. Len(low)
      BY <1>1, <2>1
    <3> QED BY <1>3, <2>1, <2>2, <3>1
  <2>5. \A i \in k + 1 .. Len(low) : ~low[i].live /\ low[i].taken
    <3> TAKE i \in k + 1 .. Len(low)
    <3>1. i \in k + 1 .. level /\ i \in 1 .. Len(low)
      BY <1>1, <1>2
    <3> QED BY <1>3, <2>2, <3>1
  <2>6. Nest(level - 1, l, modes, low)
    BY <1>1, <1>2, <2>1, <2>3, <2>4, <2>5 DEF Nest
  <2> QED BY <1>1, <1>2, <2>6 DEF l
<1> QED BY <1>4, <1>5

\* The end of a file: the frames of the files around it are what is left (readline()).
LEMMA NestOuter ==
    ASSUME NEW level \in Nat, NEW k \in Nat, NEW modes \in IfStacks, NEW A \in Seq(FrameType),
           NEW B \in Seq(FrameType), Nest(level, k, modes, A \o B), Clear(A)
    PROVE  Nest(Len(A), Len(A), modes, A)
<1> DEFINE F == A \o B
<1>1. /\ Len(A) \in Nat /\ Len(B) \in Nat /\ Len(F) = Len(A) + Len(B)
      /\ DOMAIN A = 1 .. Len(A) /\ \A i \in 1 .. Len(A) : F[i] = A[i]
  OBVIOUS
<1> HIDE DEF F
<1>2. Nest(level, k, modes, F) /\ MaxNest \in Nat
  BY ReaderAssumption DEF F
<1>3. k >= Len(A)
  <2>1. ASSUME k < Len(A) PROVE FALSE
    <3>1. k > 0 /\ ~F[k].live /\ k \in 1 .. Len(A)
      BY <1>1, <1>2, <2>1 DEF Nest
    <3> QED BY <1>1, <3>1 DEF Clear
  <2> QED BY <1>1, <2>1
<1>4. \A i \in 1 .. Len(A) : i \in 1 .. k /\ A[i].live /\ F[i] = A[i]
  BY <1>1, <1>3 DEF Clear
<1> QED BY <1>1, <1>2, <1>4 DEF Nest

\* The numbers of the files do not depend on what is read from them.
LEMMA NumberedTop ==
    ASSUME NEW s, NEW t, NEW low \in Seq(FileType), NEW f \in FileType, NEW g \in FileType,
           Numbered(s, Append(low, f)), g.id = f.id, t.fnumber = s.fnumber, t.atEnd = s.atEnd
    PROVE  Numbered(t, Append(low, g))
<1> DEFINE a == Append(low, f)
           b == Append(low, g)
<1>1. /\ DOMAIN a = 1 .. Len(low) + 1 /\ DOMAIN b = 1 .. Len(low) + 1 /\ Len(low) \in Nat
      /\ a[Len(low) + 1] = f /\ b[Len(low) + 1] = g
      /\ \A i \in 1 .. Len(low) : a[i] = low[i] /\ b[i] = low[i]
  OBVIOUS
<1> HIDE DEF a, b
<1>2. \A i \in 1 .. Len(low) + 1 : b[i].id = a[i].id
  <2> TAKE i \in 1 .. Len(low) + 1
  <2>1. i \in 1 .. Len(low) \/ i = Len(low) + 1
    BY <1>1
  <2> QED BY <1>1, <2>1
<1>3. Numbered(s, a)
  BY DEF a
<1>4. Numbered(t, b)
  BY <1>1, <1>2, <1>3 DEF Numbered
<1> QED BY <1>4 DEF b

\* What a step to t from s leaves: t agrees with the files low and top, and nothing else has moved.
Agrees(s, t, low, top) ==
    /\ t \in ReaderType /\ Matches(t, low, top)
    /\ t.inpf \in {0, top.id} /\ (t.inpf = 0 => top.parens = 0)
    /\ t.freading = s.freading /\ t.reread = s.reread /\ t.atEnd = s.atEnd

\* A directive that only turns branches.
LEMMA Turns ==
    ASSUME NEW s \in ReaderType, NEW low \in Seq(FileType), NEW top \in FileType, Matches(s, low, top),
           s.inpf = top.id,
           NEW a \in Nat, NEW k \in Nat, NEW m \in IfStacks, NEW frames \in Seq(FrameType),
           Nest(a, k, m, Flat(low) \o frames)
    PROVE  /\ [top EXCEPT !.frames = frames] \in FileType
           /\ Agrees(s, [s EXCEPT !.iflevel = a, !.skiplevel = k, !.ifstack = m], low,
                     [top EXCEPT !.frames = frames])
<1> DEFINE t == [s EXCEPT !.iflevel = a, !.skiplevel = k, !.ifstack = m]
           g == [top EXCEPT !.frames = frames]
<1>1. /\ t \in ReaderType /\ t.iflevel = a /\ t.skiplevel = k /\ t.ifstack = m
      /\ t.stack = s.stack /\ t.fcurrent = s.fcurrent /\ t.fline = s.fline /\ t.curlibrary = s.curlibrary
      /\ t.icomment = s.icomment /\ t.inpf = s.inpf
      /\ t.freading = s.freading /\ t.reread = s.reread /\ t.atEnd = s.atEnd /\ t.fnumber = s.fnumber
  BY DEF ReaderType, IfStacks
<1>2. /\ g \in FileType /\ g.frames = frames /\ g.id = top.id /\ g.line = top.line /\ g.lib = top.lib
      /\ g.comment = top.comment /\ g.parens = top.parens
  BY DEF FileType
<1> HIDE DEF t, g
<1>3. FlagsOf(g) = FlagsOf(top)
  BY <1>2 DEF FlagsOf
<1>4. Numbered(t, Append(low, g))
  BY <1>1, <1>2, NumberedTop DEF Matches
<1>5. Matches(t, low, g)
  BY <1>1, <1>2, <1>3, <1>4 DEF Matches, Nested, Stands
<1>6. top.id # 0
  BY DEF FileType
<1>7. Agrees(s, t, low, g)
  BY <1>1, <1>2, <1>5, <1>6 DEF Agrees
<1> QED BY <1>2, <1>7 DEF t, g

\* Where the reading matches, the frames are noted in iflevel, skiplevel and ifstack, and
\* what is skipped is what is not live.
LEMMA NestIs ==
    ASSUME NEW s \in ReaderType, NEW low \in Seq(FileType), NEW top \in FileType, Matches(s, low, top)
    PROVE  /\ s.iflevel \in Nat /\ s.skiplevel \in Nat /\ s.ifstack \in IfStacks
           /\ Flat(low) \in Seq(FrameType) /\ top.frames \in Seq(FrameType)
           /\ Flat(low) \o top.frames \in Seq(FrameType)
           /\ Nest(s.iflevel, s.skiplevel, s.ifstack, Flat(low) \o top.frames)
           /\ SKIPPING(s) <=> ~Clear(Flat(low) \o top.frames)
<1>1. s.iflevel \in Nat /\ s.skiplevel \in Nat /\ s.ifstack \in IfStacks
  BY DEF ReaderType, IfStacks
<1>2. top.frames \in Seq(FrameType)
  BY DEF FileType
<1>3. Flat(low) \in Seq(FrameType)
  BY FlatTypes
<1> DEFINE F == Flat(low) \o top.frames
<1>4. F \in Seq(FrameType)
  BY <1>2, <1>3
<1>5. Nest(s.iflevel, s.skiplevel, s.ifstack, F)
  BY DEF Matches, Nested
<1> HIDE DEF F
<1>6. SKIPPING(s) <=> ~Clear(F)
  BY <1>1, <1>4, <1>5, NestSkips DEF SKIPPING, Mode
<1> QED BY <1>1, <1>2, <1>3, <1>4, <1>5, <1>6 DEF F

\* #if
LEMMA IfTurns ==
    ASSUME NEW s \in ReaderType, NEW low \in Seq(FileType), NEW top \in FileType, Matches(s, low, top),
           s.inpf = top.id, Len(Flat(low) \o top.frames) < MaxNest, NEW cond \in BOOLEAN,
           NEW x, x = Frame(Clear(Flat(low) \o top.frames) /\ cond,
                            (Clear(Flat(low) \o top.frames) /\ cond) \/ ~Clear(Flat(low) \o top.frames), FALSE)
    PROVE  /\ [top EXCEPT !.frames = Append(top.frames, x)] \in FileType
           /\ Agrees(s, If(s, cond), low, [top EXCEPT !.frames = Append(top.frames, x)])
<1> DEFINE F == Flat(low) \o top.frames
           C == Clear(F)
           a == s.iflevel + 1
           k == IF C THEN a ELSE s.skiplevel
           m == IF C THEN [s.ifstack EXCEPT ![a] = IF cond THEN PARSEMODE ELSE SKIPMODE] ELSE s.ifstack
<1>0. C \in BOOLEAN
  BY DEF Clear
<1>7. C = Clear(F) /\ x = Frame(C /\ cond, (C /\ cond) \/ ~C, FALSE)
  OBVIOUS
<1> HIDE DEF C
<1>1. /\ s.iflevel \in Nat /\ s.skiplevel \in Nat /\ s.ifstack \in IfStacks /\ F \in Seq(FrameType)
      /\ Nest(s.iflevel, s.skiplevel, s.ifstack, F) /\ (SKIPPING(s) <=> ~C)
      /\ Flat(low) \in Seq(FrameType) /\ top.frames \in Seq(FrameType)
  BY NestIs DEF C
<1>2. If(s, cond) = [s EXCEPT !.iflevel = a, !.skiplevel = k, !.ifstack = m]
  <2>1. CASE C
    BY <1>1, <2>1 DEF If, ReaderType
  <2>2. CASE ~C
    BY <1>1, <2>2 DEF If, ReaderType
  <2> QED BY <1>0, <2>1, <2>2
<1>3. k \in Nat /\ m \in IfStacks /\ x \in FrameType /\ Nest(a, k, m, Append(F, x))
  <2>1. /\ ~C => k = s.skiplevel /\ m = s.ifstack
        /\ C => k = s.iflevel + 1 /\ m = [s.ifstack EXCEPT ![s.iflevel + 1] = IF cond THEN PARSEMODE ELSE SKIPMODE]
    BY <1>0
  <2>2. C = Clear(F) /\ x = Frame(C /\ cond, (C /\ cond) \/ ~C, FALSE)
    BY <1>7
  <2>3. Len(F) < MaxNest
    OBVIOUS
  <2> HIDE DEF F, k, m
  <2>4. k \in Nat /\ m \in IfStacks /\ x \in FrameType /\ Nest(s.iflevel + 1, k, m, Append(F, x))
    <3> DEFINE D == Clear(F)
    <3>1. x = Frame(Clear(F) /\ cond, (Clear(F) /\ cond) \/ ~Clear(F), FALSE)
      BY <2>2
    <3>2. ~Clear(F) => k = s.skiplevel /\ m = s.ifstack
      BY <2>1, <2>2
    <3>3. Clear(F) => /\ k = s.iflevel + 1
                      /\ m = [s.ifstack EXCEPT ![s.iflevel + 1] = IF cond THEN PARSEMODE ELSE SKIPMODE]
      BY <2>1, <2>2
    <3>4. s.iflevel \in Nat /\ s.skiplevel \in Nat /\ s.ifstack \in IfStacks /\ F \in Seq(FrameType)
      BY <1>1
    <3>5. Nest(s.iflevel, s.skiplevel, s.ifstack, F)
      BY <1>1
    <3> QED BY ONLY ZenonT(30), <2>3, <3>1, <3>2, <3>3, <3>4, <3>5, cond \in BOOLEAN, NestIf
  <2> QED BY <2>4
<1>4. Append(F, x) = Flat(low) \o Append(top.frames, x) /\ Append(top.frames, x) \in Seq(FrameType)
  <2>1. Flat(low) \o Append(top.frames, x) = Append(Flat(low) \o top.frames, x)
    <3>1. Flat(low) \in Seq(FrameType) /\ top.frames \in Seq(FrameType) /\ x \in FrameType
      BY <1>1, <1>3
    <3> QED BY ONLY SMTT(30), <3>1, Ends
  <2>2. Append(top.frames, x) \in Seq(FrameType)
    BY ONLY <1>1, <1>3
  <2> QED BY <2>1, <2>2
<1>5. a \in Nat
  BY <1>1
<1> HIDE DEF a, k, m, F
<1>6. /\ [top EXCEPT !.frames = Append(top.frames, x)] \in FileType
      /\ Agrees(s, [s EXCEPT !.iflevel = a, !.skiplevel = k, !.ifstack = m], low,
                [top EXCEPT !.frames = Append(top.frames, x)])
  BY ZenonT(30), <1>3, <1>4, <1>5, Turns
<1> QED BY <1>2, <1>6

\* #else and #elseif
LEMMA TurnTurns ==
    ASSUME NEW s \in ReaderType, NEW low \in Seq(FileType), NEW top \in FileType, Matches(s, low, top),
           s.inpf = top.id, top.frames # <<>>, NEW mode \in 0 .. 3, NEW g \in FrameType,
           Last(top.frames).taken => ~g.live /\ g.taken,
           s.skiplevel = s.iflevel /\ ModeIs(Last(top.frames), s.ifstack[s.iflevel]) => ModeIs(g, mode)
    PROVE  LET f == [top EXCEPT !.frames = Append(Front(top.frames), g)]
           IN  f \in FileType /\ Agrees(s, [s EXCEPT !.ifstack[s.iflevel] = mode], low, f)
<1> DEFINE B == Front(top.frames)
           x == Last(top.frames)
           A == Flat(low)
           a == s.iflevel
           m == [s.ifstack EXCEPT ![a] = mode]
<1>1. /\ a \in Nat /\ s.skiplevel \in Nat /\ s.ifstack \in IfStacks /\ top.frames \in Seq(FrameType)
      /\ A \in Seq(FrameType) /\ Nest(a, s.skiplevel, s.ifstack, A \o top.frames)
  BY NestIs
<1>2. B \in Seq(FrameType) /\ x \in FrameType /\ top.frames = Append(B, x)
  BY <1>1, Top
<1>3. m \in IfStacks
  BY <1>1 DEF IfStacks
<1>4. [s EXCEPT !.ifstack[s.iflevel] = mode] = [s EXCEPT !.iflevel = a, !.skiplevel = s.skiplevel, !.ifstack = m]
  BY DEF ReaderType
<1>5. x.taken => ~g.live /\ g.taken
  OBVIOUS
<1>6. s.skiplevel = a /\ ModeIs(x, s.ifstack[a]) => ModeIs(g, mode)
  OBVIOUS
<1> HIDE DEF B, x, A
<1>7. A \o top.frames = Append(A \o B, x) /\ A \o Append(B, g) = Append(A \o B, g) /\ A \o B \in Seq(FrameType)
      /\ Append(B, g) \in Seq(FrameType)
  <2>1. \A y \in FrameType : A \o Append(B, y) = Append(A \o B, y)
    <3>1. A \in Seq(FrameType) /\ B \in Seq(FrameType)
      BY <1>1, <1>2
    <3> QED BY ONLY <3>1, Ends
  <2>2. A \o B \in Seq(FrameType) /\ Append(B, g) \in Seq(FrameType)
    BY ONLY <1>1, <1>2, g \in FrameType
  <2> QED BY <1>2, <2>1, <2>2
<1>8. Nest(a, s.skiplevel, m, Append(A \o B, g))
  <2>1. Nest(a, s.skiplevel, s.ifstack, Append(A \o B, x))
    BY <1>1, <1>7
  <2> HIDE DEF a
  <2> QED BY <1>1, <1>2, <1>5, <1>6, <1>7, <2>1, NestTurn
<1>9. Nest(a, s.skiplevel, m, Flat(low) \o Append(B, g))
  BY <1>7, <1>8 DEF A
<1> HIDE DEF a, m
<1>10. /\ [top EXCEPT !.frames = Append(B, g)] \in FileType
       /\ Agrees(s, [s EXCEPT !.iflevel = a, !.skiplevel = s.skiplevel, !.ifstack = m], low,
                 [top EXCEPT !.frames = Append(B, g)])
  BY <1>1, <1>3, <1>7, <1>9, Turns
<1> QED BY <1>4, <1>10 DEF B

\* #endif
LEMMA EndTurns ==
    ASSUME NEW s \in ReaderType, NEW low \in Seq(FileType), NEW top \in FileType, Matches(s, low, top),
           s.inpf = top.id, top.frames # <<>>
    PROVE  LET f == [top EXCEPT !.frames = Front(top.frames)]
           IN  f \in FileType /\ Agrees(s, EndIf(s), low, f) /\ s.iflevel > 0
<1> DEFINE B == Front(top.frames)
           x == Last(top.frames)
           A == Flat(low)
           a == s.iflevel - 1
           k == IF s.iflevel - 1 < s.skiplevel THEN s.iflevel - 1 ELSE s.skiplevel
<1>1. /\ s.iflevel \in Nat /\ s.skiplevel \in Nat /\ s.ifstack \in IfStacks /\ top.frames \in Seq(FrameType)
      /\ A \in Seq(FrameType) /\ Nest(s.iflevel, s.skiplevel, s.ifstack, A \o top.frames)
  BY NestIs
<1>2. B \in Seq(FrameType) /\ x \in FrameType /\ top.frames = Append(B, x)
  BY <1>1, Top
<1>3. EndIf(s) = [s EXCEPT !.iflevel = a, !.skiplevel = k, !.ifstack = s.ifstack]
  BY DEF ReaderType, EndIf
<1> HIDE DEF B, x, A
<1>4. A \o top.frames = Append(A \o B, x) /\ A \o B \in Seq(FrameType)
  <2>1. \A y \in FrameType : A \o Append(B, y) = Append(A \o B, y)
    <3>1. A \in Seq(FrameType) /\ B \in Seq(FrameType)
      BY <1>1, <1>2
    <3> QED BY ONLY <3>1, Ends
  <2>2. A \o B \in Seq(FrameType)
    BY ONLY <1>1, <1>2
  <2> QED BY <1>2, <2>1, <2>2
<1>5. Nest(a, k, s.ifstack, A \o B) /\ s.iflevel > 0 /\ a \in Nat
  <2>1. Nest(s.iflevel, s.skiplevel, s.ifstack, Append(A \o B, x))
    BY <1>1, <1>4
  <2> QED BY <1>1, <1>2, <1>4, <2>1, NestEnd
<1>6. k \in Nat
  BY <1>1, <1>5
<1>7. Nest(a, k, s.ifstack, Flat(low) \o B)
  BY <1>5 DEF A
<1> HIDE DEF a, k
<1>8. /\ [top EXCEPT !.frames = B] \in FileType
       /\ Agrees(s, [s EXCEPT !.iflevel = a, !.skiplevel = k, !.ifstack = s.ifstack], low, [top EXCEPT !.frames = B])
  BY <1>1, <1>2, <1>5, <1>6, <1>7, Turns
<1> QED BY <1>3, <1>5, <1>8 DEF B

-----------------------------------------------------------------------------
(* The stack: flags, include files.                                        *)

\* Concatenation.
LEMMA Concat ==
    \A V : \A a, b, c \in Seq(V) : (a \o b) \o c = a \o (b \o c) /\ a \o <<>> = a /\ a \o b \in Seq(V)
  OBVIOUS

\* The flags on top of the stack can be taken off.
LEMMA FlagsOff ==
    ASSUME NEW s \in ReaderType, NEW low \in Seq(FileType), NEW top \in FileType,
           s.stack = Held(low) \o FlagsOf(top)
    PROVE  /\ Held(low) \in Seq(Values) /\ Dropped(s, top.parens * Len(Flags)) = Held(low)
           /\ top.parens = 1 => Len(s.stack) = Len(Held(low)) + 2 /\ s.stack = Held(low) \o Flags
<1>1. Held(low) \in Seq(Values)
  BY HeldAppend
<1>2. FlagsOf(top) \in Seq(Values) /\ Len(FlagsOf(top)) = 2 * top.parens /\ top.parens \in {0, 1}
  <2>1. 0 \in Nat
    OBVIOUS
  <2> QED BY <2>1, SavedTypes DEF FileType
<1>3. Len(Flags) = 2
  BY DEF Flags
<1> DEFINE st == Held(low)
           back == FlagsOf(top)
<1> HIDE DEF st, back
<1>4. /\ Len(s.stack) = Len(st) + Len(back) /\ Len(st) \in Nat
      /\ SubSeq(s.stack, 1, Len(st)) = st
  BY <1>1, <1>2, Back DEF st, back
<1>5. Len(back) = top.parens * Len(Flags) /\ Len(back) \in {0, 2}
  BY <1>2, <1>3 DEF back
<1>6. Dropped(s, Len(back)) = st
  <2>1. CASE Len(back) < Len(s.stack)
    <3>1. Len(s.stack) - Len(back) = Len(st)
      BY <1>4, <1>5
    <3> QED BY <1>4, <2>1, <3>1 DEF Dropped
  <2>2. CASE ~(Len(back) < Len(s.stack))
    <3>1. Len(st) = 0
      BY <1>4, <1>5, <2>2
    <3> QED BY <1>4, <2>2, <3>1 DEF Dropped
  <2> QED BY <2>1, <2>2
<1>7. top.parens = 1 => Len(s.stack) = Len(st) + 2 /\ s.stack = st \o Flags
  <2> SUFFICES ASSUME top.parens = 1 PROVE Len(s.stack) = Len(st) + 2 /\ s.stack = st \o Flags
    OBVIOUS
  <2>1. back = Flags
    BY DEF back, FlagsOf
  <2>2. s.stack = st \o back
    BY DEF st, back
  <2> QED BY <1>3, <1>4, <2>1, <2>2
<1> QED BY <1>1, <1>5, <1>6, <1>7 DEF st

\* Nothing but the stack and the parser has changed.
SameReading(s, t) ==
    /\ t.iflevel = s.iflevel /\ t.skiplevel = s.skiplevel /\ t.ifstack = s.ifstack
    /\ t.fcurrent = s.fcurrent /\ t.fline = s.fline /\ t.curlibrary = s.curlibrary /\ t.icomment = s.icomment
    /\ t.fnumber = s.fnumber /\ t.atEnd = s.atEnd

\* The parser puts its flags on the stack, or takes them off.
LEMMA Flagged ==
    ASSUME NEW s \in ReaderType, NEW low \in Seq(FileType), NEW top \in FileType, Matches(s, low, top),
           NEW t, NEW p \in {0, 1}, SameReading(s, t),
           t.stack = Held(low) \o FlagsOf([top EXCEPT !.parens = p])
    PROVE  [top EXCEPT !.parens = p] \in FileType /\ Matches(t, low, [top EXCEPT !.parens = p])
<1> DEFINE g == [top EXCEPT !.parens = p]
<1>1. /\ g \in FileType /\ g.frames = top.frames /\ g.id = top.id /\ g.line = top.line /\ g.lib = top.lib
      /\ g.comment = top.comment
  BY DEF FileType
<1>2. t.stack = Held(low) \o FlagsOf(g)
  OBVIOUS
<1> HIDE DEF g
<1>3. Numbered(t, Append(low, g))
  BY <1>1, NumberedTop DEF Matches, SameReading
<1>4. Matches(t, low, g)
  BY <1>1, <1>2, <1>3 DEF Matches, SameReading, Nested, Stands
<1> QED BY <1>1, <1>4 DEF g

\* A step that touches neither the stack nor the place.
LEMMA Ignored ==
    ASSUME NEW s, NEW low, NEW top, Matches(s, low, top), NEW t, SameReading(s, t), t.stack = s.stack
    PROVE  Matches(t, low, top)
  BY DEF Matches, SameReading, Nested, Stands, Numbered

\* #include
LEMMA Includes ==
    ASSUME NEW s \in ReaderType, NEW low \in Seq(FileType), NEW top \in FileType, Matches(s, low, top),
           s.inpf = top.id, Clear(Flat(low) \o top.frames), NEW name \in Names
    PROVE  LET t == plungequalifiedfile(s)
               g == Opened(s.fnumber + 1, top.lib)
           IN  /\ g \in FileType /\ Append(low, top) \in Seq(FileType)
               /\ Agrees(s, t, Append(low, top), g)
               /\ Agrees(s, [t EXCEPT !.included = @ \cup {name}], Append(low, top), g)
<1> DEFINE g == Opened(s.fnumber + 1, top.lib)
           q == <<s.inpf, s.curlibrary, s.iflevel, s.icomment, s.fcurrent, s.fline>>
           st == s.stack \o q
           n == s.fnumber + 1
           t == [s EXCEPT !.stack = st, !.inpf = n, !.fnumber = n, !.fcurrent = n, !.fline = 0, !.icomment = 0]
           u == [t EXCEPT !.included = s.included \cup {name}]
           a == Append(low, top)
           F == Flat(low) \o top.frames
<1>1. /\ s.iflevel \in Nat /\ s.skiplevel \in Nat /\ s.ifstack \in IfStacks
      /\ Flat(low) \in Seq(FrameType) /\ top.frames \in Seq(FrameType) /\ F \in Seq(FrameType)
      /\ Nest(s.iflevel, s.skiplevel, s.ifstack, F)
  BY NestIs
<1>2. plungequalifiedfile(s) = t
  BY DEF plungequalifiedfile, pushstk, ReaderType
<1>3. n \in Nat \ {0} /\ s.fnumber \in Nat /\ n = s.fnumber + 1
  BY DEF ReaderType
<1>4. /\ g \in FileType /\ g.id = n /\ g.line = 0 /\ g.frames = <<>> /\ g.comment = FALSE /\ g.lib = top.lib
      /\ g.parens = 0
  <2>1. 0 \in 0 .. Period - 1 /\ <<>> \in Seq(FrameType)
    BY ReaderAssumption
  <2> QED BY <1>3, <2>1 DEF FileType, Opened
<1>5. q = Saved(top, Len(F))
  <2>1. s.iflevel = Len(F)
    BY <1>1 DEF Nest
  <2> QED BY <2>1 DEF Matches, Stands, Saved
<1>6. /\ a \in Seq(FileType) /\ Held(a) = Held(low) \o (FlagsOf(top) \o Saved(top, Len(F)))
      /\ Held(a) \in Seq(Values) /\ Held(low) \in Seq(Values)
  BY HeldAppend
<1>7. st = Held(a) \o FlagsOf(g)
  <2>1. FlagsOf(g) = <<>>
    BY <1>4 DEF FlagsOf
  <2>2. Len(F) \in Nat
    BY <1>1
  <2>3. FlagsOf(top) \in Seq(Values) /\ Saved(top, Len(F)) \in Seq(Values)
    BY <2>2, SavedTypes
  <2>4. (Held(low) \o FlagsOf(top)) \o Saved(top, Len(F)) = Held(low) \o (FlagsOf(top) \o Saved(top, Len(F)))
    BY <1>6, <2>3, Concat
  <2>5. s.stack = Held(low) \o FlagsOf(top)
    BY DEF Matches
  <2>6. Held(a) \o <<>> = Held(a)
    BY <1>6, Concat
  <2> HIDE DEF q, a, F
  <2> QED BY <1>5, <1>6, <2>1, <2>4, <2>5, <2>6
<1>8. st \in Seq(Values)
  <2>1. 0 \in Nat
    OBVIOUS
  <2>2. FlagsOf(g) \in Seq(Values)
    BY <1>4, <2>1, SavedTypes
  <2>3. Held(a) \in Seq(Values)
    BY <1>6
  <2>4. Held(a) \o FlagsOf(g) \in Seq(Values)
    BY ONLY <2>2, <2>3
  <2> HIDE DEF st
  <2> QED BY <1>7, <2>4
<1>9. Flat(a) = F /\ F \o g.frames = F
  BY <1>1, <1>4, FlatAppend, Concat
<1> HIDE DEF g, q, st, n, F, a
<1>10. /\ t \in ReaderType /\ t.stack = st /\ t.inpf = n /\ t.fnumber = n /\ t.fcurrent = n /\ t.fline = 0
       /\ t.icomment = 0 /\ t.iflevel = s.iflevel /\ t.skiplevel = s.skiplevel /\ t.ifstack = s.ifstack
       /\ t.curlibrary = s.curlibrary /\ t.atEnd = s.atEnd /\ t.freading = s.freading /\ t.reread = s.reread
       /\ t.included = s.included
  <2>1. 0 \in 0 .. Period - 1
    BY ReaderAssumption
  <2> QED BY <1>3, <1>8, <2>1 DEF ReaderType, Values
<1> HIDE DEF t
<1>11. Numbered(t, Append(a, g))
  <2> DEFINE b == Append(a, g)
  <2>1. /\ a \in Seq(FileType) /\ Len(a) \in Nat /\ DOMAIN a = 1 .. Len(a) /\ DOMAIN b = 1 .. Len(a) + 1
        /\ b[Len(a) + 1] = g /\ \A i \in 1 .. Len(a) : b[i] = a[i]
    BY <1>4, <1>6
  <2> HIDE DEF b
  <2>2. Numbered(s, a)
    BY DEF Matches, a
  <2>3. \A i \in 1 .. Len(a) : a[i].id <= s.fnumber /\ a[i].id \in Nat
    <3>1. \A i \in 1 .. Len(a) : a[i] \in FileType
      BY <2>1
    <3> QED BY <2>1, <2>2, <3>1 DEF Numbered, FileType
  <2>4. \A i \in 1 .. Len(a) + 1 : i \in 1 .. Len(a) \/ i = Len(a) + 1
    BY <2>1
  <2>5. \A i \in 1 .. Len(a) + 1 : b[i].id <= n
    BY <1>3, <1>4, <2>1, <2>3, <2>4
  <2>6. \A i \in s.atEnd : i <= n
    <3>1. s.atEnd \subseteq Nat
      BY DEF ReaderType
    <3> QED BY <1>3, <2>2, <3>1 DEF Numbered
  <2>7. ASSUME NEW i \in 1 .. Len(a) + 1, NEW j \in 1 .. Len(a) + 1, i < j PROVE b[i].id < b[j].id
    <3>1. i \in 1 .. Len(a)
      BY <2>1, <2>7
    <3>2. CASE j = Len(a) + 1
      BY <1>3, <1>4, <2>1, <2>3, <3>1, <3>2
    <3>3. CASE j # Len(a) + 1
      <4>1. j \in 1 .. Len(a)
        BY <2>1, <3>3
      <4> QED BY <2>1, <2>2, <2>7, <3>1, <4>1 DEF Numbered
    <3> QED BY <3>2, <3>3
  <2>8. Numbered(t, b)
    BY <1>10, <2>1, <2>5, <2>6, <2>7 DEF Numbered
  <2> QED BY <2>8 DEF b
<1>12. Matches(t, a, g)
  <2>1. Clear(Flat(a))
    BY <1>9 DEF F
  <2>2. Nested(t, Flat(a) \o g.frames)
    BY <1>1, <1>9, <1>10 DEF Nested
  <2>3. Stands(t, g)
    BY <1>4, <1>10 DEF Stands, Matches
  <2> QED BY <1>7, <1>10, <1>11, <2>1, <2>2, <2>3 DEF Matches
<1>13. Agrees(s, t, a, g)
  BY <1>3, <1>4, <1>10, <1>12 DEF Agrees
<1>14. /\ u \in ReaderType /\ u.stack = t.stack /\ SameReading(t, u) /\ u.inpf = t.inpf
       /\ u.freading = t.freading /\ u.reread = t.reread
  BY <1>10 DEF ReaderType, SameReading
<1>15. u = [t EXCEPT !.included = @ \cup {name}]
  BY <1>10
<1> HIDE DEF u
<1>16. Agrees(s, u, a, g)
  <2>1. Matches(u, a, g)
    BY <1>12, <1>14, Ignored
  <2> QED BY <1>13, <1>14, <2>1 DEF Agrees, SameReading
<1> QED BY <1>2, <1>4, <1>6, <1>13, <1>15, <1>16 DEF a, g, t

-----------------------------------------------------------------------------
(* The end of a file.                                                      *)

\* What comes off the stack at the end of a file.
LEMMA LeftIs ==
    ASSUME NEW s \in ReaderType, NEW st \in Seq(Int \cup Libraries),
           NEW b \in Seq(Int \cup Libraries), s.stack = st \o b, Len(b) = 6,
           b[6] \in 0 .. Period - 1, b[5] \in Nat, b[4] \in {0, 1}, b[3] \in Nat, b[2] \in Libraries, b[1] \in Nat
    PROVE  /\ Left(s) \in ReaderType /\ Left(s).stack = st /\ Left(s).inpf = b[1] /\ Left(s).fcurrent = b[5]
           /\ Left(s).fline = b[6] /\ Left(s).icomment = b[4] /\ Left(s).iflevel = b[3]
           /\ Left(s).skiplevel = b[3] /\ Left(s).curlibrary = b[2]
           /\ Left(s).freading = s.freading /\ Left(s).reread = s.reread /\ Left(s).atEnd = s.atEnd
           /\ Left(s).needsemicolon = s.needsemicolon /\ Left(s).staging = s.staging
           /\ Left(s).compat = s.compat /\ Left(s).included = s.included /\ Left(s).fnumber = s.fnumber
           /\ Left(s).libraries = s.libraries /\ Left(s).libname_tab = s.libname_tab
           /\ Left(s).line = s.line /\ Left(s).ifstack = s.ifstack
<1> DEFINE V == Int \cup Libraries
           q == s.stack
<1>1. b \in Seq(V) /\ st \in Seq(V) /\ q = st \o b
  OBVIOUS
<1>2. Len(b) = 6
  OBVIOUS
<1>6. /\ Len(s.stack) = Len(st) + 6 /\ Len(st) \in Nat /\ SubSeq(s.stack, 1, Len(st)) = st
      /\ \A k \in 0 .. 5 : s.stack[Len(st) + 6 - k] = b[6 - k]
  <2> HIDE DEF V, q
  <2>1. /\ Len(st \o b) = Len(st) + Len(b) /\ Len(st) \in Nat
        /\ \A k \in 0 .. Len(b) - 1 : (st \o b)[Len(st) + Len(b) - k] = b[Len(b) - k]
        /\ SubSeq(st \o b, 1, Len(st)) = st
    BY ONLY <1>1, Back
  <2>2. Len(b) - 1 = 5
    BY <1>2
  <2>3. Len(q) = Len(st) + 6 /\ SubSeq(q, 1, Len(st)) = st /\ \A k \in 0 .. 5 : q[Len(st) + 6 - k] = b[6 - k]
    BY ONLY <1>1, <1>2, <2>1, <2>2
  <2> QED BY <2>1, <2>3 DEF q
<1>3. /\ Popped(s, 0) = b[6] /\ Popped(s, 1) = b[5] /\ Popped(s, 2) = b[4]
      /\ Popped(s, 3) = b[3] /\ Popped(s, 4) = b[2] /\ Popped(s, 5) = b[1]
  <2>1. \A k \in 0 .. 5 : Popped(s, k) = b[6 - k]
    <3> TAKE k \in 0 .. 5
    <3>1. k < Len(s.stack) /\ Len(s.stack) - k = Len(st) + 6 - k
      <4>1. Len(s.stack) = Len(st) + 6 /\ Len(st) \in Nat
        BY <1>6
      <4> QED BY <4>1
    <3> QED BY <1>6, <3>1 DEF Popped
  <2> QED BY <2>1, <1>2
<1>4. Dropped(s, 6) = st
  <2>1. 6 < Len(s.stack) => Len(s.stack) - 6 = Len(st)
    BY <1>6
  <2>2. ~(6 < Len(s.stack)) => Len(st) = 0
    BY <1>6
  <2> QED BY <2>1, <2>2, <1>6 DEF Dropped
<1>5. st \in Seq(Int \cup Libraries)
  OBVIOUS
<1> QED BY <1>3, <1>4, <1>5 DEF Left, ReaderType

\* The end of a file: the reading stands where it stood in the file around it.
LEMMA Returns ==
    ASSUME NEW s \in ReaderType, NEW low \in Seq(FileType), NEW f \in FileType, NEW top \in FileType,
           Matches(s, Append(low, f), top), top.parens = 0
    PROVE  /\ Left(s) \in ReaderType /\ Matches(Left(s), low, f) /\ Left(s).inpf = f.id
           /\ Left(s).freading = s.freading /\ Left(s).reread = s.reread /\ Left(s).atEnd = s.atEnd
           /\ Left(s).needsemicolon = s.needsemicolon /\ Left(s).staging = s.staging
           /\ Left(s).compat = s.compat /\ Left(s).included = s.included /\ Left(s).fnumber = s.fnumber
           /\ Left(s).libraries = s.libraries /\ Left(s).libname_tab = s.libname_tab /\ Left(s).line = s.line
<1> DEFINE a == Append(low, f)
           F == Flat(low) \o f.frames
           c == IF f.comment THEN 1 ELSE 0
           st == Held(low) \o FlagsOf(f)
           t == Left(s)
<1>1. /\ a \in Seq(FileType) /\ Held(a) = Held(low) \o (FlagsOf(f) \o Saved(f, Len(F)))
      /\ Held(low) \in Seq(Values) /\ Held(a) \in Seq(Values)
  BY HeldAppend
<1>2. /\ Flat(a) = F /\ Flat(low) \in Seq(FrameType) /\ F \in Seq(FrameType) /\ f.frames \in Seq(FrameType)
  <2>1. f.frames \in Seq(FrameType)
    BY DEF FileType
  <2>2. Flat(a) = F /\ Flat(low) \in Seq(FrameType)
    BY FlatAppend
  <2> HIDE DEF a
  <2> QED BY <2>1, <2>2
<1>3. Len(F) \in Nat
  BY <1>2
<1>4. f.id \in Nat /\ c \in {0, 1} /\ f.line \in 0 .. Period - 1 /\ f.lib \in Libraries
  BY DEF FileType
<1>5. Saved(f, Len(F)) = <<f.id, f.lib, Len(F), c, f.id, f.line>>
  BY DEF Saved
<1>6. FlagsOf(f) \in Seq(Values) /\ Saved(f, Len(F)) \in Seq(Values)
  BY <1>3, SavedTypes
<1>7. s.stack = st \o Saved(f, Len(F)) /\ st \in Seq(Values)
  <2>1. s.stack = Held(a) \o FlagsOf(top) /\ FlagsOf(top) = <<>>
    BY DEF Matches, FlagsOf
  <2> HIDE DEF a, F
  <2>2. s.stack = Held(a)
    BY <1>1, <2>1, Concat
  <2>3. st \o Saved(f, Len(F)) = Held(low) \o (FlagsOf(f) \o Saved(f, Len(F))) /\ st \in Seq(Values)
    <3> DEFINE x == Held(low)
               y == FlagsOf(f)
               z == Saved(f, Len(F))
    <3>1. x \in Seq(Values) /\ y \in Seq(Values) /\ z \in Seq(Values)
      BY <1>1, <1>6
    <3> HIDE DEF x, y, z
    <3>2. (x \o y) \o z = x \o (y \o z) /\ x \o y \in Seq(Values)
      BY ONLY <3>1, Concat
    <3> QED BY <3>2 DEF x, y, z
  <2> QED BY <1>1, <2>2, <2>3
<1>8. Nested(s, F \o top.frames) /\ Clear(F) /\ Numbered(s, Append(a, top))
  BY <1>2 DEF Matches
<1> HIDE DEF a, F, c, st, t
<1>10. st \in Seq(Int \cup Libraries)
  BY <1>7 DEF Values
<1>11. /\ t \in ReaderType
       /\ t.stack = st /\ t.inpf = f.id /\ t.fcurrent = f.id /\ t.fline = f.line /\ t.icomment = c
       /\ t.iflevel = Len(F) /\ t.skiplevel = Len(F) /\ t.curlibrary = f.lib
       /\ t.ifstack = s.ifstack /\ t.freading = s.freading /\ t.reread = s.reread /\ t.atEnd = s.atEnd
       /\ t.needsemicolon = s.needsemicolon /\ t.staging = s.staging
       /\ t.compat = s.compat /\ t.included = s.included /\ t.fnumber = s.fnumber
       /\ t.libraries = s.libraries /\ t.libname_tab = s.libname_tab /\ t.line = s.line
  <2> DEFINE b == Saved(f, Len(F))
             e == Len(F)
  <2>1. e \in Nat
    BY <1>3
  <2>2. b \in Seq(Int \cup Libraries) /\ s.stack = st \o b
    BY <1>6, <1>7 DEF Values
  <2>3. Len(b) = 6 /\ b[6] = f.line /\ b[5] = f.id /\ b[4] = c /\ b[3] = e /\ b[2] = f.lib /\ b[1] = f.id
    BY <1>5
  <2> HIDE DEF b, e
  <2>4. /\ b[6] \in 0 .. Period - 1 /\ b[5] \in Nat /\ b[4] \in {0, 1} /\ b[3] \in Nat
        /\ b[2] \in Libraries /\ b[1] \in Nat
    BY <1>4, <2>1, <2>3
  <2>5. /\ t \in ReaderType
        /\ t.stack = st /\ t.inpf = b[1] /\ t.fcurrent = b[5] /\ t.fline = b[6] /\ t.icomment = b[4]
        /\ t.iflevel = b[3] /\ t.skiplevel = b[3] /\ t.curlibrary = b[2]
        /\ t.ifstack = s.ifstack /\ t.freading = s.freading /\ t.reread = s.reread /\ t.atEnd = s.atEnd
        /\ t.needsemicolon = s.needsemicolon /\ t.staging = s.staging
        /\ t.compat = s.compat /\ t.included = s.included /\ t.fnumber = s.fnumber
        /\ t.libraries = s.libraries /\ t.libname_tab = s.libname_tab /\ t.line = s.line
    BY ONLY ZenonT(30), s \in ReaderType, <1>10, <2>2, <2>3, <2>4, LeftIs DEF t
  <2> QED BY <2>3, <2>5 DEF e
<1>13. Nested(t, F)
  <2>1. s.iflevel \in Nat /\ s.skiplevel \in Nat /\ s.ifstack \in IfStacks /\ top.frames \in Seq(FrameType)
    BY DEF ReaderType, IfStacks, FileType
  <2>2. Nest(Len(F), Len(F), s.ifstack, F)
    BY <1>2, <1>8, <2>1, NestOuter DEF Nested
  <2> QED BY <1>11, <2>2 DEF Nested
<1>14. Clear(Flat(low))
  BY <1>2, <1>8, ClearJoin DEF F
<1>15. Numbered(t, a)
  <2> DEFINE b == Append(a, top)
  <2>1. /\ DOMAIN a = 1 .. Len(a) /\ DOMAIN b = 1 .. Len(a) + 1 /\ Len(a) \in Nat
        /\ \A i \in 1 .. Len(a) : b[i] = a[i]
    BY <1>1
  <2>2. \A i \in 1 .. Len(a) : i \in 1 .. Len(a) + 1
    BY <2>1
  <2>3. Numbered(s, b)
    BY <1>8
  <2> HIDE DEF b
  <2> QED BY <1>11, <2>1, <2>2, <2>3 DEF Numbered
<1>16. Matches(t, low, f)
  <2>1. Stands(t, f)
    BY <1>11 DEF Stands, c
  <2> QED BY <1>11, <1>13, <1>14, <1>15, <2>1 DEF Matches, F, a, st
<1> QED BY <1>11, <1>16 DEF t

-----------------------------------------------------------------------------
(* A line is obeyed as it is meant.                                        *)

\* What a change of the last element makes of a sequence.
LEMMA LastChanged ==
    ASSUME NEW V, NEW low \in Seq(V), NEW top \in V
    PROVE  /\ Len(Append(low, top)) = Len(low) + 1 /\ Append(low, top)[Len(low) + 1] = top
           /\ Append(low, top) \in Seq(V)
           /\ Last(Append(low, top)) = top /\ Len(low) \in Nat
           /\ \A g \in V : [Append(low, top) EXCEPT ![Len(low) + 1] = g] = Append(low, g)
  BY Appended

\* What a change of the last frame makes of the frames of a file.
LEMMA FramesChanged ==
    ASSUME NEW F \in Seq(FrameType), F # <<>>
    PROVE  /\ Front(F) = SubSeq(F, 1, Len(F) - 1) /\ Last(F) = F[Len(F)] /\ Last(F) \in FrameType
           /\ Front(F) \in Seq(FrameType)
           /\ \A g \in FrameType : /\ [F EXCEPT ![Len(F)] = g] = Append(Front(F), g)
                                  /\ Append(Front(F), g) \in Seq(FrameType)
<1> DEFINE B == Front(F)
           x == Last(F)
<1>1. B \in Seq(FrameType) /\ x \in FrameType /\ F = Append(B, x) /\ Len(B) = Len(F) - 1 /\ Len(F) \in Nat \ {0}
  BY Top
<1>2. B = SubSeq(F, 1, Len(F) - 1) /\ x = F[Len(F)]
  BY DEF Front, Last
<1> HIDE DEF B, x
<1>3. Len(B) + 1 = Len(F)
  BY <1>1
<1>4. \A g \in FrameType : [Append(B, x) EXCEPT ![Len(B) + 1] = g] = Append(B, g)
  BY <1>1, Appended
<1>5. ASSUME NEW g \in FrameType PROVE [F EXCEPT ![Len(F)] = g] = Append(B, g) /\ Append(B, g) \in Seq(FrameType)
  <2>1. [F EXCEPT ![Len(F)] = g] = Append(B, g)
    BY <1>1, <1>3, <1>4
  <2>2. Append(B, g) \in Seq(FrameType)
    BY <1>1
  <2> QED BY <2>1, <2>2
<1> QED BY <1>1, <1>2, <1>5 DEF B, x

\* What a line can say.
LEMMA Ops ==
    /\ \A body \in Directives :
         /\ body.op \in {"#if", "#elseif", "#include", "#library", "#else", "#endif", "#endinput", "#define"}
         /\ body # EMPTY /\ body \notin Text
         /\ body.op = "#include" => body.arg \in Names
         /\ body.op = "#library" => body.arg \in Libraries
    /\ \A body \in Text : body.op \in {"statement", "expression", "(", ")"} /\ body # EMPTY
    /\ EMPTY.op = "empty"
    /\ \A body \in Bodies : body = EMPTY \/ body \in Text \/ body \in Directives
<1>1. ASSUME NEW body \in Directives
      PROVE  /\ body.op \in {"#if", "#elseif", "#include", "#library", "#else", "#endif", "#endinput", "#define"}
             /\ body.op = "#include" => body.arg \in Names
             /\ body.op = "#library" => body.arg \in Libraries
  <2>1. CASE body \in {Line(op, b) : op \in {"#if", "#elseif"}, b \in Truth}
    BY <2>1 DEF Line
  <2>2. CASE body \in {Line("#include", n) : n \in Names}
    BY <2>2 DEF Line
  <2>3. CASE body \in {Line("#library", l) : l \in UNION {mode.libraries : mode \in Modes}}
    BY <2>3 DEF Line, Libraries
  <2>4. CASE body \in {Line(op, NONE) : op \in {"#else", "#endif", "#endinput", "#define"}}
    BY <2>4 DEF Line
  <2> QED BY <2>1, <2>2, <2>3, <2>4 DEF Directives
<1>2. \A body \in Text : body.op \in {"statement", "expression", "(", ")"}
  BY DEF Text, Line
<1>3. EMPTY.op = "empty"
  BY DEF EMPTY, Line
<1> QED BY <1>1, <1>2, <1>3 DEF Bodies

\* What is live is what is not skipped.
LEMMA LiveSkips ==
    ASSUME NEW s \in ReaderType, NEW low \in Seq(FileType), NEW top \in FileType, Matches(s, low, top)
    PROVE  /\ Live(Append(low, top)) <=> Clear(Flat(low) \o top.frames)
           /\ SKIPPING(s) <=> ~Live(Append(low, top))
<1>1. Append(low, top) \in Seq(FileType)
  OBVIOUS
<1>2. Live(Append(low, top)) <=> Clear(Flat(Append(low, top)))
  BY <1>1, LiveIsClear
<1>3. Flat(Append(low, top)) = Flat(low) \o top.frames
  BY FlatAppend
<1>4. SKIPPING(s) <=> ~Clear(Flat(low) \o top.frames)
  BY NestIs
<1> QED BY <1>2, <1>3, <1>4

\* The innermost file after a line: the same one, or one that has been opened.
Innermost(s, low, top, l, g) ==
    \/ l = low /\ g.id = top.id
    \/ l = Append(low, top) /\ g.id = s.fnumber + 1

\* The step from s to t does to the state what the line does to the meaning.
Obeyed(s, t, low, top, l, g) ==
    /\ l \in Seq(FileType) /\ g \in FileType
    /\ Meaning(Append(low, top), s.line.body, s) = Append(l, g)
    /\ Agrees(s, t, l, g)
    /\ Innermost(s, low, top, l, g)

\* A line that changes nothing.
LEMMA Unmoved ==
    ASSUME NEW s \in ReaderType, NEW low \in Seq(FileType), NEW top \in FileType, Matches(s, low, top),
           s.inpf = top.id
    PROVE  Agrees(s, s, low, top)
  BY DEF Agrees, FileType

\* The lines of the conditional blocks.
LEMMA BranchesObeyed ==
    ASSUME NEW s \in ReaderType, NEW low \in Seq(FileType), NEW top \in FileType, Matches(s, low, top),
           Legal(s, low, top, s.line.body),
           s.line.body.op \in {"#if", "#else", "#elseif", "#endif"}
    PROVE  \E l, g : Obeyed(s, Directive(s), low, top, l, g)
<1> DEFINE body == s.line.body
           op == body.op
           arg == body.arg
           a == Append(low, top)
           n == Len(low) + 1
           F == top.frames
<1>1. /\ Len(a) = n /\ a[n] = top /\ a \in Seq(FileType)
      /\ \A g \in FileType : [a EXCEPT ![n] = g] = Append(low, g)
  BY LastChanged
<1>2. F \in Seq(FrameType) /\ s.inpf = top.id
  BY DEF FileType, Legal
<1>3. Live(a) <=> Clear(Flat(low) \o F)
  BY LiveSkips
<1> HIDE DEF a, n
<1>4. CASE op = "#if"
  <2> DEFINE C == Clear(Flat(low) \o F)
             cond == arg = "true"
             yes == C /\ cond
             x == Frame(yes, yes \/ ~C, FALSE)
             g == [top EXCEPT !.frames = Append(F, x)]
  <2>1. Len(Flat(low) \o F) < MaxNest
    BY <1>4 DEF Legal
  <2>2. g \in FileType /\ Agrees(s, If(s, cond), low, g)
    <3>1. cond \in BOOLEAN
      OBVIOUS
    <3>2. x = Frame(Clear(Flat(low) \o top.frames) /\ cond,
                    (Clear(Flat(low) \o top.frames) /\ cond) \/ ~Clear(Flat(low) \o top.frames), FALSE)
      OBVIOUS
    <3>3. Matches(s, low, top) /\ s.inpf = top.id /\ Len(Flat(low) \o top.frames) < MaxNest
      BY <1>2, <2>1
    <3> HIDE DEF cond, x
    <3> QED BY ONLY s \in ReaderType, low \in Seq(FileType), top \in FileType, <3>1, <3>2, <3>3, IfTurns DEF g, F
  <2>3. Directive(s) = If(s, cond)
    BY <1>4 DEF Directive
  <2>4. Meaning(a, body, s) = Append(low, g)
    <3>1. Live(a) = C
      BY <1>3 DEF Live, Clear
    <3>2. Meaning(a, body, s) =
            [a EXCEPT ![n].frames = Append(@, Frame(Live(a) /\ cond, (Live(a) /\ cond) \/ ~Live(a), FALSE))]
      BY <1>1, <1>4 DEF Meaning
    <3>3. Meaning(a, body, s) = [a EXCEPT ![n].frames = Append(@, x)]
      BY <3>1, <3>2
    <3>4. [a EXCEPT ![n].frames = Append(@, x)] = [a EXCEPT ![n] = g]
      <4> HIDE DEF x
      <4> QED BY <1>1
    <3> HIDE DEF g, x
    <3> QED BY <1>1, <2>2, <3>3, <3>4
  <2>5. g.id = top.id
    BY DEF FileType
  <2> HIDE DEF g
  <2> QED BY <2>2, <2>3, <2>4, <2>5 DEF Obeyed, Innermost, a
<1>5. CASE op = "#endif"
  <2> DEFINE g == [top EXCEPT !.frames = Front(F)]
  <2>1. F # <<>>
    BY <1>5 DEF Legal
  <2>2. g \in FileType /\ Agrees(s, EndIf(s), low, g) /\ s.iflevel > 0
    BY <1>2, <2>1, EndTurns
  <2>3. Directive(s) = EndIf(s)
    <3>1. s.iflevel # 0
      BY <2>2 DEF ReaderType
    <3> QED BY <1>5, <2>2, <3>1 DEF Directive
  <2>4. Meaning(a, body, s) = Append(low, g)
    <3>1. Meaning(a, body, s) = [a EXCEPT ![n].frames = SubSeq(@, 1, Len(F) - 1)]
      BY <1>1, <1>5 DEF Meaning
    <3>2. Front(F) = SubSeq(F, 1, Len(F) - 1)
      BY <1>2, <2>1, FramesChanged
    <3>3. [a EXCEPT ![n].frames = SubSeq(@, 1, Len(F) - 1)] = [a EXCEPT ![n] = g]
      BY <1>1, <3>2
    <3> HIDE DEF g
    <3> QED BY <1>1, <2>2, <3>1, <3>3
  <2>5. g.id = top.id
    BY DEF FileType
  <2> HIDE DEF g
  <2> QED BY <2>2, <2>3, <2>4, <2>5 DEF Obeyed, Innermost, a
<1>6. ASSUME NEW y \in FrameType, NEW mode \in 0 .. 3, F # <<>>,
             Directive(s) = [s EXCEPT !.ifstack[s.iflevel] = mode],
             Meaning(a, body, s) = [a EXCEPT ![n].frames[Len(F)] = y],
             Last(F).taken => ~y.live /\ y.taken,
             s.skiplevel = s.iflevel /\ ModeIs(Last(F), s.ifstack[s.iflevel]) => ModeIs(y, mode)
      PROVE  \E l, g : Obeyed(s, Directive(s), low, top, l, g)
  <2> DEFINE g == [top EXCEPT !.frames = Append(Front(F), y)]
  <2>1. g \in FileType /\ Agrees(s, [s EXCEPT !.ifstack[s.iflevel] = mode], low, g)
    BY <1>2, <1>6, TurnTurns
  <2>2. Meaning(a, body, s) = Append(low, g)
    <3>1. [F EXCEPT ![Len(F)] = y] = Append(Front(F), y)
      BY <1>2, <1>6, FramesChanged
    <3>2. [a EXCEPT ![n].frames[Len(F)] = y] = [a EXCEPT ![n] = g]
      BY <1>1, <3>1
    <3> HIDE DEF g
    <3> QED BY <1>1, <1>6, <2>1, <3>2
  <2>3. g.id = top.id
    BY DEF FileType
  <2> HIDE DEF g
  <2> QED BY <1>6, <2>1, <2>2, <2>3 DEF Obeyed, Innermost, a
<1>7. ASSUME F # <<>> PROVE s.iflevel \in 1 .. MaxNest /\ Last(F) \in FrameType /\ Last(F) = F[Len(F)]
  <2>1. /\ s.iflevel \in Nat /\ Flat(low) \in Seq(FrameType)
        /\ Nest(s.iflevel, s.skiplevel, s.ifstack, Flat(low) \o F)
    BY NestIs
  <2>2. s.iflevel = Len(Flat(low) \o F) /\ s.iflevel <= MaxNest /\ MaxNest \in Nat
    BY <2>1, ReaderAssumption DEF Nest
  <2>3. Len(Flat(low) \o F) = Len(Flat(low)) + Len(F) /\ Len(F) \in Nat \ {0} /\ Len(Flat(low)) \in Nat
    BY <1>2, <1>7, <2>1
  <2> QED BY <1>2, <1>7, <2>1, <2>2, <2>3, FramesChanged
<1>8. CASE op = "#else"
  <2>1. F # <<>> /\ ~Last(F).last
    BY <1>8 DEF Legal
  <2> DEFINE x == Last(F)
             y == Branch(x, TRUE, TRUE)
             old == s.ifstack[s.iflevel]
             mode == IF Parsed(old) THEN SKIPMODE + PARSEMODE ELSE IF old = SKIPMODE THEN 0 ELSE old
  <2>2. s.iflevel \in 1 .. MaxNest /\ x \in FrameType /\ x = F[Len(F)] /\ old \in 0 .. 3
    BY <1>7, <2>1 DEF ReaderType
  <2>3. y \in FrameType /\ (y.live <=> ~x.taken) /\ y.taken /\ y.last
    BY <2>2, FrameTypes
  <2>4. mode \in 0 .. 3
    BY <2>2 DEF Parsed, SKIPMODE, PARSEMODE
  <2>5. Directive(s) = [s EXCEPT !.ifstack[s.iflevel] = mode]
    BY <1>8, <2>2 DEF Directive, Else, ReaderType
  <2>6. Meaning(a, body, s) = [a EXCEPT ![n].frames[Len(F)] = y]
    <3>1. Meaning(a, body, s) = [a EXCEPT ![n].frames[Len(F)] = Branch(@, TRUE, TRUE)]
      BY <1>1, <1>8 DEF Meaning
    <3> QED BY <1>1, <2>2, <3>1
  <2>7. ModeIs(x, old) => ModeIs(y, mode)
    <3> HIDE DEF y, x
    <3> QED BY <2>1, <2>2, <2>3 DEF ModeIs, Parsed, SKIPMODE, PARSEMODE, x
  <2> HIDE DEF y, mode
  <2> QED BY <1>6, <2>1, <2>3, <2>4, <2>5, <2>6, <2>7
<1>9. CASE op = "#elseif"
  <2>1. F # <<>> /\ ~Last(F).last
    BY <1>9 DEF Legal
  <2> DEFINE x == Last(F)
             cond == arg = "true"
             y == Branch(x, cond, FALSE)
             old == s.ifstack[s.iflevel]
             mode == IF Parsed(old) THEN SKIPMODE + PARSEMODE
                     ELSE IF cond /\ s.skiplevel = s.iflevel THEN PARSEMODE ELSE SKIPMODE
  <2>2. s.iflevel \in 1 .. MaxNest /\ x \in FrameType /\ x = F[Len(F)] /\ old \in 0 .. 3 /\ cond \in BOOLEAN
    BY <1>7, <2>1 DEF ReaderType
  <2>3. y \in FrameType /\ (y.live <=> cond /\ ~x.taken) /\ (y.taken <=> x.taken \/ cond)
    <3> HIDE DEF cond, x
    <3> QED BY <2>2, FrameTypes
  <2>4. mode \in 0 .. 3
    BY <2>2 DEF Parsed, SKIPMODE, PARSEMODE
  <2>5. Directive(s) = [s EXCEPT !.ifstack[s.iflevel] = mode]
    BY <1>9, <2>2 DEF Directive, ElseIf, ReaderType
  <2>6. Meaning(a, body, s) = [a EXCEPT ![n].frames[Len(F)] = y]
    <3>1. Meaning(a, body, s) = [a EXCEPT ![n].frames[Len(F)] = Branch(@, cond, FALSE)]
      BY <1>1, <1>9 DEF Meaning
    <3> HIDE DEF cond
    <3> QED BY <1>1, <2>2, <3>1
  <2>7. s.skiplevel = s.iflevel /\ ModeIs(x, old) => ModeIs(y, mode)
    <3> HIDE DEF y, x, cond
    <3> QED BY <2>1, <2>2, <2>3 DEF ModeIs, Parsed, SKIPMODE, PARSEMODE, x
  <2>8. x.taken => ~y.live /\ y.taken
    BY <2>3
  <2> HIDE DEF y, mode
  <2> QED BY <1>6, <2>1, <2>3, <2>4, <2>5, <2>6, <2>7, <2>8
<1> QED BY <1>4, <1>5, <1>8, <1>9

-----------------------------------------------------------------------------
(* The lines that are no #if blocks.                                       *)

\* The other directives.
LEMMA OthersObeyed ==
    ASSUME NEW s \in ReaderType, NEW low \in Seq(FileType), NEW top \in FileType, Matches(s, low, top),
           Legal(s, low, top, s.line.body), s.line.body \in Directives,
           s.line.body.op \in {"#include", "#library", "#endinput", "#define"}
    PROVE  \E l, g : Obeyed(s, Directive(s), low, top, l, g)
<1> DEFINE body == s.line.body
           op == body.op
           arg == body.arg
           a == Append(low, top)
           n == Len(low) + 1
           live == ~SKIPPING(s)
<1>1. /\ Len(a) = n /\ a[n] = top /\ a \in Seq(FileType)
      /\ \A g \in FileType : [a EXCEPT ![n] = g] = Append(low, g)
  BY LastChanged
<1>2. /\ s.inpf = top.id /\ top.id \in Nat \ {0}
      /\ Live(a) <=> live
      /\ live <=> Clear(Flat(low) \o top.frames)
  <2>1. s.inpf = top.id /\ top.id \in Nat \ {0}
    BY DEF FileType, Legal
  <2>2. (Live(a) <=> live) /\ (live <=> Clear(Flat(low) \o top.frames))
    BY LiveSkips
  <2> QED BY <2>1, <2>2
<1>3. ASSUME Directive(s) = s, Meaning(a, body, s) = a PROVE \E l, g : Obeyed(s, Directive(s), low, top, l, g)
  <2>1. Agrees(s, s, low, top)
    BY <1>2, Unmoved
  <2> QED BY <1>3, <2>1 DEF Obeyed, Innermost
<1> HIDE DEF a, n
<1>4. CASE ~live
  <2>1. Directive(s) = s
    BY <1>4 DEF Directive
  <2>2. Meaning(a, body, s) = a
    BY <1>1, <1>2, <1>4 DEF Meaning
  <2> QED BY <1>3, <2>1, <2>2
<1>5. CASE op = "#define"
  <2>1. Directive(s) = s
    BY <1>5 DEF Directive
  <2>2. Meaning(a, body, s) = a
    BY <1>5 DEF Meaning
  <2> QED BY <1>3, <2>1, <2>2
<1>6. CASE live /\ op = "#endinput"
  <2> DEFINE t == [s EXCEPT !.inpf = 0]
  <2>1. Directive(s) = t
    BY <1>6 DEF Directive
  <2>2. Meaning(a, body, s) = a
    BY <1>6 DEF Meaning
  <2>3. t \in ReaderType /\ SameReading(s, t) /\ t.stack = s.stack /\ t.inpf = 0 /\ t.freading = s.freading
        /\ t.reread = s.reread
    BY DEF ReaderType, SameReading
  <2> HIDE DEF t
  <2>4. Matches(t, low, top)
    BY <2>3, Ignored
  <2>5. top.parens = 0
    BY <1>6 DEF Legal
  <2>6. Agrees(s, t, low, top)
    BY <2>3, <2>4, <2>5 DEF Agrees, SameReading
  <2> QED BY <2>1, <2>2, <2>6 DEF Obeyed, Innermost, a
<1>7. CASE live /\ op = "#library"
  <2> DEFINE t == [s EXCEPT !.libname_tab = @ \cup {arg}, !.curlibrary = arg]
             g == [top EXCEPT !.lib = arg]
  <2>1. arg \in s.libraries \ s.libname_tab
    BY <1>7 DEF Legal
  <2>2. arg \in Libraries
    BY <2>1 DEF ReaderType
  <2>3. Directive(s) = t
    BY <1>7, <2>1 DEF Directive, PragmaLibrary
  <2>4. /\ g \in FileType /\ g.id = top.id /\ g.lib = arg /\ g.frames = top.frames /\ g.line = top.line
        /\ g.comment = top.comment /\ g.parens = top.parens
    BY <2>2 DEF FileType
  <2>5. Meaning(a, body, s) = Append(low, g)
    <3>1. Meaning(a, body, s) = [a EXCEPT ![n].lib = arg]
      BY <1>1, <1>2, <1>7 DEF Meaning
    <3>2. [a EXCEPT ![n].lib = arg] = [a EXCEPT ![n] = g]
      BY <1>1
    <3> HIDE DEF g
    <3> QED BY <1>1, <2>4, <3>1, <3>2
  <2>6. /\ t \in ReaderType /\ t.stack = s.stack /\ t.inpf = s.inpf /\ t.freading = s.freading
        /\ t.reread = s.reread /\ t.atEnd = s.atEnd /\ t.iflevel = s.iflevel /\ t.skiplevel = s.skiplevel
        /\ t.ifstack = s.ifstack /\ t.fcurrent = s.fcurrent /\ t.fline = s.fline /\ t.icomment = s.icomment
        /\ t.fnumber = s.fnumber /\ t.curlibrary = arg
    BY <2>2 DEF ReaderType
  <2> HIDE DEF t, g
  <2>7. Matches(t, low, g)
    <3>1. Numbered(t, Append(low, g))
      BY <2>4, <2>6, NumberedTop DEF Matches
    <3>2. FlagsOf(g) = FlagsOf(top)
      BY <2>4 DEF FlagsOf
    <3>3. t.stack = Held(low) \o FlagsOf(g)
      BY <2>6, <3>2 DEF Matches
    <3>4. Nested(t, Flat(low) \o g.frames) /\ Clear(Flat(low))
      BY <2>4, <2>6 DEF Matches, Nested
    <3>5. Stands(t, g)
      BY <2>4, <2>6 DEF Matches, Stands
    <3> QED BY <3>1, <3>3, <3>4, <3>5 DEF Matches
  <2>8. Agrees(s, t, low, g)
    BY <1>2, <2>4, <2>6, <2>7 DEF Agrees
  <2> QED BY <2>3, <2>4, <2>5, <2>8 DEF Obeyed, Innermost, a
<1>8. CASE live /\ op = "#include" /\ s.compat /\ arg \in s.included
  <2>1. Directive(s) = s
    BY <1>8 DEF Directive, doinclude
  <2>2. Meaning(a, body, s) = a
    BY <1>1, <1>2, <1>8 DEF Meaning
  <2> QED BY <1>3, <2>1, <2>2
<1>9. CASE live /\ op = "#include" /\ ~(s.compat /\ arg \in s.included)
  <2> DEFINE t == plungequalifiedfile(s)
             u == [t EXCEPT !.included = @ \cup {arg}]
             g == Opened(s.fnumber + 1, top.lib)
  <2>1. arg \in Names
    BY <1>9, Ops
  <2>2. s.inpf = top.id /\ Clear(Flat(low) \o top.frames)
    BY <1>2, <1>9
  <2>3. g \in FileType /\ a \in Seq(FileType) /\ Agrees(s, t, a, g) /\ Agrees(s, u, a, g)
    <3> HIDE DEF live
    <3> QED BY <2>1, <2>2, Includes DEF a
  <2>4. Directive(s) = IF s.compat THEN u ELSE t
    BY <1>9 DEF Directive, doinclude
  <2>5. g.id = s.fnumber + 1
    BY DEF Opened
  <2>6. Meaning(a, body, s) = Append(a, g)
    BY <1>1, <1>2, <1>9 DEF Meaning
  <2> HIDE DEF t, u, g
  <2>7. Agrees(s, Directive(s), a, g)
    BY <2>3, <2>4
  <2> QED BY <2>3, <2>5, <2>6, <2>7 DEF Obeyed, Innermost, a
<1> QED BY <1>4, <1>5, <1>6, <1>7, <1>8, <1>9

\* The lines that are not directives.
LEMMA TextObeyed ==
    ASSUME NEW s \in ReaderType, NEW low \in Seq(FileType), NEW top \in FileType, Matches(s, low, top),
           Legal(s, low, top, s.line.body), s.line.body \in Text
    PROVE  \E l, g : Obeyed(s, IF SKIPPING(s) THEN s ELSE Parsing(s), low, top, l, g)
<1> DEFINE body == s.line.body
           op == body.op
           a == Append(low, top)
           n == Len(low) + 1
           live == ~SKIPPING(s)
<1>1. /\ Len(a) = n /\ a[n] = top /\ a \in Seq(FileType)
      /\ \A g \in FileType : [a EXCEPT ![n] = g] = Append(low, g)
  BY LastChanged
<1>2. s.inpf = top.id /\ top.id \in Nat \ {0} /\ (Live(a) <=> live)
  <2>1. s.inpf = top.id /\ top.id \in Nat \ {0}
    BY DEF FileType, Legal
  <2>2. (Live(a) <=> live) 
    BY LiveSkips
  <2> QED BY <2>1, <2>2
<1>3. op \in {"statement", "expression", "(", ")"}
  BY Ops
<1> HIDE DEF a, n
<1>4. CASE ~live
  <2>1. Meaning(a, body, s) = a
    BY <1>1, <1>2, <1>3, <1>4 DEF Meaning
  <2>2. Agrees(s, s, low, top)
    BY <1>2, Unmoved
  <2> QED BY <1>4, <2>1, <2>2 DEF Obeyed, Innermost, a
<1>5. CASE live /\ op \in {"statement", "expression"}
  <2> DEFINE t == Parsing(s)
  <2>1. t = [s EXCEPT !.staging = (op = "expression")]
    BY <1>5 DEF Parsing
  <2>2. Meaning(a, body, s) = a
    BY <1>1, <1>2, <1>5 DEF Meaning
  <2>3. t \in ReaderType /\ SameReading(s, t) /\ t.stack = s.stack /\ t.inpf = s.inpf /\ t.freading = s.freading
        /\ t.reread = s.reread
    BY ZenonT(30), <2>1 DEF ReaderType, SameReading
  <2> HIDE DEF t
  <2>4. Matches(t, low, top)
    BY <2>3, Ignored
  <2>5. Agrees(s, t, low, top)
    BY <1>2, <2>3, <2>4 DEF Agrees, SameReading
  <2> QED BY <1>5, <2>2, <2>5 DEF Obeyed, Innermost, a, t
<1>6. ASSUME NEW p \in {0, 1}, NEW st \in Seq(Values), live,
             Parsing(s) = [s EXCEPT !.stack = st, !.staging = TRUE],
             st = Held(low) \o FlagsOf([top EXCEPT !.parens = p]),
             Meaning(a, body, s) = [a EXCEPT ![n] = [top EXCEPT !.parens = p]]
      PROVE  \E l, g : Obeyed(s, IF SKIPPING(s) THEN s ELSE Parsing(s), low, top, l, g)
  <2> DEFINE t == Parsing(s)
             g == [top EXCEPT !.parens = p]
  <2>1. t \in ReaderType /\ SameReading(s, t) /\ t.stack = st /\ t.inpf = s.inpf /\ t.freading = s.freading
        /\ t.reread = s.reread
    BY ZenonT(30), <1>6 DEF ReaderType, SameReading, Values
  <2> HIDE DEF t
  <2>2. t.stack = Held(low) \o FlagsOf([top EXCEPT !.parens = p])
    BY <1>6, <2>1
  <2>3. g \in FileType /\ Matches(t, low, g)
    BY <2>1, <2>2, Flagged
  <2>4. g.id = top.id
    BY DEF FileType
  <2> HIDE DEF g
  <2>5. Agrees(s, t, low, g)
    BY <1>2, <2>1, <2>3, <2>4 DEF Agrees, SameReading
  <2>6. Meaning(a, body, s) = Append(low, g)
    BY <1>1, <1>6, <2>3 DEF g
  <2> QED BY <1>6, <2>3, <2>4, <2>5, <2>6 DEF Obeyed, Innermost, a, t
<1>7. Held(low) \in Seq(Values) /\ s.stack = Held(low) \o FlagsOf(top)
  BY HeldAppend DEF Matches
<1>8. Flags \in Seq(Values)
  BY DEF Flags, Values
<1>9. CASE live /\ op = "("
  <2> DEFINE g == [top EXCEPT !.parens = 1]
             st == Held(low) \o Flags
  <2>1. top.parens = 0
    BY <1>9 DEF Legal
  <2>2. s.stack = Held(low)
    <3>1. FlagsOf(top) = <<>>
      BY <2>1 DEF FlagsOf
    <3> QED BY <1>7, <3>1, Concat
  <2>3. Parsing(s) = [s EXCEPT !.stack = st, !.staging = TRUE]
    BY <1>9, <2>2 DEF Parsing, pushstk
  <2>4. st \in Seq(Values)
    BY <1>7, <1>8
  <2>5. FlagsOf(g) = Flags
    BY DEF FlagsOf, FileType
  <2>6. Meaning(a, body, s) = [a EXCEPT ![n] = g]
    <3>1. Meaning(a, body, s) = [a EXCEPT ![n].parens = @ + 1]
      BY <1>1, <1>2, <1>9 DEF Meaning
    <3>2. a[n].parens + 1 = 1
      BY <1>1, <2>1
    <3>3. [a EXCEPT ![n].parens = @ + 1] = [a EXCEPT ![n].parens = 1]
      BY <3>2
    <3>4. [a EXCEPT ![n].parens = 1] = [a EXCEPT ![n] = g]
      BY <1>1
    <3> QED BY <3>1, <3>3, <3>4
  <2> HIDE DEF st
  <2>7. st = Held(low) \o FlagsOf([top EXCEPT !.parens = 1])
    BY <2>5 DEF st
  <2> QED BY <1>6, <1>9, <2>3, <2>4, <2>6, <2>7
<1>10. CASE live /\ op = ")"
  <2> DEFINE g == [top EXCEPT !.parens = 0]
             st == Held(low)
  <2>1. top.parens = 1
    BY <1>10 DEF Legal
  <2>2. Dropped(s, Len(Flags)) = st
    <3>1. Dropped(s, top.parens * Len(Flags)) = st
      BY <1>7, FlagsOff
    <3>2. 1 * Len(Flags) = Len(Flags)
      BY DEF Flags
    <3> QED BY <2>1, <3>1, <3>2
  <2>3. Parsing(s) = [s EXCEPT !.stack = st, !.staging = TRUE]
    BY <1>10, <2>2 DEF Parsing
  <2>4. st \in Seq(Values)
    BY <1>7
  <2>5. FlagsOf(g) = <<>>
    BY DEF FlagsOf, FileType
  <2>6. Meaning(a, body, s) = [a EXCEPT ![n] = g]
    <3>1. Meaning(a, body, s) = [a EXCEPT ![n].parens = @ - 1]
      BY <1>1, <1>2, <1>10 DEF Meaning
    <3>2. a[n].parens - 1 = 0
      BY <1>1, <2>1
    <3>3. [a EXCEPT ![n].parens = @ - 1] = [a EXCEPT ![n].parens = 0]
      BY <3>2
    <3>4. [a EXCEPT ![n].parens = 0] = [a EXCEPT ![n] = g]
      BY <1>1
    <3> QED BY <3>1, <3>3, <3>4
  <2> HIDE DEF st
  <2>7. st = Held(low) \o FlagsOf([top EXCEPT !.parens = 0])
    BY <1>7, <2>5, Concat DEF st
  <2> QED BY <1>6, <1>10, <2>3, <2>4, <2>6, <2>7
<1> QED BY <1>3, <1>4, <1>5, <1>9, <1>10

\* A line is obeyed, whatever it says.
LEMMA Obeys ==
    ASSUME NEW s \in ReaderType, NEW low \in Seq(FileType), NEW top \in FileType, Matches(s, low, top),
           Legal(s, low, top, s.line.body), ~EndsExpression(s, s.line.body), NEW depth
    PROVE  \E l, g : Obeyed(s, command(s, depth), low, top, l, g)
<1> DEFINE body == s.line.body
<1>1. body \in Bodies
  BY DEF ReaderType, Lines
<1>2. CASE body = EMPTY
  <2>1. command(s, depth) = s
    BY <1>2, Ops DEF command
  <2>2. Meaning(Append(low, top), body, s) = Append(low, top)
    BY <1>2, Ops DEF Meaning
  <2>3. Agrees(s, s, low, top)
    BY Unmoved DEF Legal
  <2> QED BY <2>1, <2>2, <2>3 DEF Obeyed, Innermost
<1>3. CASE body \in Text
  <2>1. body # EMPTY /\ body \notin Directives
    BY <1>3, Ops
  <2>2. command(s, depth) = IF SKIPPING(s) THEN s ELSE Parsing(s)
    BY <1>3, <2>1 DEF command
  <2> QED BY <1>3, <2>2, TextObeyed
<1>4. CASE body \in Directives
  <2>1. body # EMPTY /\ body \notin Text
        /\ body.op \in {"#if", "#elseif", "#include", "#library", "#else", "#endif", "#endinput", "#define"}
    BY <1>4, Ops
  <2>2. command(s, depth) = Directive(s)
    BY <1>4, <2>1 DEF command
  <2>3. CASE body.op \in {"#if", "#else", "#elseif", "#endif"}
    BY <2>2, <2>3, BranchesObeyed
  <2>4. CASE body.op \in {"#include", "#library", "#endinput", "#define"}
    BY <1>4, <2>2, <2>4, OthersObeyed
  <2> QED BY <2>1, <2>3, <2>4
<1> QED BY <1>1, <1>2, <1>3, <1>4, Ops

-----------------------------------------------------------------------------
(* A line is read.                                                         *)

\* What only #include and #library may change, and what nothing changes.
Kept(s, t) ==
    /\ t.freading = s.freading /\ t.needsemicolon = s.needsemicolon
    /\ t.compat = s.compat /\ t.included = s.included /\ t.fnumber = s.fnumber
    /\ t.libraries = s.libraries /\ t.libname_tab = s.libname_tab

\* What a line means depends on the names of the files and on how many there were.
LEMMA SameMeaning ==
    ASSUME NEW s, NEW t, Kept(s, t), NEW fs, NEW body
    PROVE  Meaning(fs, body, s) = Meaning(fs, body, t)
  BY DEF Kept, Meaning

\* The parts of a line.
LEMMA LineTypes ==
    /\ BLANK \in Lines /\ BLANK.body = EMPTY /\ ~BLANK.open /\ ~BLANK.close
    /\ \A line \in Lines : /\ line.close \in BOOLEAN /\ line.open \in BOOLEAN /\ line.body \in Bodies
                           /\ [line EXCEPT !.close = FALSE, !.open = FALSE] \in Lines
  BY DEF BLANK, Lines, Bodies

\* The count of lines stays in its range.
LEMMA NextCount == \A x \in 0 .. Period - 1 : (x + 1) % Period \in 0 .. Period - 1
<1> TAKE x \in 0 .. Period - 1
<1>1. x + 1 \in Nat /\ Period \in Nat \ {0}
  BY ReaderAssumption
<1> QED BY <1>1

\* The line that is taken, and what it makes of the file it stands in.
Taken(s, line, eof) ==
    [stripcomment([s EXCEPT !.line = line, !.fline = (@ + 1) % Period,
                            !.atEnd = IF eof THEN @ \cup {s.inpf} ELSE @]) EXCEPT !.reread = FALSE]
Passed(top, line) ==
    [top EXCEPT !.line = (@ + 1) % Period, !.comment = IF top.comment /\ ~line.close THEN TRUE ELSE line.open]
AtEnd(s, top, eof) == IF eof THEN s.atEnd \cup {top.id} ELSE s.atEnd

\* A line is taken from the file that is read, and its comments go.
LEMMA Reads ==
    ASSUME NEW s \in ReaderType, NEW low \in Seq(FileType), NEW top \in FileType, Matches(s, low, top),
           s.inpf = top.id, NEW line \in Lines, NEW eof \in BOOLEAN
    PROVE  LET u == Taken(s, line, eof)
               g == Passed(top, line)
           IN
           /\ u \in ReaderType /\ g \in FileType /\ Matches(u, low, g)
           /\ g.id = top.id /\ g.parens = top.parens /\ g.frames = top.frames
           /\ u.inpf = top.id /\ u.staging = s.staging /\ ~u.reread
           /\ u.line.body = (IF top.comment /\ ~line.close THEN EMPTY ELSE line.body) /\ ~u.line.open /\ ~u.line.close
           /\ u.atEnd = AtEnd(s, top, eof)
           /\ Kept(s, u)
<1> DEFINE u == Taken(s, line, eof)
           g == Passed(top, line)
           cut == top.comment /\ ~line.close
           l == (s.fline + 1) % Period
           e == IF eof THEN s.atEnd \cup {s.inpf} ELSE s.atEnd
           r == [s EXCEPT !.line = line, !.fline = l, !.atEnd = e]
           c == IF cut THEN 1 ELSE IF line.open THEN 1 ELSE 0
           b == IF cut THEN BLANK ELSE [line EXCEPT !.close = FALSE, !.open = FALSE]
<1>0. /\ cut \in BOOLEAN /\ (cut <=> top.comment /\ ~line.close)
      /\ g = [top EXCEPT !.line = (@ + 1) % Period, !.comment = IF cut THEN TRUE ELSE line.open]
  BY DEF FileType, Passed
<1>10. u = [stripcomment(r) EXCEPT !.reread = FALSE]
  BY DEF Taken
<1> HIDE DEF cut, u, g
<1>1. l \in 0 .. Period - 1 /\ l = (top.line + 1) % Period
  BY NextCount DEF ReaderType, Matches, Stands
<1>2. e \in SUBSET Nat /\ e = (IF eof THEN s.atEnd \cup {top.id} ELSE s.atEnd)
  BY DEF ReaderType
<1>3. s.icomment # 0 <=> top.comment
  BY DEF Matches, Stands, FileType
<1>4. b \in Lines /\ b.body = (IF cut THEN EMPTY ELSE line.body) /\ ~b.open /\ ~b.close
  <2>1. [line EXCEPT !.close = FALSE, !.open = FALSE].body = line.body
        /\ [line EXCEPT !.close = FALSE, !.open = FALSE].open = FALSE
        /\ [line EXCEPT !.close = FALSE, !.open = FALSE].close = FALSE
    BY DEF Lines
  <2> QED BY <2>1, LineTypes
<1>5. u = [s EXCEPT !.line = b, !.fline = l, !.atEnd = e, !.icomment = c, !.reread = FALSE]
  <2>1. u = [stripcomment(r) EXCEPT !.reread = FALSE]
    BY <1>10
  <2>2. r.icomment = s.icomment /\ r.line = line
    BY DEF ReaderType
  <2> HIDE DEF l, e
  <2>3. CASE cut
    <3>1. s.icomment = 1
      BY <1>0, <1>3, <2>3 DEF ReaderType
    <3>2. stripcomment(r) = [r EXCEPT !.line = BLANK]
      BY <1>0, <1>3, <2>2, <2>3 DEF stripcomment
    <3>3. u = [[r EXCEPT !.line = BLANK] EXCEPT !.reread = FALSE] /\ b = BLANK /\ c = s.icomment
      BY <2>1, <2>3, <3>1, <3>2
    <3> HIDE DEF b, c
    <3> QED BY ONLY s \in ReaderType, <3>3 DEF ReaderType, r
  <2>4. CASE ~cut
    <3>1. stripcomment(r) = [r EXCEPT !.line.close = FALSE, !.line.open = FALSE,
                                      !.icomment = IF line.open THEN 1 ELSE 0]
      BY <1>0, <1>3, <2>2, <2>4 DEF stripcomment
    <3>2. [r EXCEPT !.line.close = FALSE, !.line.open = FALSE, !.icomment = IF line.open THEN 1 ELSE 0]
          = [r EXCEPT !.line = b, !.icomment = c]
      BY <2>2, <2>4 DEF ReaderType
    <3> HIDE DEF b, c
    <3>3. u = [[r EXCEPT !.line = b, !.icomment = c] EXCEPT !.reread = FALSE]
      BY <2>1, <3>1, <3>2
    <3> QED BY ONLY s \in ReaderType, <3>3 DEF ReaderType, r
  <2> QED BY <2>3, <2>4
<1>6. c \in {0, 1}
  OBVIOUS
<1> HIDE DEF l, e, b, c
<1>7. /\ u \in ReaderType /\ u.inpf = top.id /\ u.staging = s.staging /\ u.reread = FALSE
      /\ u.line = b /\ u.fline = l /\ u.atEnd = e /\ u.icomment = c /\ u.stack = s.stack
      /\ u.iflevel = s.iflevel /\ u.skiplevel = s.skiplevel /\ u.ifstack = s.ifstack
      /\ u.fcurrent = s.fcurrent /\ u.curlibrary = s.curlibrary /\ Kept(s, u)
  <2>1. b \in Lines /\ l \in 0 .. Period - 1 /\ e \in SUBSET Nat /\ c \in {0, 1} /\ s.inpf = top.id
    BY <1>1, <1>2, <1>4, <1>6
  <2> QED BY ONLY s \in ReaderType, <1>5, <2>1 DEF ReaderType, Kept
<1>8. /\ g \in FileType /\ g.id = top.id /\ g.parens = top.parens /\ g.frames = top.frames /\ g.lib = top.lib
      /\ g.line = l /\ (c = 1 <=> g.comment)
  <2> DEFINE d == IF cut THEN TRUE ELSE line.open
  <2>1. d \in BOOLEAN /\ (c = 1 <=> d)
    <3>1. line.open \in BOOLEAN
      BY LineTypes
    <3>2. CASE cut
      BY <3>2 DEF c
    <3>3. CASE ~cut
      <4>1. d = line.open /\ c = IF line.open THEN 1 ELSE 0
        BY <3>3 DEF c
      <4> HIDE DEF d
      <4> QED BY <3>1, <4>1
    <3> QED BY <3>2, <3>3
  <2>2. g = [top EXCEPT !.line = l, !.comment = d]
    BY <1>0, <1>1
  <2> HIDE DEF d
  <2> QED BY <1>1, <2>1, <2>2 DEF FileType
<1>9. Matches(u, low, g)
  <2>1. FlagsOf(g) = FlagsOf(top)
    BY <1>8 DEF FlagsOf
  <2>2. u.stack = Held(low) \o FlagsOf(g)
    BY <1>7, <2>1 DEF Matches
  <2>3. Nested(u, Flat(low) \o g.frames) /\ Clear(Flat(low))
    BY <1>7, <1>8 DEF Matches, Nested
  <2>4. Stands(u, g)
    BY <1>6, <1>7, <1>8 DEF Matches, Stands, FileType
  <2>5. Numbered(u, Append(low, g))
    <3> DEFINE a == Append(low, g)
    <3>0. Numbered(s, Append(low, top)) /\ g \in FileType /\ g.id = top.id /\ s.fnumber = s.fnumber
          /\ s.atEnd = s.atEnd
      BY <1>8 DEF Matches
    <3>1. Numbered(s, a)
      BY ONLY <3>0, low \in Seq(FileType), top \in FileType, NumberedTop DEF a
    <3>2. Len(low) + 1 \in DOMAIN a /\ a[Len(low) + 1] = g
      BY <1>8
    <3> HIDE DEF a
    <3>3. top.id <= s.fnumber
      BY <1>8, <3>1, <3>2 DEF Numbered
    <3>4. \A i \in e : i <= s.fnumber
      BY <1>2, <3>1, <3>3 DEF Numbered
    <3>5. Numbered(u, a)
      BY <1>7, <3>1, <3>4 DEF Numbered, Kept
    <3> QED BY <3>5 DEF a
  <2> QED BY <2>2, <2>3, <2>4, <2>5 DEF Matches
<1> QED BY <1>2, <1>4, <1>7, <1>8, <1>9 DEF cut, u, g, AtEnd

\* Where the next line comes from.
LEMMA Resumes ==
    ASSUME ReaderInv, in.freading, ~in.reread, ~LastFile(in),
           NEW s, s = IF Ended(in) THEN Left(in) ELSE in
    PROVE  \E low \in Seq(FileType), top \in FileType :
             /\ Resumed(in) = Append(low, top)
             /\ s \in ReaderType /\ Matches(s, low, top) /\ s.inpf = top.id
             /\ Kept(in, s) /\ s.staging = in.staging /\ s.atEnd = in.atEnd /\ ~s.reread
             /\ \A i \in DOMAIN Append(low, top) :
                  Append(low, top)[i].id \in in.atEnd => Append(low, top)[i].parens = 0
<1> DEFINE A == Front(files)
           T == Last(files)
<1>1. /\ in \in ReaderType /\ files \in Seq(FileType) /\ files # <<>>
      /\ Matches(in, A, T) /\ in.inpf \in {0, T.id} /\ (in.inpf = 0 => T.parens = 0) /\ Closed
  BY DEF ReaderInv, Typed
<1>2. /\ A \in Seq(FileType) /\ T \in FileType /\ files = Append(A, T) /\ Len(A) \in Nat
      /\ Len(files) \in DOMAIN files /\ files[Len(files)] = T
      /\ \A i \in DOMAIN A : i \in DOMAIN files /\ A[i] = files[i]
  <2>1. A \in Seq(FileType) /\ T \in FileType /\ files = Append(A, T)
    BY <1>1, Top
  <2> HIDE DEF A, T
  <2> QED BY <2>1
<1> HIDE DEF A, T
<1>3. CASE ~Ended(in)
  <2>1. Resumed(in) = Append(A, T) /\ s = in /\ in.inpf = T.id
    <3>1. in.inpf # 0
      BY <1>3 DEF Ended
    <3> QED BY <1>1, <1>2, <1>3, <3>1 DEF Resumed
  <2>2. \A i \in DOMAIN Append(A, T) : Append(A, T)[i].id \in in.atEnd => Append(A, T)[i].parens = 0
    BY <1>1, <1>2 DEF Closed
  <2>3. s \in ReaderType /\ Matches(s, A, T)
    BY <1>1, <2>1
  <2>4. Kept(in, s) /\ s.staging = in.staging /\ s.atEnd = in.atEnd /\ ~s.reread
    BY <2>1 DEF Kept
  <2> QED BY <1>2, <2>1, <2>2, <2>3, <2>4
<1>4. CASE Ended(in)
  <2>1. T.parens = 0
    <3>1. CASE in.inpf = 0
      BY <1>1, <3>1
    <3>2. CASE in.inpf \in in.atEnd
      <4>1. T.id \in in.atEnd \/ T.parens = 0
        BY <1>1, <3>2
      <4> QED BY <1>1, <1>2, <4>1 DEF Closed
    <3> QED BY <1>4, <3>1, <3>2 DEF Ended
  <2>2. A # <<>>
    <3>1. ASSUME A = <<>> PROVE FALSE
      <4>1. Held(A) = <<>>
        BY <3>1 DEF Held, FlattenSeq
      <4>2. FlagsOf(T) = <<>>
        BY <2>1 DEF FlagsOf
      <4>3. in.stack = Held(A) \o FlagsOf(T)
        BY <1>1 DEF Matches
      <4>4. in.stack = <<>>
        BY <4>1, <4>2, <4>3
      <4> QED BY <1>4, <4>4 DEF LastFile
    <3> QED BY <3>1
  <2> DEFINE low == Front(A)
             f == Last(A)
  <2>3. low \in Seq(FileType) /\ f \in FileType /\ A = Append(low, f)
    BY <1>2, <2>2, Top
  <2> HIDE DEF low, f
  <2>4. Resumed(in) = Append(low, f) /\ s = Left(in)
    BY <1>4, <2>3 DEF Resumed, A
  <2>5. Matches(in, Append(low, f), T)
    BY <1>1, <2>3
  <2>6. /\ s \in ReaderType /\ Matches(s, low, f) /\ s.inpf = f.id
        /\ Kept(in, s) /\ s.staging = in.staging /\ s.atEnd = in.atEnd /\ ~s.reread
    <3>1. /\ Left(in) \in ReaderType /\ Matches(Left(in), low, f) /\ Left(in).inpf = f.id
          /\ Left(in).freading = in.freading /\ Left(in).reread = in.reread /\ Left(in).atEnd = in.atEnd
          /\ Left(in).needsemicolon = in.needsemicolon /\ Left(in).staging = in.staging
          /\ Left(in).compat = in.compat /\ Left(in).included = in.included /\ Left(in).fnumber = in.fnumber
          /\ Left(in).libraries = in.libraries /\ Left(in).libname_tab = in.libname_tab
      <4>1. in \in ReaderType /\ T \in FileType
        BY <1>1, <1>2
      <4> QED BY ONLY <2>1, <2>3, <2>5, <4>1, Returns
    <3> QED BY <2>4, <3>1 DEF Kept
  <2>7. \A i \in DOMAIN A : A[i].id \in in.atEnd => A[i].parens = 0
    BY <1>1, <1>2 DEF Closed
  <2> QED BY <2>3, <2>4, <2>6, <2>7
<1> QED BY <1>3, <1>4

-----------------------------------------------------------------------------
(* The steps keep the invariant.                                           *)

\* The same as Closed, of any files.
ClosedIn(fs, atEnd) == \A i \in DOMAIN fs : fs[i].id \in atEnd => fs[i].parens = 0

\* The files at their end have no parenthesis open.
LEMMA StaysClosed ==
    ASSUME NEW low \in Seq(FileType), NEW top \in FileType, NEW h \in FileType, h.id = top.id,
           NEW l \in Seq(FileType), NEW g \in FileType,
           NEW eof \in BOOLEAN, NEW s, Numbered(s, Append(low, top)), s.fnumber \in Nat,
           ClosedIn(Append(low, top), s.atEnd),
           top.id \in s.atEnd => eof,
           eof => Append(l, g)[Len(low) + 1].parens = 0,
           Innermost(s, low, h, l, g)
    PROVE  ClosedIn(Append(l, g), AtEnd(s, top, eof))
<1> DEFINE atEnd2 == AtEnd(s, top, eof)
<1>0. atEnd2 = IF eof THEN s.atEnd \cup {top.id} ELSE s.atEnd
  BY DEF AtEnd
<1>11. \A i \in DOMAIN Append(low, top) : Append(low, top)[i].id \in s.atEnd => Append(low, top)[i].parens = 0
  BY DEF ClosedIn
<1>12. \/ l = low /\ g.id = top.id
       \/ l = Append(low, h) /\ g.id = s.fnumber + 1
  BY DEF Innermost
<1> HIDE DEF atEnd2
<1> DEFINE a == Append(low, top)
           b == Append(l, g)
           n == Len(low) + 1
           count == s.fnumber
           atEnd == s.atEnd
<1>1. /\ Len(low) \in Nat /\ DOMAIN a = 1 .. n /\ a[n] = top /\ n \in 1 .. n
      /\ \A i \in 1 .. Len(low) : a[i] = low[i] /\ i \in 1 .. n /\ low[i] \in FileType /\ i < n
  OBVIOUS
<1>2. Len(l) \in {Len(low), Len(low) + 1} /\ DOMAIN b = 1 .. Len(l) + 1 /\ b[Len(l) + 1] = g
      /\ \A i \in 1 .. Len(l) : b[i] = l[i]
  <2>1. DOMAIN b = 1 .. Len(l) + 1 /\ b[Len(l) + 1] = g /\ \A i \in 1 .. Len(l) : b[i] = l[i]
    OBVIOUS
  <2>2. Len(Append(low, h)) = Len(low) + 1
    OBVIOUS
  <2> HIDE DEF b
  <2> QED BY <1>12, <2>1, <2>2
<1>3. l = Append(low, h) => l[n] = h /\ \A i \in 1 .. Len(low) : l[i] = low[i]
  BY <1>1
<1> HIDE DEF a, b, count, atEnd
<1>4. /\ top.id \in Nat /\ count \in Nat
      /\ \A i \in 1 .. Len(low) : low[i].id \in Nat
  BY <1>1 DEF FileType, count
<1>5. /\ top.id <= count /\ \A i \in 1 .. Len(low) : low[i].id < top.id
      /\ \A i \in atEnd : i <= count
  <2>1. Numbered(s, a)
    BY DEF a
  <2> QED BY <1>1, <2>1 DEF Numbered, count, atEnd
<1>6. \A i \in 1 .. Len(low) : low[i].id \in atEnd2 => low[i].parens = 0
  <2> SUFFICES ASSUME NEW i \in 1 .. Len(low), low[i].id \in atEnd2 PROVE low[i].parens = 0
    OBVIOUS
  <2>1. low[i].id # top.id
    BY <1>4, <1>5
  <2>2. low[i].id \in atEnd
    BY <1>0, <2>1 DEF atEnd
  <2>3. \A j \in DOMAIN a : a[j].id \in atEnd => a[j].parens = 0
    BY <1>11 DEF a, atEnd
  <2> QED BY <1>1, <2>2, <2>3
<1>7. top.id \in atEnd2 => eof
  BY <1>0
<1>8. eof => b[n].parens = 0
  BY DEF b
<1>9. \A i \in 1 .. Len(low) : b[i] = low[i]
  <2> TAKE i \in 1 .. Len(low)
  <2>1. i \in 1 .. Len(l) /\ l[i] = low[i]
    BY <1>1, <1>2, <1>3, <1>12
  <2> QED BY <1>2, <2>1
<1>10. ASSUME NEW i \in 1 .. Len(l) + 1, b[i].id \in atEnd2 PROVE b[i].parens = 0
  <2>1. CASE i \in 1 .. Len(low)
    BY <1>6, <1>9, <1>10, <2>1
  <2>2. CASE i = n
    <3>1. b[n].id = top.id
      <4>1. CASE l = low
        <5>1. b[n] = g
          BY <1>2, <4>1
        <5>2. g.id = top.id
          <6>1. ASSUME l = Append(low, h) PROVE FALSE
            <7>1. Len(Append(low, h)) = Len(low) + 1
              OBVIOUS
            <7> QED BY <1>1, <4>1, <6>1, <7>1
          <6> QED BY <1>12, <6>1
        <5> QED BY <5>1, <5>2
      <4>2. CASE l = Append(low, h)
        <5>1. Len(l) = n
          BY <4>2
        <5>2. n \in 1 .. Len(l)
          BY <1>1, <5>1
        <5> QED BY <1>2, <1>3, <4>2, <5>2
      <4> QED BY <1>12, <4>1, <4>2
    <3> QED BY <1>7, <1>8, <1>10, <2>2, <3>1
  <2>3. CASE i = n + 1
    <3>1. Len(l) = n
      BY <1>1, <1>2, <2>3
    <3>2. b[i] = g /\ l # low
      BY <1>1, <1>2, <2>3, <3>1
    <3>3. g.id = count + 1
      BY <1>12, <3>2 DEF count
    <3>4. \A j \in atEnd2 : j <= count
      BY <1>0, <1>4, <1>5 DEF atEnd
    <3>5. count + 1 \in atEnd2
      BY <1>10, <3>2, <3>3
    <3> HIDE DEF n
    <3> QED BY <1>4, <3>4, <3>5
  <2>4. i \in 1 .. Len(low) \/ i = n \/ i = n + 1
    BY <1>1, <1>2
  <2> QED BY <2>1, <2>2, <2>3, <2>4
<1> QED BY <1>2, <1>10 DEF b, ClosedIn, atEnd2

\* A line forgotten leaves the reading where it was.
LEMMA Forgets ==
    ASSUME NEW s, NEW t \in ReaderType, NEW l \in Seq(FileType), NEW g \in FileType, Agrees(s, t, l, g), ~s.reread
    PROVE  Agrees(s, Forgotten(t), l, g)
<1> DEFINE u == Forgotten(t)
<1>1. u = [t EXCEPT !.line = BLANK]
  BY DEF Agrees, Forgotten
<1>2. /\ u \in ReaderType /\ u.stack = t.stack /\ SameReading(t, u) /\ u.inpf = t.inpf
      /\ u.freading = t.freading /\ u.reread = t.reread
  BY ZenonT(30), <1>1, LineTypes DEF ReaderType, SameReading
<1> HIDE DEF u
<1>3. Matches(u, l, g)
  BY <1>2, Ignored DEF Agrees
<1> QED BY <1>2, <1>3 DEF Agrees, SameReading, u

\* The invariant where a line has been dealt with.
LEMMA Dealt ==
    ASSUME NEW s, NEW l \in Seq(FileType), NEW g \in FileType, Agrees(s, in', l, g), ~s.reread,
           files' = Append(l, g), Closed'
    PROVE  ReaderInv'
<1>1. Append(l, g) \in Seq(FileType) /\ Append(l, g) # <<>> /\ Front(Append(l, g)) = l /\ Last(Append(l, g)) = g
  BY Appended
<1>2. Front(files') = l /\ Last(files') = g /\ files' \in Seq(FileType) /\ files' # <<>>
  BY <1>1
<1>3. in' \in ReaderType /\ ~in'.reread /\ Matches(in', l, g) /\ in'.inpf \in {0, g.id}
      /\ (in'.inpf = 0 => g.parens = 0)
  BY DEF Agrees
<1> QED BY <1>2, <1>3 DEF ReaderInv, Typed

\* A directive that ended an expression is looked at again: it is obeyed once (sc2.c, preprocess()).
LEMMA SameLineKeeps ==
    ASSUME ReaderInv, SameLine
    PROVE  ReaderInv'
<1>1. in \in ReaderType /\ files \in Seq(FileType) /\ files # <<>> /\ in.freading /\ in.reread /\ Again /\ Closed
  BY DEF ReaderInv, Typed, SameLine
<1>2. PICK low \in Seq(FileType), top \in FileType :
        /\ Matches(in, low, top) /\ top.parens = 0 /\ in.icomment = 0
        /\ in.line.body \in Directives /\ ~in.line.open /\ ~in.line.close
        /\ ~in.staging /\ Legal(in, low, top, in.line.body)
        /\ files = Meaning(Append(low, top), in.line.body, in)
  BY <1>1 DEF Again
<1> DEFINE u == [in EXCEPT !.reread = FALSE]
<1>3. [stripcomment(readline(in, in.line, FALSE)) EXCEPT !.reread = FALSE] = u
  <2>1. readline(in, in.line, FALSE) = in
    BY <1>1 DEF readline
  <2>2. stripcomment(in) = in
    <3>1. stripcomment(in) = [in EXCEPT !.line.close = FALSE, !.line.open = FALSE,
                                        !.icomment = IF in.line.open THEN 1 ELSE 0]
      BY <1>2 DEF stripcomment
    <3>2. in.line.open = FALSE /\ in.line.close = FALSE
      <4>1. in.line.open \in BOOLEAN /\ in.line.close \in BOOLEAN
        BY <1>1, LineTypes DEF ReaderType
      <4> QED BY <1>2, <4>1
    <3>3. [in.line EXCEPT !.close = FALSE, !.open = FALSE] = in.line
      BY <1>1, <3>2 DEF ReaderType, Lines
    <3>5. (IF in.line.open THEN 1 ELSE 0) = 0
      BY <3>2
    <3>4. stripcomment(in) = [in EXCEPT !.line = [in.line EXCEPT !.close = FALSE, !.open = FALSE], !.icomment = 0]
      BY <1>1, <3>1, <3>5 DEF ReaderType
    <3>6. stripcomment(in) = [in EXCEPT !.line = in.line, !.icomment = 0] /\ in \in ReaderType /\ in.icomment = 0
      BY <1>1, <1>2, <3>3, <3>4
    <3> QED BY ONLY <3>6 DEF ReaderType
  <2> QED BY <2>1, <2>2
<1>4. in' = Forgotten(command(u, 0)) /\ files' = files
  BY <1>3 DEF SameLine, preprocess
<1>5. /\ u \in ReaderType /\ u.stack = in.stack /\ SameReading(in, u) /\ u.inpf = in.inpf /\ u.line = in.line
      /\ ~u.reread /\ u.freading /\ ~u.staging /\ Kept(in, u) /\ u.atEnd = in.atEnd
  BY <1>1, <1>2 DEF ReaderType, SameReading, Kept
<1> HIDE DEF u
<1>6. Matches(u, low, top)
  BY <1>2, <1>5, Ignored
<1>7. Legal(u, low, top, u.line.body) /\ ~EndsExpression(u, u.line.body)
  <2>1. ~EndsExpression(u, u.line.body)
    BY <1>5 DEF EndsExpression
  <2> QED BY <1>2, <1>5, <2>1 DEF Legal, Kept
<1>8. PICK l, g : Obeyed(u, command(u, 0), low, top, l, g)
  BY <1>5, <1>6, <1>7, Obeys
<1>9. files' = Append(l, g)
  <2>1. Meaning(Append(low, top), in.line.body, in) = Meaning(Append(low, top), in.line.body, u)
    BY <1>5, SameMeaning
  <2> QED BY <1>2, <1>4, <1>5, <1>8, <2>1 DEF Obeyed
<1>10. l \in Seq(FileType) /\ g \in FileType /\ Agrees(u, in', l, g)
  <2>1. l \in Seq(FileType) /\ g \in FileType /\ Agrees(u, command(u, 0), l, g)
    BY <1>8 DEF Obeyed
  <2>2. command(u, 0) \in ReaderType
    BY <2>1 DEF Agrees
  <2> QED BY <1>4, <1>5, <2>1, <2>2, Forgets
<1>11. Closed'
  <2>1. in'.atEnd = in.atEnd
    BY <1>5, <1>10 DEF Agrees
  <2> QED BY <1>1, <1>4, <2>1 DEF Closed
<1> QED BY <1>5, <1>9, <1>10, <1>11, Dealt

\* After the end of the input nothing is read.
LEMMA EndKeeps ==
    ASSUME ReaderInv, EndOfInput
    PROVE  ReaderInv'
<1>1. in \in ReaderType /\ files \in Seq(FileType) /\ files # <<>>
  BY DEF ReaderInv, Typed
<1>2. in' = Stopped(in) /\ files' = files
  BY DEF EndOfInput
<1>3. in' \in ReaderType /\ ~in'.freading
  <2> DEFINE e == IF in.iflevel > 0 \/ in.icomment # 0 THEN in.errors \cup {1} ELSE in.errors
  <2>1. e \in SUBSET Nat
    BY <1>1 DEF ReaderType
  <2>2. in' = [in EXCEPT !.freading = FALSE, !.errors = e]
    BY <1>2 DEF Stopped
  <2> HIDE DEF e
  <2> QED BY <1>1, <2>1, <2>2 DEF ReaderType
<1> QED BY <1>1, <1>2, <1>3 DEF ReaderInv, Typed

\* The invariant holds before the first line.
LEMMA Starts == Init => ReaderInv
<1> SUFFICES ASSUME Init PROVE ReaderInv
  OBVIOUS
<1> DEFINE g == Opened(1, NONE)
<1>1. /\ g \in FileType /\ g.id = 1 /\ g.line = 0 /\ g.frames = <<>> /\ g.comment = FALSE /\ g.lib = NONE
      /\ g.parens = 0
  <2>1. 0 \in 0 .. Period - 1 /\ <<>> \in Seq(FrameType) /\ NONE \in Libraries
    BY ReaderAssumption DEF Libraries
  <2> QED BY <2>1 DEF FileType, Opened
<1>2. PICK mode \in Modes :
        in = [inpf |-> 1, atEnd |-> {}, freading |-> TRUE, stack |-> <<>>, iflevel |-> 0, skiplevel |-> 0,
              ifstack |-> [i \in 1 .. MaxNest |-> 0], icomment |-> 0, fcurrent |-> 1, fnumber |-> 1, fline |-> 0,
              curlibrary |-> NONE, libname_tab |-> {}, compat |-> mode.compat,
              libraries |-> mode.libraries, included |-> {}, errors |-> {},
              needsemicolon |-> mode.semicolons, staging |-> FALSE, reread |-> FALSE,
              line |-> BLANK]
  BY DEF Init
<1>3. in \in ReaderType
  <2>1. mode.compat \in BOOLEAN /\ mode.semicolons \in BOOLEAN
    BY ReaderAssumption
  <2>2. mode.libraries \subseteq Libraries /\ NONE \in Libraries
    BY DEF Libraries
  <2>3. 0 \in 0 .. Period - 1 /\ [i \in 1 .. MaxNest |-> 0] \in [1 .. MaxNest -> 0 .. 3]
    BY ReaderAssumption
  <2>4. BLANK \in Lines
    BY LineTypes
  <2>5. <<>> \in Seq(Int \cup Libraries)
    OBVIOUS
  <2> QED BY <1>2, <2>1, <2>2, <2>3, <2>4, <2>5 DEF ReaderType
<1>4. /\ in.inpf = 1 /\ in.stack = <<>> /\ in.iflevel = 0 /\ in.skiplevel = 0 /\ in.icomment = 0 /\ in.fcurrent = 1
      /\ in.fnumber = 1 /\ in.fline = 0 /\ in.curlibrary = NONE /\ in.atEnd = {} /\ in.freading /\ ~in.reread
  BY <1>2
<1>5. files = <<g>>
  BY DEF Init
<1> HIDE DEF g
<1>6. files \in Seq(FileType) /\ files # <<>> /\ Front(files) = <<>> /\ Last(files) = g
  <2>1. <<>> \in Seq(FileType) /\ <<g>> = Append(<<>>, g)
    OBVIOUS
  <2> DEFINE q == <<>>
  <2>3. q \in Seq(FileType) /\ g \in FileType
    BY <1>1, <2>1
  <2> HIDE DEF q
  <2>4. Append(q, g) \in Seq(FileType) /\ Append(q, g) # <<>> /\ Front(Append(q, g)) = q /\ Last(Append(q, g)) = g
    BY ONLY <2>3, Appended
  <2>2. /\ Append(<<>>, g) \in Seq(FileType) /\ Append(<<>>, g) # <<>>
        /\ Front(Append(<<>>, g)) = <<>> /\ Last(Append(<<>>, g)) = g
    BY <2>4 DEF q
  <2> QED BY <1>5, <2>1, <2>2
<1>7. Flat(<<>>) = <<>> /\ Held(<<>>) = <<>>
  BY DEF Flat, Held, FlattenSeq
<1>8. Matches(in, <<>>, g)
  <2>1. in.stack = Held(<<>>) \o FlagsOf(g)
    BY <1>1, <1>4, <1>7 DEF FlagsOf
  <2>2. Flat(<<>>) \o g.frames = <<>>
    BY <1>1, <1>7
  <2>3. Nested(in, <<>>)
    BY <1>4, ReaderAssumption DEF Nested, Nest
  <2>4. Clear(Flat(<<>>))
    BY <1>7 DEF Clear
  <2>5. Stands(in, g)
    BY <1>1, <1>4 DEF Stands
  <2>6. Numbered(in, Append(<<>>, g))
    BY <1>1, <1>4 DEF Numbered
  <2> QED BY <2>1, <2>2, <2>3, <2>4, <2>5, <2>6 DEF Matches
<1> QED BY <1>1, <1>3, <1>4, <1>6, <1>8 DEF ReaderInv, Typed, Closed

\* A line of the innermost file, or of the one around it if that one has ended: comments are
\* stripped, then the line is obeyed, or it ends an expression and is kept.
LEMMA NextLineKeeps ==
    ASSUME OneElse, ReaderInv, NextLine
    PROVE  ReaderInv'
<1> DEFINE fs == Resumed(in)
           s == IF Ended(in) THEN Left(in) ELSE in
           n == Len(fs)
<1>1. in.freading /\ ~in.reread /\ ~LastFile(in)
  BY DEF NextLine
<1>2. PICK line \in Lines, eof \in BOOLEAN :
        /\ MayStand(fs, line) /\ MayEnd(fs, line, eof) /\ files' = Read(fs, line, s)
        /\ eof => files'[n].parens = 0
        /\ in' = preprocess(in, line, eof, fs[n].parens)
  BY DEF NextLine
<1>3. PICK low \in Seq(FileType), top \in FileType :
        /\ fs = Append(low, top)
        /\ s \in ReaderType /\ Matches(s, low, top) /\ s.inpf = top.id
        /\ Kept(in, s) /\ s.staging = in.staging /\ s.atEnd = in.atEnd /\ ~s.reread
        /\ \A i \in DOMAIN Append(low, top) :
             Append(low, top)[i].id \in in.atEnd => Append(low, top)[i].parens = 0
  BY SMTT(30), <1>1, Resumes
<1>4. /\ n = Len(low) + 1 /\ fs[n] = top /\ Last(fs) = top /\ fs \in Seq(FileType) /\ Len(low) \in Nat
      /\ \A g \in FileType : [fs EXCEPT ![n] = g] = Append(low, g)
  <2>1. /\ Len(Append(low, top)) = Len(low) + 1 /\ Append(low, top)[Len(low) + 1] = top
        /\ Append(low, top) \in Seq(FileType)
        /\ Last(Append(low, top)) = top /\ Len(low) \in Nat
        /\ \A g \in FileType : [Append(low, top) EXCEPT ![Len(low) + 1] = g] = Append(low, g)
    BY LastChanged
  <2> HIDE DEF fs
  <2> QED BY <1>3, <2>1
<1> DEFINE cut == top.comment /\ ~line.close
           read == [s EXCEPT !.line = line, !.fline = (@ + 1) % Period,
                             !.atEnd = IF eof THEN @ \cup {s.inpf} ELSE @]
           u == Taken(s, line, eof)
           g == Passed(top, line)
           body == IF cut THEN EMPTY ELSE line.body
           ends == EndsExpression(s, body)
           h == [g EXCEPT !.parens = IF ends THEN 0 ELSE @]
<1>6. in' = Forgotten(command(u, top.parens))
  <2>1. readline(in, line, eof) = read
    BY <1>1 DEF readline
  <2> HIDE DEF s, fs, n, read
  <2> QED BY <1>2, <1>4, <2>1 DEF preprocess, Taken, read
<1> HIDE DEF s, fs, n
<1>0. cut \in BOOLEAN /\ (ends <=> body \in Directives /\ ~s.needsemicolon /\ s.staging)
  BY DEF FileType, EndsExpression
<1>5. /\ u \in ReaderType /\ g \in FileType /\ Matches(u, low, g)
      /\ g.id = top.id /\ g.parens = top.parens /\ g.frames = top.frames
      /\ u.inpf = top.id /\ u.staging = s.staging /\ ~u.reread
      /\ u.line.body = body /\ ~u.line.open /\ ~u.line.close
      /\ u.atEnd = AtEnd(s, top, eof)
      /\ Kept(s, u)
  <2>4. s \in ReaderType /\ Matches(s, low, top) /\ s.inpf = top.id
    BY <1>3
  <2> QED BY ONLY <2>4, Reads, low \in Seq(FileType), top \in FileType,
                  line \in Lines, eof \in BOOLEAN DEF body, cut, u, g
<1>7. files' = Meaning(Append(low, h), body, s) /\ h \in FileType
  <2> DEFINE p == IF ends THEN 0 ELSE top.parens
             d == IF cut THEN TRUE ELSE line.open
             l == (top.line + 1) % Period
  <2>1. Visible(fs, line) = body
    BY <1>4 DEF Visible
  <2>2. Read(fs, line, s) = Meaning([fs EXCEPT ![n].line = l, ![n].comment = d, ![n].parens = p], body, s)
    <3>1. Read(fs, line, s) =
            Meaning([fs EXCEPT ![n].line = (@ + 1) % Period, ![n].comment = d,
                                ![n].parens = IF ends THEN 0 ELSE @], body, s)
      <4> HIDE DEF body
      <4> QED BY <1>4, <2>1 DEF Read, n
    <3>2. [fs EXCEPT ![n].line = (@ + 1) % Period, ![n].comment = d, ![n].parens = IF ends THEN 0 ELSE @]
          = [fs EXCEPT ![n].line = l, ![n].comment = d, ![n].parens = p]
      <4> HIDE DEF d, ends
      <4> QED BY <1>4 
    <3> QED BY <3>1, <3>2
  <2>3. h \in FileType
    <3>1. (IF ends THEN 0 ELSE g.parens) \in {0, 1}
      BY <1>5 DEF FileType
    <3> HIDE DEF ends, g
    <3> QED BY <1>5, <3>1 DEF FileType
  <2>4. h = [top EXCEPT !.line = l, !.comment = d, !.parens = p]
    <3>1. h = [g EXCEPT !.parens = p]
      <4>1. g.parens = top.parens
        BY <1>5
      <4> HIDE DEF g, ends
      <4> QED BY <4>1
    <3>2. g = [top EXCEPT !.line = l, !.comment = d]
      BY DEF Passed
    <3> HIDE DEF h, g, l, d, p
    <3> QED BY <3>1, <3>2 DEF FileType
  <2> HIDE DEF p, d, l, h
  <2>5. [fs EXCEPT ![n].line = l, ![n].comment = d, ![n].parens = p] = [fs EXCEPT ![n] = h]
    BY <1>4, <2>4
  <2> QED BY <1>2, <1>4, <2>2, <2>3, <2>5
<1>8. h.id = top.id /\ h.frames = top.frames /\ h.parens = IF ends THEN 0 ELSE top.parens
  <2>1. h.id = g.id /\ h.frames = g.frames /\ h.parens = IF ends THEN 0 ELSE g.parens
    <3> HIDE DEF ends, g
    <3> QED BY <1>5 DEF FileType
  <2> HIDE DEF h, g
  <2> QED BY <1>5, <2>1
<1>9. ends <=> EndsExpression(u, body)
  <2> HIDE DEF u, body
  <2> QED BY <1>5 DEF EndsExpression, Kept
<1> HIDE DEF u, g, h
<1>10. Legal(u, low, h, body)
  <2>1. u.inpf = h.id
    BY <1>5, <1>8
  <2>2. CASE cut
    <3>1. body.op = "empty"
      BY <2>2, Ops
    <3> HIDE DEF body
    <3> QED BY <2>1, <3>1 DEF Legal
  <2>3. CASE ~cut
    <3>1. body = line.body
      BY <2>3
    <3> HIDE DEF body, cut
    <3>2. body.op = "#if" => Len(Flat(low) \o h.frames) < MaxNest
      <4>1. body.op = "#if" => Len(Flat(fs)) < MaxNest
        BY <1>2, <3>1 DEF MayStand, Flat
      <4>2. Flat(fs) = Flat(low) \o h.frames
        BY <1>3, <1>8, FlatAppend
      <4> QED BY <4>1, <4>2
    <3>3. /\ body.op \in {"#else", "#elseif"} => h.frames # <<>> /\ ~Last(h.frames).last
          /\ body.op = "#endif" => h.frames # <<>>
      BY <1>2, <1>4, <1>8, <3>1 DEF MayStand
    <3>4. body.op = "#library" => body.arg \in u.libraries \ u.libname_tab
      BY <1>2, <1>3, <1>5, <3>1 DEF MayStand, Kept
    <3>5. /\ body.op \in {"#endinput", "("} => h.parens = 0
      <4>1. body.op \in {"#endinput", "("} => top.parens = 0
        BY <1>2, <1>4, <3>1 DEF MayStand
      <4> HIDE DEF ends
      <4> QED BY <1>8, <4>1
    <3>6. body.op = ")" => h.parens = 1
      <4>1. body.op = ")" => top.parens = 1
        BY <1>2, <1>4, <3>1 DEF MayStand, FileType
      <4>2. body.op = ")" => ~ends
        BY <1>0, Ops
      <4> HIDE DEF ends
      <4> QED BY <1>8, <4>1, <4>2
    <3> QED BY <2>1, <3>2, <3>3, <3>4, <3>5, <3>6 DEF Legal
  <2> QED BY <2>2, <2>3
<1>11. Meaning(Append(low, h), body, s) = Meaning(Append(low, h), body, u)
  <2> HIDE DEF body
  <2> QED BY <1>5, SameMeaning
<1>12. /\ Numbered(s, Append(low, top)) /\ s.fnumber \in Nat /\ (top.id \in s.atEnd => eof)
  <2>1. top.id \in s.atEnd => eof
    BY <1>2, <1>3, <1>4 DEF MayEnd
  <2> QED BY <1>3, <2>1 DEF Matches, ReaderType
<1>13. ASSUME NEW l \in Seq(FileType), NEW f \in FileType, files' = Append(l, f), in'.atEnd = u.atEnd,
              Innermost(s, low, h, l, f)
       PROVE  Closed'
  <2>1. eof => Append(l, f)[Len(low) + 1].parens = 0
    BY <1>2, <1>4, <1>13
  <2>2. ClosedIn(Append(low, top), s.atEnd)
    BY <1>3 DEF ClosedIn
  <2>3. u.atEnd = AtEnd(s, top, eof)
    BY <1>5
  <2>4. h \in FileType /\ h.id = top.id
    BY <1>7, <1>8
  <2>5. Innermost(s, low, h, l, f)
    BY <1>13
  <2>6. ClosedIn(Append(l, f), AtEnd(s, top, eof))
    BY ONLY <1>12, <2>1, <2>2, <2>4, <2>5, StaysClosed,
            low \in Seq(FileType), top \in FileType, l \in Seq(FileType), f \in FileType, eof \in BOOLEAN
  <2> QED BY <1>13, <2>3, <2>6 DEF Closed, ClosedIn
<1> HIDE DEF body
<1>14. CASE ~ends
  <2>1. h.parens = top.parens /\ h = g
    <3>1. h.parens = top.parens
      <4> HIDE DEF ends
      <4> QED BY <1>8, <1>14
    <3>2. h = [g EXCEPT !.parens = @]
      <4> HIDE DEF ends
      <4> QED BY <1>14 DEF h
    <3>3. h = g
      BY <1>5, <3>2 DEF FileType
    <3> QED BY <3>1, <3>3
  <2>2. Matches(u, low, h) /\ ~EndsExpression(u, u.line.body) /\ Legal(u, low, h, u.line.body)
    BY <1>5, <1>9, <1>10, <1>14, <2>1
  <2>3. PICK l, f : Obeyed(u, command(u, top.parens), low, h, l, f)
    BY <1>5, <1>7, <2>2, Obeys
  <2>4. /\ l \in Seq(FileType) /\ f \in FileType /\ files' = Append(l, f)
        /\ Agrees(u, command(u, top.parens), l, f)
        /\ Innermost(s, low, h, l, f)
    BY <1>5, <1>7, <1>8, <1>11, <2>3 DEF Obeyed, Innermost, Kept
  <2>5. Agrees(u, in', l, f)
    <3>1. command(u, top.parens) \in ReaderType
      BY <2>4 DEF Agrees
    <3> QED BY <1>5, <1>6, <2>4, <3>1, Forgets
  <2>6. in'.atEnd = u.atEnd
    BY <2>5 DEF Agrees
  <2>7. Closed'
    BY <1>13, <2>4, <2>6
  <2> QED BY <1>5, <2>4, <2>5, <2>7, Dealt
<1>15. CASE ends
  <2> DEFINE t == Terminate(u, top.parens)
             v == [t EXCEPT !.reread = FALSE]
  <2>1. body \in Directives /\ body # EMPTY /\ body \notin Text
    BY <1>0, <1>15, Ops
  <2>2. in' = t
    <3>1. command(u, top.parens) = t
      <4>1. EndsExpression(u, u.line.body) /\ u.line.body \in Directives
            /\ u.line.body # EMPTY /\ u.line.body \notin Text
        BY <1>5, <1>9, <1>15, <2>1
      <4> HIDE DEF ends, u
      <4> QED BY ONLY <4>1 DEF command, t
    <3>2. t.reread
      BY <1>5 DEF Terminate, ReaderType
    <3> HIDE DEF t
    <3> QED BY <1>6, <3>1, <3>2 DEF Forgotten
  <2>3. Dropped(u, top.parens * Len(Flags)) = Held(low) /\ Held(low) \in Seq(Values)
    <3>1. Held(low) \in Seq(Values) /\ Dropped(u, g.parens * Len(Flags)) = Held(low)
      BY <1>5, FlagsOff DEF Matches
    <3> QED BY <1>5, <3>1
  <2>4. t = [u EXCEPT !.reread = TRUE, !.staging = FALSE, !.stack = Held(low)]
    BY <2>3 DEF Terminate
  <2>5. /\ t \in ReaderType /\ t.reread = TRUE /\ t.staging = FALSE /\ t.stack = Held(low) /\ t.inpf = u.inpf
        /\ SameReading(u, t) /\ Kept(u, t) /\ t.line = u.line /\ t.freading = u.freading
    BY ZenonT(30), <1>5, <2>3, <2>4 DEF ReaderType, SameReading, Kept, Values
  <2>6. h.parens = 0 /\ h = [g EXCEPT !.parens = 0]
    <3>1. h.parens = 0
      <4> HIDE DEF ends
      <4> QED BY <1>8, <1>15
    <3>2. h = [g EXCEPT !.parens = 0]
      <4> HIDE DEF ends
      <4> QED BY <1>15 DEF h
    <3> QED BY <3>1, <3>2
  <2> HIDE DEF t
  <2>7. Matches(t, low, h)
    <3>1. FlagsOf(h) = <<>>
      BY <2>6 DEF FlagsOf
    <3>2. t.stack = Held(low) \o FlagsOf([g EXCEPT !.parens = 0])
      <4>1. Held(low) \o <<>> = Held(low)
        BY <2>3, Concat
      <4> QED BY <2>5, <2>6, <3>1, <4>1
    <3>3. u \in ReaderType /\ g \in FileType /\ Matches(u, low, g) /\ 0 \in {0, 1} /\ SameReading(u, t)
      BY <1>5, <2>5
    <3>4. Matches(t, low, [g EXCEPT !.parens = 0])
      BY ONLY <3>2, <3>3, low \in Seq(FileType), Flagged
    <3> QED BY <2>6, <3>4
  <2>8. t.icomment = 0
    <3>1. ~cut
      <4>1. cut => body = EMPTY
        BY DEF body
      <4> QED BY <2>1, <4>1
    <3>2. body = line.body
      <4> HIDE DEF cut
      <4> QED BY <3>1 DEF body
    <3>3. ~line.open
      <4>1. EndsExpression(in, body)
        BY <1>0, <1>3, <1>15 DEF EndsExpression, Kept
      <4> QED BY <1>2, <3>2, <4>1 DEF MayStand
    <3>4. ~g.comment
      <4>1. (IF top.comment /\ ~line.close THEN TRUE ELSE line.open) = line.open
        BY <3>1
      <4>2. g = [top EXCEPT !.line = (@ + 1) % Period, !.comment = line.open]
        BY <4>1 DEF g, Passed
      <4>3. g.comment = line.open
        BY <4>2 DEF FileType
      <4> QED BY <3>3, <4>3
    <3>5. ~h.comment
      BY <1>5, <2>6, <3>4 DEF FileType
    <3> QED BY <2>7, <3>5 DEF Matches, Stands
  <2>9. Legal(t, low, h, body)
    BY <1>10, <2>5 DEF Legal, Kept
  <2>10. files' = Meaning(Append(low, h), body, t)
    <3>1. Meaning(Append(low, h), body, u) = Meaning(Append(low, h), body, t)
      BY <2>5, SameMeaning
    <3> QED BY <1>7, <1>11, <3>1
  <2>11. /\ v \in ReaderType /\ v.line = t.line /\ SameReading(t, v) /\ v.stack = t.stack /\ Kept(t, v)
         /\ v.staging = FALSE /\ v.inpf = t.inpf
    BY <2>5 DEF ReaderType, SameReading, Kept
  <2> HIDE DEF v
  <2>12. Matches(v, low, h) /\ Legal(v, low, h, v.line.body) /\ ~EndsExpression(v, v.line.body)
    <3>1. Matches(v, low, h)
      BY <2>7, <2>11, Ignored
    <3>2. v.line.body = body
      BY <1>5, <2>5, <2>11
    <3>3. Legal(v, low, h, body)
      BY <2>9, <2>11 DEF Legal, Kept
    <3> QED BY <2>11, <3>1, <3>2, <3>3 DEF EndsExpression
  <2>13. PICK l, f : Obeyed(v, command(v, 0), low, h, l, f)
    BY <1>7, <2>11, <2>12, Obeys
  <2>14. l \in Seq(FileType) /\ f \in FileType /\ files' = Append(l, f) /\ Innermost(s, low, h, l, f)
    <3>1. Meaning(Append(low, h), body, t) = Meaning(Append(low, h), body, v)
      BY <2>11, SameMeaning
    <3>2. v.line.body = body /\ v.fnumber = s.fnumber
      BY <1>5, <2>5, <2>11 DEF Kept
    <3> QED BY <1>8, <2>10, <2>13, <3>1, <3>2 DEF Obeyed, Innermost
  <2>15. Closed'
    <3>1. in'.atEnd = u.atEnd
      BY <2>2, <2>5 DEF SameReading
    <3> QED BY <1>13, <2>14, <3>1
  <2>16. Typed'
    <3>1. Append(l, f) \in Seq(FileType) /\ Append(l, f) # <<>>
      BY <2>14
    <3> QED BY <2>2, <2>5, <2>14, <3>1 DEF Typed
  <2>17. Again'
    <3>1. /\ Matches(in', low, h) /\ h.parens = 0 /\ in'.icomment = 0
          /\ in'.line.body \in Directives /\ ~in'.line.open /\ ~in'.line.close
          /\ ~in'.staging /\ Legal(in', low, h, in'.line.body)
          /\ files' = Meaning(Append(low, h), in'.line.body, in')
      <4>1. in'.line = u.line /\ in'.line.body = body
        BY <1>5, <2>2, <2>5
      <4> QED BY <1>5, <2>1, <2>2, <2>5, <2>6, <2>7, <2>8, <2>9, <2>10, <4>1
    <3> QED BY <1>7, <3>1 DEF Again
  <2> QED BY <2>2, <2>5, <2>15, <2>16, <2>17 DEF ReaderInv
<1> QED BY <1>14, <1>15

-----------------------------------------------------------------------------
(* The theorems.  They are about texts without a second #else.             *)

\* The invariant.
THEOREM ReaderCorrect == ASSUME OneElse PROVE Spec => []ReaderInv
<1>1. Init => ReaderInv
  BY Starts
<1>2. ReaderInv /\ [Next]_vars => ReaderInv'
  <2> SUFFICES ASSUME ReaderInv, [Next]_vars PROVE ReaderInv'
    OBVIOUS
  <2>1. CASE NextLine
    BY <2>1, NextLineKeeps
  <2>2. CASE SameLine
    BY <2>2, SameLineKeeps
  <2>3. CASE EndOfInput
    BY <2>3, EndKeeps
  <2>4. CASE UNCHANGED vars
    <3>1. in' = in /\ files' = files
      BY <2>4 DEF vars
    <3> QED BY <3>1 DEF ReaderInv, Typed, Again, Closed
  <2> QED BY <2>1, <2>2, <2>3, <2>4 DEF Next
<1> QED BY <1>1, <1>2, PTL DEF Spec

\* What sc2.c notes agrees with what the lines mean.
LEMMA Agreement == ReaderInv => ConditionsKept /\ PlaceKept
<1> SUFFICES ASSUME ReaderInv, Between PROVE ConditionsKept /\ PlaceKept
  BY DEF ConditionsKept, PlaceKept
<1> DEFINE low == Front(files)
           top == Last(files)
<1>1. /\ in \in ReaderType /\ files \in Seq(FileType) /\ files # <<>>
      /\ Matches(in, low, top) /\ in.inpf \in {0, top.id}
  BY DEF ReaderInv, Typed, Between
<1>2. low \in Seq(FileType) /\ top \in FileType /\ files = Append(low, top)
  BY <1>1, Top
<1> HIDE DEF low
<1>3. ConditionsKept
  <2>1. SKIPPING(in) <=> ~Live(files)
    BY <1>1, <1>2, LiveSkips
  <2>2. in.iflevel = Len(Flat(files))
    <3>1. Flat(files) = Flat(low) \o top.frames
      BY <1>2, FlatAppend
    <3> QED BY <1>1, <3>1 DEF Matches, Nested, Nest
  <2> QED BY <2>1, <2>2 DEF ConditionsKept, Flat
<1>4. PlaceKept
  <2>1. Stands(in, top)
    BY <1>1 DEF Matches
  <2>2. in.icomment # 0 <=> top.comment
    BY <1>2, <2>1 DEF Stands, FileType
  <2>3. ASSUME top.parens > 0
        PROVE  Len(in.stack) >= 2 /\ SubSeq(in.stack, Len(in.stack) - 1, Len(in.stack)) = Flags
    <3>1. top.parens = 1
      BY <1>2, <2>3 DEF FileType
    <3> DEFINE st == Held(low)
    <3>2. st \in Seq(Values) /\ Len(in.stack) = Len(st) + 2 /\ in.stack = st \o Flags
      BY <1>1, <1>2, <3>1, FlagsOff DEF Matches
    <3> HIDE DEF st
    <3>3. Flags \in Seq(Values) /\ Len(Flags) = 2
      BY DEF Flags, Values
    <3> DEFINE n == Len(st) + 2
               q == st \o Flags
               e == SubSeq(q, n - 1, n)
    <3>4. /\ Len(st) \in Nat /\ q \in Seq(Values) /\ Len(q) = n /\ n \in 2 .. n
          /\ q[n - 1] = Flags[1] /\ q[n] = Flags[2]
      BY <3>2, <3>3
    <3>5. Len(e) = 2 /\ e[1] = Flags[1] /\ e[2] = Flags[2] /\ e \in Seq(Values)
      <4> HIDE DEF q, n
      <4>1. SubSeq(q, n - 1, n) \in Seq(Values) /\ Len(SubSeq(q, n - 1, n)) = 2
            /\ SubSeq(q, n - 1, n)[1] = q[n - 1] /\ SubSeq(q, n - 1, n)[2] = q[n]
        BY <3>4, LastTwo
      <4> QED BY <3>4, <4>1
    <3>6. e = Flags
      <4> HIDE DEF e
      <4> QED BY <3>3, <3>5
    <3> QED BY <3>2, <3>4, <3>6 DEF e, n
  <2> QED BY <1>1, <2>1, <2>2, <2>3 DEF PlaceKept, Stands
<1> QED BY <1>3, <1>4

\* The types of what sc2.c keeps and of what the lines mean hold in every reachable state.
THEOREM TypeCorrect == ASSUME OneElse PROVE Spec => []Typed
  BY ReaderCorrect, PTL DEF ReaderInv

\* Between two lines the code that is skipped is exactly the code with a branch around it
\* that is not taken, and iflevel counts the open #if blocks of all open files (command()).
THEOREM ConditionsCorrect == ASSUME OneElse PROVE Spec => []ConditionsKept
  BY ReaderCorrect, Agreement, PTL

\* After any number of includes the reading stands where it stood, and the flags on top of
\* the stack are those of the open parenthesis (readline(), plungequalifiedfile(), pushstk()).
THEOREM PlaceCorrect == ASSUME OneElse PROVE Spec => []PlaceKept
  BY ReaderCorrect, Agreement, PTL

=============================================================================
