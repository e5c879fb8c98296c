------------------------------- MODULE Fixed --------------------------------
(***************************************************************************)
(* Fixed point numbers (amx/fixed.c): a cell that counts units of          *)
(* 1/MULTIPLIER.  Products and quotients need twice the width of a cell.   *)
(* A host built with a compiler that has such integers uses them; another  *)
(* computes with words of half a cell ("ansi").                            *)
(*                                                                         *)
(* A sum is one call of a native, with its operands and what each kind of  *)
(* host makes of it.                                                       *)
(***************************************************************************)
EXTENDS Integers, Sequences, SequencesExt

CONSTANTS WORDSHIFT,     \* bits of a word
          MULTIPLIER,    \* at most 2 ^ WORDSHIFT (fixed.c asserts it)
          LIMIT32,       \* numbers below it have room for another digit
          Operands, Divisors, Exponents

VARIABLE sum

Word == 2 ^ WORDSHIFT
Cells == Word * Word
MaxCell == Cells \div 2 - 1
ucell(v) == v % Cells
cell(v) == ((v + Cells \div 2) % Cells) - Cells \div 2
LOWORD(v) == v % Word
HIWORD(v) == v \div Word
Abs(v) == IF v < 0 THEN -v ELSE v
Sign(v) == IF v < 0 THEN -1 ELSE 1
\* C's division rounds to zero.
Quot(a, b) == Sign(a) * Sign(b) * (Abs(a) \div Abs(b))
Rest(a, b) == a - b * Quot(a, b)

-----------------------------------------------------------------------------
(* Numbers of two cells. *)
Less(t, v) == [hi |-> ucell(IF t.lo < v THEN t.hi - 1 ELSE t.hi), lo |-> ucell(t.lo - v)]
LessHigh(t, v) == [t EXCEPT !.hi = ucell(@ - v)]
ADD_WRAP(t, v) == [hi |-> ucell(IF t.lo + v >= Cells THEN t.hi + 1 ELSE t.hi), lo |-> ucell(t.lo + v)]

\* An estimate is never too large; it is counted up while the divisor still fits.
RECURSIVE CorrectHigh(_, _, _)
CorrectHigh(t, divisor, rHigh) ==
  LET dHigh == HIWORD(divisor)  low == ucell(LOWORD(divisor) * Word)
  IN IF t.hi > dHigh \/ (t.hi = dHigh /\ t.lo >= low)
     THEN CorrectHigh(LessHigh(Less(t, low), dHigh), divisor, (rHigh + 1) % Word) ELSE [t |-> t, r |-> rHigh]
RECURSIVE CorrectLow(_, _, _)
CorrectLow(t, divisor, rLow) ==
  IF t.hi > 0 \/ t.lo >= divisor THEN CorrectLow(Less(t, divisor), divisor, (rLow + 1) % Word) ELSE rLow

\* Mutant: the borrow of the high half is forgotten.
DivNoBorrow(t, divisor) ==
  LET dHigh == HIWORD(divisor)  dLow == LOWORD(divisor)
      high == t.hi \div (dHigh + 1)
      first == LessHigh([t EXCEPT !.lo = ucell(@ - ucell(high * dLow * Word))], HIWORD(high * dLow) + high * dHigh)
      upper == CorrectHigh(first, divisor, high)
      low == LOWORD(ucell(upper.t.hi * Word + HIWORD(upper.t.lo)) \div (dHigh + 1))
      second == LessHigh(Less(Less(upper.t, low * dLow), ucell(low * dHigh * Word)), HIWORD(low * dHigh))
  IN ucell(upper.r * Word) + CorrectLow(second, divisor, low)

\* The quotient of a number of two cells, word by word; its high cell is below the divisor.
div64_32(t, divisor) ==
  LET dHigh == HIWORD(divisor)  dLow == LOWORD(divisor)
      high == t.hi \div (dHigh + 1)
      first == LessHigh(Less(t, ucell(high * dLow * Word)), HIWORD(high * dLow) + high * dHigh)
      upper == CorrectHigh(first, divisor, high)
      low == LOWORD(ucell(upper.t.hi * Word + HIWORD(upper.t.lo)) \div (dHigh + 1))
      second == LessHigh(Less(Less(upper.t, low * dLow), ucell(low * dHigh * Word)), HIWORD(low * dHigh))
  IN ucell(upper.r * Word) + CorrectLow(second, divisor, low)

\* What a native leaves: a value, or an error.
Value(v) == [error |-> "none", value |-> cell(v)]
Error(e) == [error |-> e, value |-> 0]

\* The product of two cells, from their words; the high words of a middle product are lost.
Product(x, y) ==
  LET a == HIWORD(ucell(Abs(x)))  b == LOWORD(ucell(Abs(x)))
      c == HIWORD(ucell(Abs(y)))  d == LOWORD(ucell(Abs(y)))
  IN ADD_WRAP(ADD_WRAP([hi |-> c * a, lo |-> d * b], ucell(d * a * Word)), ucell(c * b * Word))
Divided(t, divisor, sign) ==
  IF divisor < t.hi THEN Error("DOMAIN") ELSE Value(cell(div64_32(t, divisor)) * sign)

-----------------------------------------------------------------------------
(* The natives. *)
fmulAnsi(x, y) == Divided(ADD_WRAP(Product(x, y), MULTIPLIER \div 2), MULTIPLIER, Sign(x) * Sign(y))
n_fmul(x, y) == Value(Quot(x * y + MULTIPLIER \div 2, MULTIPLIER))
fdivAnsi(x, y) ==
  LET t == [hi |-> HIWORD(HIWORD(ucell(Abs(x))) * MULTIPLIER), lo |-> ucell(Abs(x) * MULTIPLIER)]
  IN IF y = 0 THEN Error("NATIVE")
     ELSE Divided(ADD_WRAP(t, ucell(Abs(y)) \div 2), ucell(Abs(y)), Sign(x) * Sign(y))
n_fdiv(x, y) == IF y = 0 THEN Error("DIVIDE") ELSE Value(Quot(x * MULTIPLIER + Quot(y, 2), y))
fmuldivAnsi(x, y, z) ==
  IF z = 0 THEN Error("DIVIDE")
  ELSE Divided(ADD_WRAP(Product(x, y), ucell(Abs(z)) \div 2), ucell(Abs(z)), Sign(x) * Sign(y) * Sign(z))
n_fmuldiv(x, y, z) == IF z = 0 THEN Error("DIVIDE") ELSE Value(Quot(x * y + Quot(z, 2), z))
n_ffract(x) == Rest(x, MULTIPLIER)
n_fround(x, method) ==
  LET whole == Quot(x, MULTIPLIER)
      near == Quot(x + MULTIPLIER \div 2, MULTIPLIER)
  IN CASE method = 1 -> IF x < 0 /\ n_ffract(x) # 0 THEN whole - 1 ELSE whole
       [] method = 2 -> IF x >= 0 /\ n_ffract(x) # 0 THEN whole + 1 ELSE whole
       [] method = 3 -> whole
       [] method = 4 -> IF n_ffract(x) = MULTIPLIER \div 2 /\ near % 2 = 1 THEN near - 1 ELSE near
       [] OTHER -> near

\* The root lies between two marks that move together.
Square(x) == n_fmul(x, x).value
RECURSIVE Marks(_, _, _)
Marks(value, low, high) ==
  LET mid == Quot(cell(low + high), 2)
  IN IF high - low <= 1 THEN <<low, high>>
     ELSE IF Square(mid) < value THEN Marks(value, mid, high) ELSE Marks(value, low, mid)
n_fsqroot(value) ==
  LET marks == Marks(value, 0, value)
  IN IF value < 0 THEN Error("DOMAIN")
     ELSE IF cell(Square(marks[2]) - value) <= cell(value - Square(marks[1])) THEN Value(marks[2]) ELSE Value(marks[1])

\* A power, from squares and products with one more digit as long as there is room for it.
Scaled(x) == cell(10 * x)
Unscaled(x) == Quot(x + 5, 10)
Times(x, y) == n_fmul(x, y).value
RECURSIVE Squares(_, _, _, _)
Squares(r, iter, power, scaled) ==
  IF 2 * iter <= power /\ (~scaled \/ r < LIMIT32 * 10)
  THEN Squares(IF scaled THEN Unscaled(Square(r)) ELSE Square(r), 2 * iter, power, scaled)
  ELSE [r |-> r, iter |-> iter]
RECURSIVE Products(_, _, _, _, _)
Products(r, iter, power, x, scaled) ==
  IF iter < power /\ (~scaled \/ r < LIMIT32 * 10) THEN Products(Times(r, x), iter + 1, power, x, scaled)
  ELSE [r |-> r, iter |-> iter]
n_fpower(x, exponent) ==
  LET power == Abs(exponent)
      wide == x < LIMIT32
      first == IF wide THEN Squares(Scaled(x), 1, power, TRUE) ELSE [r |-> x, iter |-> 1]
      over == first.r >= LIMIT32 * 10
      second == Squares(IF over THEN Unscaled(first.r) ELSE first.r, first.iter, power, FALSE)
      isscaled == wide /\ ~over
      again == second.iter < power /\ (isscaled \/ second.r < LIMIT32)
      third == IF again THEN Products(IF isscaled THEN second.r ELSE Scaled(second.r), second.iter, power, x, TRUE) ELSE second
      result == Products(IF isscaled \/ again THEN Unscaled(third.r) ELSE third.r, third.iter, power, x, FALSE).r
  IN IF power = 0 THEN Value(MULTIPLIER)
     ELSE IF exponent < 0 THEN n_fdiv(MULTIPLIER, result) ELSE Value(result)
n_fabs(x) == cell(Abs(x))

\* A number is read from its digits, at most eight behind the point.
Digits(s) == FoldLeft(LAMBDA v, d : cell(v * 10 + d), 0, s)
n_strfixed(sign, whole, decimals) ==
  LET read == SubSeq(decimals, 1, IF Len(decimals) < 8 THEN Len(decimals) ELSE 8)
      step(m, k) == IF m.multiplier > 1 THEN [m EXCEPT !.multiplier = @ \div 10] ELSE [m EXCEPT !.divisor = @ * 10]
      m == FoldLeft(step, [multiplier |-> MULTIPLIER, divisor |-> 1], read)
  IN cell((Digits(whole) * MULTIPLIER + (Digits(read) * m.multiplier + m.divisor \div 2) \div m.divisor) * sign)

-----------------------------------------------------------------------------
\* Above this value the squares of the marks wrap around, and the search may not end.
SquaresFit(x) == (Abs(x) \div 2) ^ 2 \div MULTIPLIER < MaxCell
None == [kind |-> "none"]
Init == sum = None
Combine ==
  \E x, y \in Operands :
    sum' \in {[kind |-> "product", of |-> <<x, y>>, native |-> n_fmul(x, y), ansi |-> fmulAnsi(x, y)],
             [kind |-> "quotient", of |-> <<x, y>>, native |-> n_fdiv(x, y), ansi |-> fdivAnsi(x, y)]}
CombineThree ==
  \E x, y, z \in {d \in Divisors \cup {-d : d \in Divisors} \cup {0} : d \in -MaxCell .. MaxCell} :
    sum' = [kind |-> "muldiv", of |-> <<x, y, z>>, native |-> n_fmuldiv(x, y, z), ansi |-> fmuldivAnsi(x, y, z)]
Divide ==
  \E d \in Divisors : \E hi, lo \in Divisors \cup {0} :
    /\ hi < d
    /\ sum' = [kind |-> "division", of |-> <<hi, lo, d>>, native |-> div64_32([hi |-> hi, lo |-> lo], d)]
Change ==
  \E x \in Operands :
    \/ \E method \in 0 .. 4 : sum' = [kind |-> "round", of |-> <<x, method>>, native |-> n_fround(x, method)]
    \/ SquaresFit(x) /\ sum' = [kind |-> "root", of |-> <<x>>, native |-> n_fsqroot(x)]
    \/ sum' = [kind |-> "sign", of |-> <<x>>, native |-> n_fabs(x)]
    \/ \E n \in Exponents : sum' = [kind |-> "power", of |-> <<x, n>>, native |-> n_fpower(x, n)]
Read ==
  \E sign \in {-1, 1}, a \in 0 .. 9, n \in 0 .. 2 : \E decimals \in [1 .. n -> {0, 4, 5, 9}] :
    sum' = [kind |-> "text", of |-> <<sign, a, decimals>>, native |-> n_strfixed(sign, <<a>>, decimals)]
Next == sum = None /\ (Combine \/ CombineThree \/ Divide \/ Change \/ Read)
Spec == Init /\ [][Next]_sum

-----------------------------------------------------------------------------
\* r is the nearest number to n/d, and of two the larger one.
Nearest(r, n, d) == 2 * n + d \in 2 * d * r .. 2 * d * r + 2 * d - 1
\* The middle products fit in a cell of the two hosts: no high word is lost.
NothingLost(x, y) ==
  HIWORD(Abs(x)) * LOWORD(Abs(y)) < Word /\ HIWORD(Abs(y)) * LOWORD(Abs(x)) < Word
NoCarry(x) ==
  ((HIWORD(Abs(x)) * MULTIPLIER) % Word) + ((LOWORD(Abs(x)) * MULTIPLIER) \div Word) < Word

\* What a native returns is the nearest number to the true one, for operands whose result is
\* positive and fits; a host without wide integers returns the same, unless a word is lost; and the
\* long division they share is exact for every pair of numbers with a quotient of one cell.
Exact ==
  LET of == sum.of
      Right(n, d, whole) ==
        d # 0 /\ (n >= 0 <=> d > 0) /\ Abs(n) \div Abs(d) < MaxCell =>
          /\ Nearest(sum.native.value, Abs(n), Abs(d))
          /\ whole => sum.ansi = sum.native
  IN CASE sum.kind = "product" -> Right(of[1] * of[2], MULTIPLIER, NothingLost(of[1], of[2]))
       [] sum.kind = "quotient" -> Right(of[1] * MULTIPLIER, of[2], NoCarry(of[1]))
       [] sum.kind = "muldiv" -> Right(of[1] * of[2], of[3], NothingLost(of[1], of[2]))
       [] sum.kind = "division" -> sum.native = (of[1] * Cells + of[2]) \div of[3]
       [] sum.kind = "round" /\ of[2] = 1 -> sum.native = of[1] \div MULTIPLIER
       [] sum.kind = "round" /\ of[2] = 2 -> sum.native = -((-of[1]) \div MULTIPLIER)
       [] sum.kind = "round" /\ of[2] = 4 /\ of[1] > 0 /\ of[1] % MULTIPLIER = MULTIPLIER \div 2 -> sum.native % 2 = 0
       [] sum.kind = "root" /\ of[1] >= MULTIPLIER ->
            \A r \in 1 .. of[1] : Abs(Square(sum.native.value) - of[1]) <= Abs((r * r + MULTIPLIER \div 2) \div MULTIPLIER - of[1])
       [] sum.kind = "power" /\ of[1] \in 1 .. LIMIT32 - 1 /\ of[1] % MULTIPLIER = 0 
          /\ (of[1] \div MULTIPLIER) ^ Abs(of[2]) * MULTIPLIER <= MaxCell ->
            LET power == (of[1] \div MULTIPLIER) ^ Abs(of[2])
            IN IF of[2] >= 0 THEN sum.native.value = power * MULTIPLIER ELSE Nearest(sum.native.value, MULTIPLIER, power)
       [] sum.kind = "text" ->
            LET n == Len(of[3])
            IN Nearest(of[1] * sum.native, MULTIPLIER * (of[2] * 10 ^ n + FoldLeft(LAMBDA v, d : v * 10 + d, 0, of[3])), 10 ^ n)
       [] OTHER -> TRUE
=============================================================================
