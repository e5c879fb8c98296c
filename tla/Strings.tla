------------------------------ MODULE Strings ------------------------------
(***************************************************************************)
(* The strings of a script (amx/amxstring.c and the string functions of    *)
(* amx/amx.c).  A string is an array of cells: unpacked, one character in  *)
(* a cell, or packed, CellBytes of them in a cell, the first one on top.   *)
(* Which of the two it is shows in the first cell only: a value above      *)
(* UNPACKEDMAX is packed.  What lies behind the terminator is left over    *)
(* from earlier strings.  The machine is little endian, so the bytes of a  *)
(* packed cell are the other way round for C's strlen().                   *)
(*                                                                         *)
(* mem is the memory, with the arrays behind each other; text is what the  *)
(* arrays should hold, by the definition of each native; agree is whether  *)
(* the last native returned what it should.                                *)
(***************************************************************************)
EXTENDS Integers, Sequences, SequencesExt, FiniteSetsExt

CONSTANTS Base,       \* the number of characters, 0 among them: 256 in the code
          CellBytes,  \* characters in a cell
          Arrays,     \* the arrays of the script
          Origin,     \* array -> its first cell
          Size,       \* array -> its number of cells
          Other,      \* what is in the cell behind the arrays
          Upper,      \* the upper case characters; the lower case of c is c + 1
          Hosted      \* the strings the host stores

ASSUME LayoutAssumption ==
  /\ Base \in Nat /\ Base > 1 /\ CellBytes \in Nat /\ CellBytes > 1
  /\ \A x, y \in Arrays : x # y => Origin[x] + Size[x] <= Origin[y] \/ Origin[y] + Size[y] <= Origin[x]

VARIABLES mem, text, agree
stringVars == <<mem, text, agree>>

Owned == UNION {Origin[x] .. Origin[x] + Size[x] - 1 : x \in Arrays}
Addresses == Owned \union {Max(Owned) + 1}
UNPACKEDMAX == Base ^ (CellBytes - 1) - 1
Packed(m, p) == m[p] > UNPACKEDMAX
CELLMAX == 1000

\* Characters of a packed cell, counted from the top; the k-th of a packed string.
Char(c, i) == (c \div Base ^ (CellBytes - 1 - i)) % Base
WithChar(c, i, ch) == c + (ch - Char(c, i)) * Base ^ (CellBytes - 1 - i)
Above(c, i) == (c \div Base ^ (CellBytes - i)) * Base ^ (CellBytes - i)
packedptr(p, k) == [cell |-> p + k \div CellBytes, at |-> k % CellBytes]
Get(m, at) == Char(m[at.cell], at.at)
Put(m, at, ch) == [m EXCEPT ![at.cell] = WithChar(@, at.at, ch)]
extractchar(m, p, k, lower) ==
  LET c == IF Packed(m, p) THEN Get(m, packedptr(p, k)) ELSE m[p + k]
  IN IF lower /\ c \in Upper THEN c + 1 ELSE c

(***************************************************************************)
(* amx_StrLen().  strlen() stops in the first cell that has a zero byte    *)
(* anywhere; in that cell the characters are counted from the top.         *)
(***************************************************************************)
HasZero(c) == \E i \in 0 .. CellBytes - 1 : Char(c, i) = 0
Leading(c) == Min({i \in 0 .. CellBytes : i < CellBytes => Char(c, i) = 0})
From(p) == {a \in Addresses : a >= p}
\* Mutant: the characters of the last cell in the order of its bytes.
StrLenByBytes(m, p) ==
  IF Packed(m, p) THEN LET a == Min({x \in From(p) : HasZero(m[x])})
                       IN (a - p) * CellBytes + Min({i \in 0 .. CellBytes - 1 : Char(m[a], CellBytes - 1 - i) = 0})
  ELSE Min({a \in From(p) : m[a] = 0}) - p
amx_StrLen(m, p) ==
  IF Packed(m, p) THEN LET a == Min({x \in From(p) : HasZero(m[x])})
                       IN (a - p) * CellBytes + Leading(m[a])
  ELSE Min({a \in From(p) : m[a] = 0}) - p

\* What the host reads (amx_GetString()).
amx_GetString(m, p) ==
  [k \in 1 .. (IF Packed(m, p)
               THEN Min({k \in 0 .. CellBytes * Cardinality(From(p)) - 1 : Get(m, packedptr(p, k)) = 0})
               ELSE Min({a \in From(p) : m[a] = 0}) - p)
     |-> extractchar(m, p, k - 1, FALSE)]

\* The j-th cell of the characters s, the last one filled with zeros.
Cell(s, j) ==
  MapThenSumSet(LAMBDA i : Base ^ (CellBytes - 1 - i) * (IF j * CellBytes + i < Len(s) THEN s[j * CellBytes + i + 1] ELSE 0),
                0 .. CellBytes - 1)
Cells(n) == (n + CellBytes - 1) \div CellBytes

amx_SetString(m, p, source, pack, size) ==
  LET room == IF pack THEN size * CellBytes ELSE size
      s == IF Len(source) >= room THEN SubSeq(source, 1, room - 1) ELSE source
      last == p + (IF pack THEN Len(s) \div CellBytes ELSE Len(s))
  IN [a \in Addresses |-> IF a \notin p .. last THEN m[a]
                          ELSE IF pack THEN Cell(s, a - p)
                          ELSE IF a = last THEN 0 ELSE s[a - p + 1]]

-----------------------------------------------------------------------------
(***************************************************************************)
(* amx_StrPack() and amx_StrUnpack().  They write while they read: source  *)
(* and destination may be the same array.                                  *)
(***************************************************************************)
Steps(from, to) == [i \in 1 .. to - from + 1 |-> from + i - 1]

\* The source is packed and the destination begins a cell: cells are copied.
PackCells(m, dest, source, len) ==
  LET copied == [a \in Addresses |-> IF a \in dest .. dest + Cells(len) - 1 THEN m[source + a - dest] ELSE m[a]]
      last == dest + len \div CellBytes
  IN [copied EXCEPT ![last] = Above(copied[last], len % CellBytes)]

\* The source is packed, the destination begins at character o of a cell: cells are shifted.
PackShifted(m, dest, source, len, o) ==
  LET n == Cells(len + o + 1)
      move(s, k) ==
        LET t == [s.m EXCEPT ![dest + k] = s.c + s.m[source + k] \div Base ^ o]
        IN [m |-> t, c |-> (t[source + k] % Base ^ o) * Base ^ (CellBytes - o)]
      done == FoldLeft(move, [m |-> m, c |-> Above(m[dest], o)], Steps(0, n - 1)).m
  IN [done EXCEPT ![dest + n - 1] = Above(done[dest + n - 1], (o + len) % CellBytes)]

\* The source is unpacked: characters are collected until they fill a cell.
PackChars(m, dest, source, len, o) ==
  LET collect(s, i) ==
        LET c == s.c * Base + (s.m[source + i - o] % Base)
        IN IF i % CellBytes = CellBytes - 1
           THEN [m |-> [s.m EXCEPT ![dest + i \div CellBytes] = c], c |-> 0]
           ELSE [m |-> s.m, c |-> c]
      done == FoldLeft(collect, [m |-> m, c |-> IF o = 0 THEN 0 ELSE m[dest] \div Base ^ (CellBytes - o)],
                       Steps(o, len + o - 1))
      rest == (len + o) % CellBytes
  IN [done.m EXCEPT ![dest + (len + o) \div CellBytes] = IF rest = 0 THEN 0 ELSE done.c * Base ^ (CellBytes - rest)]

amx_StrPack(m, dest, source, len, offs) ==
  LET d == dest + offs \div CellBytes
      o == offs % CellBytes
  IN IF ~Packed(m, source) THEN PackChars(m, d, source, len, o)
     ELSE IF o = 0 THEN PackCells(m, d, source, len) ELSE PackShifted(m, d, source, len, o)

\* Mutant: from the first character up.
UnpackUpwards(m, dest, source, len) ==
  LET packed == Packed(m, source)
      up(t, i) == [t EXCEPT ![dest + i - 1] = IF packed THEN Char(t[source + (i - 1) \div CellBytes], (i - 1) % CellBytes)
                                              ELSE t[source + i - 1]]
  IN [FoldLeft(up, m, Steps(1, len)) EXCEPT ![dest + len] = 0]
\* From the last character down when the source is packed, so that it can be the destination.
amx_StrUnpack(m, dest, source, len) ==
  LET down(t, i) == [t EXCEPT ![dest + len - i] = Char(t[source + (len - i) \div CellBytes], (len - i) % CellBytes)]
      up(t, i) == [t EXCEPT ![dest + i - 1] = t[source + i - 1]]
      done == IF Packed(m, source) THEN FoldLeft(down, m, Steps(1, len)) ELSE FoldLeft(up, m, Steps(1, len))
  IN [done EXCEPT ![dest + len] = 0]

-----------------------------------------------------------------------------
(* The natives: the memory they leave and what they return. *)
Result(m, ret) == [mem |-> m, ret |-> ret]
Room(packed, size) == IF packed THEN size * CellBytes ELSE size
Fitting(len, room) == IF len >= room THEN room - 1 ELSE len

n_strpack(m, dest, src, size) ==
  LET len == Fitting(amx_StrLen(m, src), Room(TRUE, size)) IN Result(amx_StrPack(m, dest, src, len, 0), len)
n_strunpack(m, dest, src, size) ==
  LET len == Fitting(amx_StrLen(m, src), Room(FALSE, size)) IN Result(amx_StrUnpack(m, dest, src, len), len)
n_strcopy(m, dest, src, size) ==
  LET packed == Packed(m, src)
      len == Fitting(amx_StrLen(m, src), Room(packed, size))
  IN Result(IF packed THEN amx_StrPack(m, dest, src, len, 0) ELSE amx_StrUnpack(m, dest, src, len), len)

\* Packed like the destination, or like the source when the destination is empty.
Leader(m, dest, src) == IF m[dest] = 0 THEN Packed(m, src) ELSE Packed(m, dest)
n_strcat(m, dest, src, size) ==
  LET len2 == amx_StrLen(m, dest)
      packed == Leader(m, dest, src)
      len == Fitting(len2 + amx_StrLen(m, src), Room(packed, size)) - len2
  IN Result(IF packed THEN amx_StrPack(m, dest, src, len, len2) ELSE amx_StrUnpack(m, dest + len2, src, len), len)

\* The first characters go one by one until the source begins a cell; what is returned is the rest.
n_strmid(m, dest, src, start, end, size) ==
  LET length == amx_StrLen(m, src)
      s == Min({start, length})
      e == IF end < s THEN s ELSE Min({end, length})
      packed == Packed(m, src)
      len == Fitting(e - s, Room(packed, size))
      ahead == IF s % CellBytes = 0 THEN 0 ELSE Min({CellBytes - (s % CellBytes), len})
      one(t, k) == Put(t, packedptr(dest, k), Get(t, packedptr(src, s + k)))
      begun == FoldLeft(one, m, Steps(0, ahead - 1))
  IN Result(IF ~packed THEN amx_StrUnpack(m, dest, src + s, len)
            ELSE IF len = ahead THEN Put(begun, packedptr(dest, ahead), 0)
            ELSE amx_StrPack(begun, dest, src + (s + ahead) \div CellBytes, len - ahead, ahead),
            IF packed THEN len - ahead ELSE len)

n_strdel(m, p, start, end) ==
  LET length == amx_StrLen(m, p)
      offs == Min({end, length}) - start
      char(t, k) == Put(t, packedptr(p, k), Get(t, packedptr(p, k + offs)))
      cell(t, k) == [t EXCEPT ![p + k] = t[p + k + offs]]
      moved == Steps(start, length - offs)
      done == IF Packed(m, p) THEN FoldLeft(char, m, moved) ELSE FoldLeft(cell, m, moved)
  IN IF start >= length \/ end <= start THEN Result(m, 0)
     ELSE Result(IF Packed(m, p) /\ length = offs THEN [done EXCEPT ![p] = 0] ELSE done, 1)

\* Room is made from the end down; what does not fit is lost at the end.
n_strins(m, p, sub, offset, size) ==
  LET lensub == amx_StrLen(m, sub)
      packed == Leader(m, p, sub)
      newlen == Fitting(amx_StrLen(m, p) + lensub, Room(packed, size))
      write(t, k, ch) == IF packed THEN Put(t, packedptr(p, k), ch) ELSE [t EXCEPT ![p + k] = ch]
      read(t, k) == IF packed THEN Get(t, packedptr(p, k)) ELSE t[p + k]
      shift(t, i) == write(t, newlen - i, read(t, newlen - lensub - i))
      insert(t, i) == write(t, offset + i - 1, extractchar(t, sub, i - 1, FALSE))
      ended == write(m, newlen, 0)
      shifted == FoldLeft(shift, ended, Steps(1, newlen - lensub - offset))
  IN Result(FoldLeft(insert, shifted, Steps(1, Min({lensub, newlen - offset}))), 1)

compare(m, p, q, ignorecase, length, offs) ==
  LET c1(k) == extractchar(m, p, k + offs, ignorecase)
      c2(k) == extractchar(m, q, k, ignorecase)
      differ == {k \in 0 .. length - 1 : c1(k) # c2(k)}
  IN IF differ = {} THEN 0 ELSE IF c1(Min(differ)) < c2(Min(differ)) THEN -1 ELSE 1

n_strcmp(m, p, q, ignorecase, length) ==
  LET len1 == amx_StrLen(m, p)
      len2 == amx_StrLen(m, q)
      len == Min({len1, len2, length})
      result == compare(m, p, q, ignorecase, len, 0)
  IN IF length = 0 THEN 0
     ELSE IF result = 0 /\ len # length THEN (IF len1 > len2 THEN 1 ELSE IF len1 < len2 THEN -1 ELSE 0)
     ELSE result

n_strfind(m, p, q, ignorecase, index) ==
  LET lenstr == amx_StrLen(m, p)
      lensub == amx_StrLen(m, q)
      found == {o \in index .. lenstr - lensub : compare(m, p, q, ignorecase, lensub, o) = 0}
  IN IF lensub = 0 \/ index >= lenstr \/ found = {} THEN -1 ELSE Min(found)

-----------------------------------------------------------------------------
(* What the natives promise. *)
Text(packed, chars) == [packed |-> packed, chars |-> chars]
Cut(packed, chars, size) == Text(packed, SubSeq(chars, 1, Min({Len(chars), Room(packed, size) - 1})))
Fold(chars, ignorecase) == [i \in DOMAIN chars |-> IF ignorecase /\ chars[i] \in Upper THEN chars[i] + 1 ELSE chars[i]]
Joined(t, u) == IF t.chars = <<>> THEN u.packed ELSE t.packed
Between(chars, start, end) == SubSeq(chars, start + 1, Min({end, Len(chars)}))
Spliced(chars, sub, at) == SubSeq(chars, 1, at) \o sub \o SubSeq(chars, at + 1, Len(chars))
\* The order of two strings, a prefix first; -1, 0 or 1.
Order(s, t) ==
  LET n == Min({Len(s), Len(t)})
      differ == {i \in 1 .. n : s[i] # t[i]}
  IN IF differ # {} THEN (IF s[Min(differ)] < t[Min(differ)] THEN -1 ELSE 1)
     ELSE IF Len(s) < Len(t) THEN -1 ELSE IF Len(s) > Len(t) THEN 1 ELSE 0
Prefix(s, n) == SubSeq(s, 1, Min({n, Len(s)}))
Place(s, t, index) ==
  LET at == {o \in index .. Len(s) - Len(t) : SubSeq(s, o + 1, o + Len(t)) = t}
  IN IF t = <<>> \/ at = {} THEN -1 ELSE Min(at)

-----------------------------------------------------------------------------
StringsInit ==
  /\ mem = [a \in Addresses |-> IF a \in Owned THEN 0 ELSE Other]
  /\ text = [x \in Arrays |-> Text(FALSE, <<>>)]
  /\ agree = TRUE

\* A native has changed array x.
Changes(x, result, want, ret) ==
  /\ mem' = result.mem
  /\ text' = [text EXCEPT ![x] = want]
  /\ agree' = (result.ret = ret)

SetString(x, chars, pack, size) ==
  LET t == Cut(pack, chars, size)
  IN Changes(x, Result(amx_SetString(mem, Origin[x], chars, pack, size), 0), t, 0)
StrPack(x, y, size) ==
  LET t == Cut(TRUE, text[y].chars, size)
  IN Changes(x, n_strpack(mem, Origin[x], Origin[y], size), t, Len(t.chars))
StrUnpack(x, y, size) ==
  LET t == Cut(FALSE, text[y].chars, size)
  IN Changes(x, n_strunpack(mem, Origin[x], Origin[y], size), t, Len(t.chars))
StrCopy(x, y, size) ==
  LET t == Cut(text[y].packed, text[y].chars, size)
  IN Changes(x, n_strcopy(mem, Origin[x], Origin[y], size), t, Len(t.chars))
StrCat(x, y) ==
  LET t == Cut(Joined(text[x], text[y]), text[x].chars \o text[y].chars, Size[x])
  IN Changes(x, n_strcat(mem, Origin[x], Origin[y], Size[x]), t, Len(t.chars) - Len(text[x].chars))

\* An empty piece of a packed string is left out: only its first character is cleared.  So is
\* what strmid() returns for a packed string: less than the piece when its first cell is cut.
StrMid(x, y, start, end, size) ==
  LET piece == Between(text[y].chars, start, end)
      t == Cut(text[y].packed, piece, size)
  IN /\ piece = <<>> => ~text[y].packed \/ text[y].chars = <<>>
     /\ LET result == n_strmid(mem, Origin[x], Origin[y], start, end, size)
        IN Changes(x, result, t, IF t.packed THEN result.ret ELSE Len(t.chars))
StrDel(x, start, end) ==
  LET s == text[x].chars
      none == start >= Len(s) \/ end <= start
      rest == SubSeq(s, 1, start) \o SubSeq(s, end + 1, Len(s))
  IN Changes(x, n_strdel(mem, Origin[x], start, end), IF none THEN text[x] ELSE Text(text[x].packed, rest), IF none THEN 0 ELSE 1)
StrIns(x, y, at) ==
  LET t == Cut(Joined(text[x], text[y]), Spliced(text[x].chars, text[y].chars, at), Size[x])
  IN /\ x # y /\ at <= Len(text[x].chars)
     /\ Changes(x, n_strins(mem, Origin[x], Origin[y], at, Size[x]), t, 1)

\* Comparing and finding change nothing.
Compare(x, y, ignorecase, length) ==
  LET s == Fold(text[x].chars, ignorecase)
      t == Fold(text[y].chars, ignorecase)
  IN /\ agree' = (n_strcmp(mem, Origin[x], Origin[y], ignorecase, length) = Order(Prefix(s, length), Prefix(t, length)))
     /\ UNCHANGED <<mem, text>>
Find(x, y, ignorecase, index) ==
  /\ agree' = (n_strfind(mem, Origin[x], Origin[y], ignorecase, index)
                 = Place(Fold(text[x].chars, ignorecase), Fold(text[y].chars, ignorecase), index))
  /\ UNCHANGED <<mem, text>>

Ends == 0 .. 4
StringsNext ==
  \E x, y \in Arrays :
    \/ \E chars \in Hosted, pack \in BOOLEAN : SetString(x, chars, pack, Size[x])
    \/ \E size \in 1 .. Size[x] : StrPack(x, y, size) \/ StrUnpack(x, y, size) \/ StrCopy(x, y, size)
    \/ StrCat(x, y)
    \/ \E start, end \in Ends : StrMid(x, y, start, end, Size[x])
    \/ \E start, end \in Ends : StrDel(x, start, end)
    \/ \E at \in Ends : StrIns(x, y, at)
    \/ \E ignorecase \in BOOLEAN, length \in {0, 2, CELLMAX} : Compare(x, y, ignorecase, length)
    \/ \E ignorecase \in BOOLEAN, index \in Ends : Find(x, y, ignorecase, index)

StringsSpec == StringsInit /\ [][StringsNext]_stringVars

-----------------------------------------------------------------------------
\* Every array reads as what the natives that wrote it promise, in the form they promise,
\* whatever is left behind the terminator (amx_GetString()), and no native writes behind an array.
ContentsKept ==
  /\ \A a \in Addresses \ Owned : mem[a] = Other
  /\ \A x \in Arrays :
       /\ amx_GetString(mem, Origin[x]) = text[x].chars
       /\ text[x].chars # <<>> => Packed(mem, Origin[x]) = text[x].packed

\* What is left over changes neither a length nor a comparison nor a search: amx_StrLen()
\* counts the characters, and each native returns what it says.
ResultsAgree == agree /\ \A x \in Arrays : amx_StrLen(mem, Origin[x]) = Len(text[x].chars)
=============================================================================
