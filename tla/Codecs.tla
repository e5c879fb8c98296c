------------------------------- MODULE Codecs -------------------------------
(***************************************************************************)
(* The encodings a text passes through between host, source file and       *)
(* script: UTF-8 (amx/amx.c for the host, compiler/sci18n.c for a source   *)
(* file), uuencode, the escapes of a URL and decimal numbers               *)
(* (amx/amxstring.c).                                                      *)
(*                                                                         *)
(* A job is one text on its way.  UTF-8 goes character by character, and a *)
(* byte may be damaged on the way; the others are encoded and decoded in   *)
(* one go.                                                                 *)
(***************************************************************************)
EXTENDS Integers, Sequences, SequencesExt, TLC

CONSTANTS Wide,      \* characters of the texts
          Damages,   \* bytes that a byte may turn into
          MaxWide,   \* length of a text in characters
          Raw,       \* byte strings to uuencode
          Urls,      \* texts to escape: "plain" characters and "reserved" ones
          CELLMIN, CELLMAX

VARIABLE job

-----------------------------------------------------------------------------
(* UTF-8. A byte string ends in a zero, which is not part of the sequence. *)
utf8_count == <<0, 0, 0, 0, 0, 0, 0, 0, 1, 1, 1, 1, 2, 2, 3, 4>>
utf8_lowmark == <<128, 2048, 65536, 2097152, 67108864>>
Reserved(v) == v \in 55296 .. 57343 \/ v \in {65534, 65535}
Follower(s, i) == i <= Len(s) /\ s[i] \in 128 .. 191
Collected(first, s, n) == FoldLeft(LAMBDA v, i : v * 64 + (s[i] % 64), first, [i \in 1 .. n |-> i + 1])
NoChar == [size |-> 0, value |-> 0]

\* Mutant: a character may be written in more bytes than it needs.
UTF8GetLenient(s) ==
  LET c == s[1]
      followup == utf8_count[((c \div 4) % 16) + 1]
      result == Collected(c % (32 \div 2 ^ followup), s, followup + 1)
  IN IF c < 128 THEN [size |-> 1, value |-> c]
     ELSE IF c < 192 \/ c >= 254 \/ \E i \in 2 .. followup + 2 : ~Follower(s, i) THEN NoChar
     ELSE IF Reserved(result) THEN NoChar ELSE [size |-> followup + 2, value |-> result]

\* The host: the character at the front of s, and its size in bytes; 0 when it is not valid.
amx_UTF8Get(s) ==
  LET c == s[1]
      followup == utf8_count[((c \div 4) % 16) + 1]
      result == Collected(c % (32 \div 2 ^ followup), s, followup + 1)
  IN IF c < 128 THEN [size |-> 1, value |-> c]
     ELSE IF c < 192 \/ c >= 254 \/ \E i \in 2 .. followup + 2 : ~Follower(s, i) THEN NoChar
     ELSE IF result < utf8_lowmark[followup + 1] \/ Reserved(result) THEN NoChar
     ELSE [size |-> followup + 2, value |-> result]

Limits == <<128, 2048, 65536, 2097152, 67108864>>
Leads == <<0, 192, 224, 240, 248, 252>>
\* The bytes of a character, none when they do not fit or the character does not exist.
amx_UTF8Put(value, maxchars) ==
  LET n == 1 + Len(SelectSeq(Limits, LAMBDA x : value >= x))
      bits(i) == value \div 64 ^ (n - i)
  IN IF n > maxchars \/ (n = 3 /\ Reserved(value)) THEN <<>>
     ELSE [i \in 1 .. n |-> IF i = 1 THEN Leads[n] + bits(1) ELSE 128 + (bits(i) % 64)]

\* The characters of s up to its end or the first error, which counts as one.
RECURSIVE amx_UTF8Check(_)
amx_UTF8Check(s) ==
  IF s = <<>> THEN 0
  ELSE LET g == amx_UTF8Get(s) IN IF g.size = 0 THEN 1 ELSE 1 + amx_UTF8Check(SubSeq(s, g.size + 1, Len(s)))
amx_UTF8Len(wide) == FoldLeft(LAMBDA n, v : n + Len(amx_UTF8Put(v, 10)), 0, wide)

\* The compiler: the loop is left after the first follower.
get_utf8_char(s) ==
  LET c == s[1]
      leader == CHOOSE n \in 2 .. 6 : c >= Leads[n] /\ (n < 6 => c < Leads[n + 1])
      follow == leader - 1
      result == Collected(c - Leads[leader], s, 1)
  IN IF c < 128 THEN [size |-> 1, value |-> c]
     ELSE IF c < 192 \/ c >= 254 \/ ~Follower(s, 2) THEN NoChar
     ELSE IF follow = 1 /\ (result < 128 \/ Reserved(result)) THEN NoChar
     ELSE [size |-> 2, value |-> result]

-----------------------------------------------------------------------------
(* uuencode: three bytes become four characters, of six bits each. *)
ENC(c) == IF c % 64 = 0 THEN 96 ELSE (c % 64) + 32
DEC(c) == (c - 32) % 64
BITMASK == 63
\* Mutant: the last group has a character for each byte only.
UuShort(s) ==
  LET byte(i) == IF i <= Len(s) THEN s[i] ELSE 0
      group(k) == LET a == byte(3 * k + 1) b == byte(3 * k + 2) c == byte(3 * k + 3)
                  IN <<a \div 4, a * 16 + b \div 16, b * 4 + c \div 64, c>>
      chars(k) == IF Len(s) - 3 * k >= 3 THEN 4 ELSE Len(s) - 3 * k
      groups == [k \in 1 .. (Len(s) + 2) \div 3 |-> SubSeq(group(k - 1), 1, chars(k - 1))]
      all == FlattenSeq(groups) \o <<0, 0>>
  IN <<ENC(Len(s))>> \o [i \in DOMAIN all |-> ENC(all[i])]
uuencode(s) ==
  LET byte(i) == IF i <= Len(s) THEN s[i] ELSE 0
      group(k) == LET a == byte(3 * k + 1) b == byte(3 * k + 2) c == byte(3 * k + 3)
                  IN <<a \div 4, a * 16 + b \div 16, b * 4 + c \div 64, c>>
      chars(k) == IF Len(s) - 3 * k >= 3 THEN 4 ELSE Len(s) - 3 * k + 1
      groups == [k \in 1 .. (Len(s) + 2) \div 3 |-> SubSeq(group(k - 1), 1, chars(k - 1))]
  IN IF Len(s) > BITMASK THEN <<>> ELSE <<ENC(Len(s))>> \o [i \in DOMAIN FlattenSeq(groups) |-> ENC(FlattenSeq(groups)[i])]
uudecode(s) ==
  LET at(k, i) == DEC(s[4 * k + i + 1])
      byte(k, i) == IF i = 1 THEN at(k, 1) * 4 + at(k, 2) \div 16
                    ELSE IF i = 2 THEN at(k, 2) * 16 + at(k, 3) \div 4
                    ELSE at(k, 3) * 64 + at(k, 4)
  IN [i \in 1 .. DEC(s[1]) |-> byte((i - 1) \div 3, ((i - 1) % 3) + 1) % 256]

-----------------------------------------------------------------------------
(* The escapes of a URL, made in the buffer that holds the text. *)
Width(c) == IF c = "reserved" THEN 3 ELSE 1
Escaped(c) == IF c = "reserved" THEN <<"%", "h", "l">> ELSE <<c>>
\* First the length is found, then the buffer is filled from its end down.
n_urlencode(s, length) ==
  LET text == SubSeq(s, 1, IF Len(s) >= length THEN length - 1 ELSE Len(s))
      destlen[n \in 0 .. Len(text)] == IF n = 0 THEN 1 ELSE destlen[n - 1] + Width(text[n])
      count == CHOOSE n \in 0 .. Len(text) : /\ (n = Len(text) \/ destlen[n] >= length)
                                             /\ \A k \in 0 .. n - 1 : destlen[k] < length
      kept == IF destlen[count] > length THEN count - 1 ELSE count
      fill(buffer, i) ==
        LET c == buffer.s[kept + 1 - i]
            to == buffer.destlen - Width(c)
        IN [s |-> [k \in DOMAIN buffer.s |-> IF k \in to + 1 .. buffer.destlen THEN Escaped(c)[k - to] ELSE buffer.s[k]],
            destlen |-> to]
      start == [s |-> [k \in 1 .. length |-> IF k <= Len(text) THEN text[k] ELSE "none"], destlen |-> destlen[kept] - 1]
  IN IF length = 0 THEN <<>> ELSE SubSeq(FoldLeft(fill, start, [i \in 1 .. kept |-> i]).s, 1, destlen[kept] - 1)

-----------------------------------------------------------------------------
(* Decimal numbers: the digits of a value are taken from its end. *)
Abs(x) == IF x < 0 THEN -x ELSE x
\* C's division and remainder round to zero.
Digits[v \in 0 .. -CELLMIN] == IF v < 10 THEN <<v>> ELSE Append(Digits[v \div 10], v % 10)
n_valstr(value) == (IF value < 0 THEN <<"-">> ELSE <<>>) \o [i \in DOMAIN Digits[Abs(value)] |-> ToString(Digits[Abs(value)][i])]
Wrapped(v) == ((v - CELLMIN) % (CELLMAX - CELLMIN + 1)) + CELLMIN
Value(c) == CHOOSE d \in 0 .. 9 : c = ToString(d)
n_strval(s) ==
  LET negate == s[1] = "-"
      digits == IF s[1] \in {"-", "+"} THEN Tail(s) ELSE s
      result == FoldLeft(LAMBDA v, c : Wrapped(v * 10 + Value(c)), 0, digits)
  IN Wrapped(IF negate THEN -result ELSE result)

-----------------------------------------------------------------------------
None == [kind |-> "none"]
Init == job = None

\* A text is written as UTF-8 while there is room; characters that cannot be written are left out.
PutChar(v, maxchars) ==
  LET t == IF job = None THEN [kind |-> "utf8", wide |-> <<>>, bytes |-> <<>>, read |-> <<>>, from |-> 0, damaged |-> FALSE] ELSE job
      put == amx_UTF8Put(v, maxchars)
  IN /\ t.kind = "utf8" /\ t.from = 0 /\ ~t.damaged /\ Len(t.wide) < MaxWide
     /\ job' = [t EXCEPT !.wide = IF put = <<>> THEN @ ELSE Append(@, v), !.bytes = @ \o put]
Damage ==
  /\ job.kind = "utf8" /\ job.from = 0 /\ ~job.damaged
  /\ \E i \in DOMAIN job.bytes, b \in Damages : job' = [job EXCEPT !.bytes[i] = b, !.damaged = TRUE]
GetChar ==
  /\ job.kind = "utf8" /\ job.from < Len(job.bytes)
  /\ LET rest == SubSeq(job.bytes, job.from + 1, Len(job.bytes))
         g == amx_UTF8Get(rest)
     IN /\ g.size > 0
        /\ job' = [job EXCEPT !.from = @ + g.size,
                              !.read = Append(@, [value |-> g.value, bytes |-> SubSeq(rest, 1, g.size), compiler |-> get_utf8_char(rest)])]

Encode ==
  /\ job = None
  /\ \/ \E s \in Raw : job' = [kind |-> "uu", in |-> s, out |-> uuencode(s)]
     \/ \E s \in Urls, length \in 1 .. 8 : job' = [kind |-> "url", in |-> s, room |-> length, out |-> n_urlencode(s, length)]
     \/ \E v \in CELLMIN .. CELLMAX : job' = [kind |-> "value", in |-> v, out |-> n_valstr(v)]
Decode ==
  /\ job.kind \in {"uu", "value"} /\ "back" \notin DOMAIN job
  /\ job' = [f \in DOMAIN job \union {"back"} |->
              IF f # "back" THEN job[f] ELSE IF job.kind = "uu" THEN uudecode(job.out) ELSE n_strval(job.out)]

Next == (\E v \in Wide, maxchars \in 1 .. 6 : PutChar(v, maxchars)) \/ Damage \/ GetChar \/ Encode \/ Decode
Spec == Init /\ [][Next]_job

-----------------------------------------------------------------------------
(* What an encoding promises, by its definition. *)
Encoding(s) == FlattenSeq([i \in DOMAIN s |-> Escaped(s[i])])

\* What was encoded is decoded again: a text in UTF-8 that arrives whole gives its characters in
\* order, is valid and has the announced length, and the compiler reads its characters of one or two
\* bytes as the host does; bytes give the same bytes whatever their number, and a number itself, the
\* smallest cell too.  There is one way to write a character: whatever happened to the bytes, a
\* character that amx_UTF8Get() accepts is one that amx_UTF8Put() writes as exactly these bytes, so
\* that no two byte strings read as the same text.  An escape is never cut: urlencode() gives the
\* encoding of as many characters as fit.
DecodesAgain ==
  /\ job.kind = "utf8" =>
       /\ amx_UTF8Len(job.wide) = Len(job.bytes)
       /\ ~job.damaged => /\ amx_UTF8Check(job.bytes) = Len(job.wide)
                          /\ \A i \in DOMAIN job.read : job.read[i].value = job.wide[i]
                          /\ job.from = Len(job.bytes) => Len(job.read) = Len(job.wide)
                          /\ \A i \in DOMAIN job.read : Len(job.read[i].bytes) <= 2 => job.read[i].compiler.value = job.wide[i]
       /\ \A i \in DOMAIN job.read : amx_UTF8Put(job.read[i].value, 6) = job.read[i].bytes
  /\ "back" \in DOMAIN job => job.back = job.in
  /\ job.kind = "url" =>
       \E n \in 0 .. Len(job.in) :
         /\ job.out = Encoding(SubSeq(job.in, 1, n))
         /\ n < Len(job.in) => Len(Encoding(SubSeq(job.in, 1, n + 1))) >= job.room

=============================================================================
