----------------------------- MODULE MCNatives -----------------------------
(***************************************************************************)
(* The natives that compute.  Cells of two characters, two arrays of three *)
(* and two cells behind each other; or a text on its way, with characters  *)
(* at the limits of each length; or a pattern of up to three items and a   *)
(* name; or a sum of fixed point numbers in cells of 14 bits, at the       *)
(* limits of a word and of a cell.  And the objects that natives make for  *)
(* scripts, with their collector.                                          *)
(***************************************************************************)
EXTENDS Strings, MCAmxGC, TLC
CONSTANTS Wide, Damages, MaxWide, Raw, Urls, CELLMIN,
          Items, MaxItems, Names, Behind,
          WORDSHIFT, MULTIPLIER, LIMIT32, Operands, Divisors, Exponents
VARIABLES job, search, sum,
          part     \* "objects", or "values" for the natives that compute
C == INSTANCE Codecs WITH CELLMAX <- -1 - CELLMIN
P == INSTANCE Patterns
F == INSTANCE Fixed

MCArrays == {"a", "b"}
MCOrigin == [x \in MCArrays |-> IF x = "a" THEN 0 ELSE 3]
MCSize == [x \in MCArrays |-> IF x = "a" THEN 3 ELSE 2]
MCUpper == {1}
MCHosted == {<<1, 2>>, <<2>>, <<2, 1, 1>>}
MCCELLMIN == -128
MCWide == {65, 127, 128, 2047, 2048, 55295, 55296, 57343, 57344, 65279, 65533, 65534, 65535, 65536,
           2097151, 2097152, 67108863, 67108864, 2147483647}
MCDamages == {65, 128, 159, 160, 191, 192, 193, 224, 240, 252, 254}
MCRaw == UNION {[1 .. n -> {0, 63, 170, 255}] : n \in 0 .. 5}
MCUrls == UNION {[1 .. n -> {"plain", "reserved"}] : n \in 0 .. 5}

MCItems ==
  LET One(c) == [lo |-> c, hi |-> c]
      Item(kind, negated, elements) == [kind |-> kind, negated |-> negated, elements |-> elements]
  IN {Item("char", FALSE, <<One(97)>>), Item("char", FALSE, <<One(66)>>), Item("quoted", FALSE, <<One(42)>>),
      Item("any", FALSE, <<>>), Item("all", FALSE, <<>>), Item("not", FALSE, <<>>),
      Item("set", FALSE, <<One(97), One(42)>>), Item("set", TRUE, <<[lo |-> 97, hi |-> 98]>>),
      Item("set", FALSE, <<One(97), [lo |-> 66, hi |-> 67]>>),
      Item("run", FALSE, <<[lo |-> 97, hi |-> 98]>>), Item("run", TRUE, <<One(97)>>)}
MCNames == UNION {[1 .. n -> {97, 66}] : n \in 0 .. 3} \cup {<<42>>, <<97, 42>>, <<42, 66>>}
MCOperands ==
  LET sizes == 0 .. 2 \cup {4, 5, 6, 9, 10, 11, 14, 15, 16, 19, 20, 23, 25, 27, 28, 30, 35} \cup 63 .. 65
               \cup {100, 571, 1000, 1277, 1281, 4000, 8190, 8191} \cup 126 .. 129 \cup 255 .. 257 \cup {281, 287}
  IN sizes \cup {-x : x \in sizes} \cup {-8192}
MCDivisors == {1, 2, 7, 10, 64, 127, 128, 129, 255, 256, 257, 300, 1000, 8191, 8192, 16255, 16256, 16383}
MCExponents == -3 .. 9

\* A behaviour stays with the objects or with one of the four kinds of values.
Blank == (\A a \in Owned : mem[a] = 0) /\ (\A x \in Arrays : text[x] = Text(FALSE, <<>>)) /\ agree
MCInit ==
  /\ part \in {"values", "objects"}
  /\ part = "values" => host = (CHOOSE h \in Hosts : TRUE)
  /\ Init /\ StringsInit /\ C!Init /\ P!Init /\ F!Init
MCValues ==
  \/ job = C!None /\ search = P!None /\ sum = F!None /\ StringsNext /\ UNCHANGED <<job, search, sum>>
  \/ Blank /\ search = P!None /\ sum = F!None /\ C!Next /\ UNCHANGED <<stringVars, search, sum>>
  \/ Blank /\ job = C!None /\ sum = F!None /\ P!Next /\ UNCHANGED <<stringVars, job, sum>>
  \/ Blank /\ job = C!None /\ search = P!None /\ F!Next /\ UNCHANGED <<stringVars, job, search>>
MCNext ==
  \/ part = "values" /\ MCValues /\ UNCHANGED <<vars, part>>
  \/ part = "objects" /\ Next /\ UNCHANGED <<stringVars, job, search, sum, part>>
MCSpec == MCInit /\ [][MCNext]_<<vars, stringVars, job, search, sum, part>>
DecodesAgain == C!DecodesAgain
FindsMeant == P!FindsMeant
Exact == F!Exact
=============================================================================
