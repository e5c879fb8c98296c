------------------------------ MODULE Patterns ------------------------------
(***************************************************************************)
(* The pattern matcher of the file natives (amx/fpattern.c).               *)
(*                                                                         *)
(* Characters are their codes, and a text ends in a zero that is not part  *)
(* of the sequence.  Behind the zero of the name lies whatever the memory  *)
(* holds: some patterns make the matcher look there.                       *)
(*                                                                         *)
(* A search is one pattern, composed of items and perhaps cut short, that  *)
(* is then held against a name.                                            *)
(***************************************************************************)
EXTENDS Integers, Sequences, SequencesExt, FiniteSetsExt

CONSTANTS Items,       \* what patterns are composed of
          MaxItems,    \* items of a pattern
          Names,       \* the names
          Behind       \* what may lie behind the end of a name

VARIABLE search

-----------------------------------------------------------------------------
\* (The platform decides which of two characters quotes.)
FPAT_QUOTE == 92
FPAT_NOT == 33
FPAT_ANY == 63
FPAT_CLOS == 42
FPAT_SET_L == 91
FPAT_SET_R == 93
FPAT_MSET_L == 123
FPAT_MSET_R == 125
FPAT_SET_NOT == 33
FPAT_SET_THRU == 45

At(s, i) == IF i <= Len(s) THEN s[i] ELSE 0
tolower(c) == IF c \in 65 .. 90 THEN c + 32 ELSE c
lowercase(c, keepcase) == IF keepcase THEN c ELSE tolower(c)

\* A character of a set, which may be quoted, or a range of them; next is where the rest begins.
Unquoted(pat, i) == IF At(pat, i) = FPAT_QUOTE THEN i + 1 ELSE i
Element(pat, i) ==
  LET lo == Unquoted(pat, i)
      hi == Unquoted(pat, lo + 2)
  IN IF At(pat, lo) = 0 THEN [lo |-> 0, hi |-> 0, next |-> lo]
     ELSE IF At(pat, lo + 1) # FPAT_SET_THRU THEN [lo |-> pat[lo], hi |-> pat[lo], next |-> lo + 1]
     ELSE [lo |-> pat[lo], hi |-> At(pat, hi), next |-> IF At(pat, hi) = 0 THEN hi ELSE hi + 1]

\* The places of the elements of a set that begins at i, and of its end; a zero when it has none.
RECURSIVE Elements(_, _, _)
Elements(pat, i, close) ==
  IF At(pat, i) \in {close, 0} THEN <<i>>
  ELSE <<i>> \o Elements(pat, Element(pat, i).next, close)
Within(pat, i) == IF At(pat, i) = FPAT_SET_NOT THEN i + 1 ELSE i
Negated(pat, i) == At(pat, i) = FPAT_SET_NOT

RECURSIVE ValidFrom(_, _)
ValidFrom(pat, len) ==
  CASE At(pat, len) = 0 -> TRUE
    [] At(pat, len) \in {FPAT_SET_L, FPAT_MSET_L} ->
         LET close == IF pat[len] = FPAT_SET_L THEN FPAT_SET_R ELSE FPAT_MSET_R
             end == Last(Elements(pat, Within(pat, len + 1), close))
         IN At(pat, end) # 0 /\ ValidFrom(pat, end + 1)
    [] At(pat, len) \in {FPAT_QUOTE, FPAT_NOT} -> At(pat, len + 1) # 0 /\ ValidFrom(pat, len + 2)
    [] OTHER -> ValidFrom(pat, len + 1)
fpattern_isvalid(pat) == ValidFrom(pat, 1)

\* Mutant: the case of the element is not folded.
AmongAsWritten(pat, at, c, keepcase) ==
  LET e == Element(pat, at) IN lowercase(c, keepcase) \in e.lo .. e.hi
\* Whether a character is in one of the elements.
Among(pat, at, c, keepcase) ==
  LET e == Element(pat, at)
  IN lowercase(c, keepcase) \in lowercase(e.lo, keepcase) .. lowercase(e.hi, keepcase)
InSet(pat, i, close, c, keepcase) ==
  \E at \in ToSet(Front(Elements(pat, i, close))) : Among(pat, at, c, keepcase)

(***************************************************************************)
(* The position in the pattern and in the name, and the characters that    *)
(* are left of the name.  Only the count says where the name ends, and a   *)
(* negated set counts the zero behind it as a character.                   *)
(***************************************************************************)
NoRun == [at |-> [f |-> 0, left |-> 0], next |-> 0]
\* Characters of a run are taken while the set has them; the search for the end of the set stops at
\* the first bracket behind the element that matched, quoted or not.
RECURSIVE Run(_, _, _, _, _)
Run(pat, i, name, at, keepcase) ==
  LET places == Elements(pat, Within(pat, i), FPAT_MSET_R)
      found == {k \in 1 .. Len(places) - 1 : Among(pat, places[k], name[at.f], keepcase)}
      match == (found # {}) # Negated(pat, i)
      close == IF found = {} THEN ToSet(<<Last(places)>>) \cap DOMAIN pat
               ELSE {j \in Element(pat, places[Min(found)]).next .. Len(pat) : pat[j] = FPAT_MSET_R}
      on == [f |-> at.f + 1, left |-> at.left - 1]
  IN IF close = {} THEN NoRun
     ELSE IF ~match THEN [at |-> at, next |-> Min(close) + 1]
     ELSE IF on.left > 0 THEN Run(pat, i, name, on, keepcase) ELSE [at |-> on, next |-> Min(close) + 1]

RECURSIVE fpattern_submatch(_, _, _, _, _)
fpattern_submatch(pat, i, name, at, keepcase) ==
  LET fch == name[at.f]
      pch == At(pat, i)
      on(next) == fpattern_submatch(pat, next, name, [f |-> at.f + 1, left |-> at.left - 1], keepcase)
  IN CASE pch = 0 -> at.left = 0
       [] pch = FPAT_ANY -> at.left # 0 /\ on(i + 1)
       [] pch = FPAT_CLOS ->
            \E n \in 0 .. at.left :
               fpattern_submatch(pat, i + 1, name, [f |-> at.f + n, left |-> at.left - n], keepcase)
       [] pch = FPAT_QUOTE ->
            lowercase(fch, keepcase) = lowercase(At(pat, i + 1), keepcase) /\ At(pat, i + 1) # 0 /\ on(i + 2)
       [] pch = FPAT_SET_L ->
            LET first == Within(pat, i + 1)
                end == Last(Elements(pat, first, FPAT_SET_R))
            IN /\ InSet(pat, first, FPAT_SET_R, fch, keepcase) # Negated(pat, i + 1)
               /\ At(pat, end) # 0 /\ on(end + 1)
       [] pch = FPAT_MSET_L ->
            LET run == Run(pat, i + 1, name, at, keepcase)
            IN run # NoRun /\ fpattern_submatch(pat, run.next, name, run.at, keepcase)
       [] pch = FPAT_NOT ->
            At(pat, i + 1) # 0 /\ ~fpattern_submatch(pat, i + 1, name, at, keepcase)
       [] OTHER -> lowercase(fch, keepcase) = lowercase(pch, keepcase) /\ on(i + 1)

\* The memory holds the name, a zero and more.
fpattern_match(pat, fname, behind, keepcase) ==
  LET memory == fname \o <<0>> \o [i \in 1 .. Len(pat) + 1 |-> behind]
  IN IF ~fpattern_isvalid(pat) THEN FALSE
     ELSE IF fname = <<>> THEN pat = <<>>
     ELSE fpattern_submatch(pat, 1, memory, [f |-> 1, left |-> Len(fname)], keepcase)

-----------------------------------------------------------------------------
(***************************************************************************)
(* An item is a character, as it is or quoted, "any" one, any number of    *)
(* them ("all"), a character of a set or a "run" of such, negated or not,  *)
(* or the "not" of what follows.                                           *)
(***************************************************************************)
Characters(item) == UNION {e.lo .. e.hi : e \in ToSet(item.elements)}
Spelled(e) == IF e.lo = e.hi THEN <<e.lo>> ELSE <<e.lo, FPAT_SET_THRU, e.hi>>
Written(item) ==
  LET inside == (IF item.negated THEN <<FPAT_SET_NOT>> ELSE <<>>)
                \o FlattenSeq([k \in DOMAIN item.elements |-> Spelled(item.elements[k])])
  IN CASE item.kind = "char" -> Spelled(item.elements[1])
       [] item.kind = "quoted" -> <<FPAT_QUOTE>> \o Spelled(item.elements[1])
       [] item.kind = "any" -> <<FPAT_ANY>>
       [] item.kind = "all" -> <<FPAT_CLOS>>
       [] item.kind = "set" -> <<FPAT_SET_L>> \o inside \o <<FPAT_SET_R>>
       [] item.kind = "run" -> <<FPAT_MSET_L>> \o inside \o <<FPAT_MSET_R>>
       [] item.kind = "not" -> <<FPAT_NOT>>
Text(items) == FlattenSeq([k \in DOMAIN items |-> Written(items[k])])

None == [items |-> <<>>, lost |-> 0, found |-> {}]
Init == search = None
\* A pattern is written, perhaps without its last characters.
Compose ==
  /\ search = None
  /\ \E n \in 1 .. MaxItems, lost \in 0 .. 1 :
       \E items \in [1 .. n -> Items] :
          /\ lost < Len(Text(items))
          /\ search' = [items |-> items, lost |-> lost, found |-> {}]
\* It is held against a name.
Match ==
  /\ search.items # <<>> /\ search.found = {}
  /\ \E name \in Names, keepcase \in BOOLEAN :
       LET text == Text(search.items)
           pat == SubSeq(text, 1, Len(text) - search.lost)
       IN search' = [items |-> search.items, lost |-> search.lost, name |-> name, keepcase |-> keepcase,
                     found |-> {fpattern_match(pat, name, b, keepcase) : b \in Behind}]
Next == Compose \/ Match
Spec == Init /\ [][Next]_search

-----------------------------------------------------------------------------
\* What a pattern says, by its items: a run takes what it can.
Fits(item, c, keepcase) ==
  IF item.kind = "any" THEN TRUE
  ELSE ({lowercase(c, keepcase)} \subseteq {lowercase(d, keepcase) : d \in Characters(item)}) # item.negated
RECURSIVE Means(_, _, _)
Means(items, name, keepcase) ==
  IF items = <<>> THEN name = <<>>
  ELSE LET item == Head(items)  rest == Tail(items)
           From(n) == SubSeq(name, n + 1, Len(name))
           taken == Max({n \in 0 .. Len(name) : \A k \in 1 .. n : Fits(item, name[k], keepcase)})
       IN CASE item.kind = "all" -> \E n \in 0 .. Len(name) : Means(rest, From(n), keepcase)
            [] item.kind = "not" -> ~Means(rest, name, keepcase)
            [] item.kind = "run" -> Means(rest, From(taken), keepcase)
            [] OTHER -> name # <<>> /\ Fits(item, name[1], keepcase) /\ Means(rest, From(1), keepcase)

\* A negated set takes the end of a name for a character, and the count goes below zero: what these
\* patterns find is left out.
Has(items, kind) == \E k \in DOMAIN items : items[k].kind = kind
PastEnd(items) ==
  \E k \in DOMAIN items :
    /\ items[k].negated
    /\ \/ Has(items, "not")
       \/ items[k].kind = "run" /\ (k = Len(items) \/ items[k + 1].kind \in {"all", "run"})
\* The pattern ends where an item does.
Complete(items, lost) == \E n \in DOMAIN items : Len(Text(SubSeq(items, n, Len(items)))) = lost

\* A name is found if and only if it is what the pattern says, upper and lower case counting alike or
\* not, whatever the memory behind it holds; the empty name is the empty pattern only, and a pattern
\* that ends within an item finds nothing.
FindsMeant ==
  search.found # {} /\ ~PastEnd(search.items) =>
    IF search.lost = 0 /\ Last(search.items).kind # "not"
    THEN search.found = {search.name # <<>> /\ Means(search.items, search.name, search.keepcase)}
    ELSE Complete(search.items, search.lost) \/ Has(Front(search.items), "not") \/ search.found = {FALSE}
=============================================================================
