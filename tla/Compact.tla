------------------------------ MODULE Compact ------------------------------
(***************************************************************************)
(* Compact encoding: the assembler writes each cell in one to three bytes  *)
(* (encode_cell, write_encoded, write_encoded_n, sc6.c) and starts again   *)
(* without compression when that does not pay (assemble); the abstract     *)
(* machine expands the bytes in the memory they were read to, from the end *)
(* backward (expand, amx.c). Cells have 16 bits.                           *)
(***************************************************************************)
EXTENDS Integers, Sequences, SequencesExt

CONSTANT AMX_COMPACTMARGIN

CELLSIZE == 2
ENC_MAX == 3
ENC_MASK == 3

Largest(S) == CHOOSE n \in S : \A m \in S : m <= n
\* 7 bits in a byte, the highest first; the leading bytes that only repeat the
\* sign are left out, every byte but the last one has the continuation bit.
encode_cell(c) ==
    LET buffer == <<c \div 16384, (c \div 128) % 128, c % 128>>
        Sign(i) == buffer[i + 1] >= 64
        zeros == Largest({n \in 0 .. ENC_MAX - 1 : \A i \in 1 .. n : buffer[i] = 0 /\ ~Sign(i)})
        ones == Largest({n \in 0 .. ENC_MAX - 1 :
                    \A i \in 1 .. n : buffer[i] = (IF i = 1 THEN ENC_MASK ELSE 127) /\ Sign(i)})
        skip == IF zeros > 0 THEN zeros ELSE ones
    IN  [i \in 1 .. ENC_MAX - skip |-> buffer[skip + i] + IF skip + i < ENC_MAX THEN 128 ELSE 0]
aligncell(c) == <<c % 256, c \div 256>>

-----------------------------------------------------------------------------
VARIABLES cells,        \* runs <<value, count>> that are written
          written,      \* how many of them are
          sc_compress, bytes_in, bytes_out, fout,
          code,         \* the memory of the machine, UNKNOWN where nothing was read
          codesize, memsize,
          spare         \* the ring of cells that wait: sc of them, the oldest at sh

UNKNOWN == -1
Repeat(s, n) == FlattenSeq([i \in 1 .. n |-> s])

Waits(loc, c) == [memloc |-> loc, c |-> c]
NoSpare == [ring |-> [i \in 0 .. AMX_COMPACTMARGIN - 1 |-> Waits(0, UNKNOWN)], sh |-> 0, sc |-> 0]

CompactInit ==
    /\ written = 0 /\ bytes_in = 0 /\ bytes_out = 0 /\ sc_compress = TRUE /\ fout = << >>
    /\ code = << >> /\ codesize = 0 /\ memsize = 0 /\ spare = NoSpare

\* The output may not run ahead of the input by the margin.
longjmp(out, in) == out - in >= AMX_COMPACTMARGIN - 2
Restart ==
    /\ sc_compress' = FALSE /\ fout' = << >> /\ written' = 0
    /\ bytes_in' = 0 /\ bytes_out' = 0
\* One run: a row of cells (write_encoded, tested cell by cell) or a filled
\* range (write_encoded_n, tested once).
write_encoded ==
    LET value == cells[written + 1][1]
        num == cells[written + 1][2]
        bytes == encode_cell(value)
        In(n) == bytes_in + n * CELLSIZE
        Out(n) == bytes_out + n * Len(bytes)
    IN  /\ written < Len(cells)
        /\ IF sc_compress /\ \E n \in 1 .. num : longjmp(Out(n), In(n)) THEN Restart
           ELSE /\ written' = written + 1
                /\ fout' = fout \o Repeat(IF sc_compress THEN bytes ELSE aligncell(value), num)
                /\ bytes_in' = IF sc_compress THEN In(num) ELSE bytes_in
                /\ bytes_out' = IF sc_compress THEN Out(num) ELSE bytes_out
                /\ UNCHANGED sc_compress
        /\ UNCHANGED <<cells, code, codesize, memsize, spare>>
\* After the last cell: not worth it, or not.
NotSmaller == written = Len(cells) /\ bytes_out - bytes_in > 0
CheckSize == NotSmaller /\ Restart /\ UNCHANGED <<cells, code, codesize, memsize, spare>>

\* The image is read to the start of the memory that it will fill.
Total == FoldLeft(LAMBDA n, r : n + r[2], 0, cells) * CELLSIZE
Read ==
    /\ written = Len(cells) /\ ~NotSmaller /\ code = << >> /\ cells # << >>
    /\ code' = fout \o Repeat(<<UNKNOWN>>, Total - Len(fout))
    /\ codesize' = IF sc_compress THEN Len(fout) ELSE 0
    /\ memsize' = IF sc_compress THEN Total ELSE 0
    /\ spare' = NoSpare
    /\ UNCHANGED <<cells, written, sc_compress, bytes_in, bytes_out, fout>>

Store(memory, loc, c) ==
    [memory EXCEPT ![loc + 1] = aligncell(c)[1], ![loc + 2] = aligncell(c)[2]]
\* The bytes of the last cell in front of codesize.
Encoded ==
    LET starts == {i \in 1 .. codesize : \A j \in i .. codesize - 1 : code[j] >= 128}
    IN  SubSeq(code, CHOOSE i \in starts : \A j \in starts : i <= j, codesize)
\* 7 bits each, sign expanded from the first byte.
Decoded(bytes) ==
    LET value == FoldLeft(LAMBDA v, b : v * 128 + (b % 128), 0, bytes)
        shift == 7 * Len(bytes)
    IN  IF bytes[1] % 128 >= 64 /\ shift < 16 THEN value + 65536 - 2 ^ shift ELSE value % 65536
\* The cell that waits behind n others.
Waiting(n) == spare.ring[(spare.sh + n) % AMX_COMPACTMARGIN]
\* Bug: a cell that waits is stored as soon as it is not below the input.
ReleasedEarly(size) == Cardinality({n \in 0 .. spare.sc - 1 : Waiting(n).memloc + CELLSIZE > size})
\* How many cells wait in the ring whose place has been read.
Released(size) ==
    Largest({n \in 0 .. spare.sc : \A i \in 0 .. n - 1 : Waiting(i).memloc > size})
\* One round of the loop.  A ring that is full loses its oldest cell when one
\* more is added.
expand ==
    LET bytes == Encoded
        size == codesize - Len(bytes)
        loc == memsize - CELLSIZE
        out == Released(size)
        flushed == FoldLeft(LAMBDA mem, s : Store(mem, s.memloc, s.c), code,
                            [i \in 1 .. out |-> Waiting(i - 1)])
        kept == [spare EXCEPT !.sh = (@ + out) % AMX_COMPACTMARGIN, !.sc = @ - out]
        st == (kept.sh + kept.sc) % AMX_COMPACTMARGIN
        direct == loc > size \/ (loc = size /\ loc = 0)
    IN  /\ codesize > 0
        /\ codesize' = size /\ memsize' = loc
        /\ code' = IF direct THEN Store(flushed, loc, Decoded(bytes)) ELSE flushed
        /\ spare' = IF direct THEN kept
                    ELSE [kept EXCEPT !.ring[st] = Waits(loc, Decoded(bytes)), !.sc = @ + 1]
        /\ UNCHANGED <<cells, written, sc_compress, bytes_in, bytes_out, fout>>

CompactNext == write_encoded \/ CheckSize \/ Read \/ expand

-----------------------------------------------------------------------------
\* "when all bytes have been expanded, the complete memory block should be
\* done": it has the cells that were assembled, never more bytes were written
\* than the memory has, and the ring held all that had to wait.
ExpandRestores ==
    /\ Len(code) <= Total /\ spare.sc <= AMX_COMPACTMARGIN
    /\ code # << >> /\ codesize = 0 =>
           /\ memsize = 0 /\ spare.sc = 0
           /\ code = FlattenSeq([i \in DOMAIN cells |-> Repeat(aligncell(cells[i][1]), cells[i][2])])
=============================================================================
