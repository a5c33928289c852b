---------------------------- MODULE ChunkDeltas ----------------------------
(***************************************************************************)
(* Chunk: its size, its capacity (the length of its bytes), and what the   *)
(* operations on it do.  A delta is a sequence of bytes; the reader of a   *)
(* delta is at the next byte it will read.  A loop is a function of how    *)
(* often its body was executed.                                            *)
(***************************************************************************)
EXTENDS PrefixCodes

NewChunk == [size |-> 0, bytes |-> << >>, writable |-> TRUE]

Capacity(c) == Len(c.bytes)

Resize(c, capacity) ==
    [c EXCEPT !.bytes = [o \in 1 .. capacity |-> IF o <= c.size THEN c.bytes[o] ELSE 0]]

ReserveSpace(c, capacity) == IF capacity <= Capacity(c) THEN c ELSE Resize(c, capacity)

ShrinkSpace(c) == Resize(c, c.size)

\* The bytes that are given up stay.
SetSizeOnly(c, size) == [c EXCEPT !.size = size]

SetSize(c, size) ==
    [c EXCEPT !.size = size,
              !.bytes = [o \in DOMAIN @ |-> IF size < o /\ o <= c.size THEN 0 ELSE @[o]]]

\* Exclusive or, bit by bit: what is left of both numbers, what the next bit counts, and
\* the result so far.
NextBit(x) ==
    [a |-> x.a \div 2, b |-> x.b \div 2, unit |-> 2 * x.unit,
     xor |-> IF x.a % 2 = x.b % 2 THEN x.xor ELSE x.xor + x.unit]

Xor(a, b) ==
    LET bits[k \in 0 .. a + b] ==
            IF k = 0 THEN [a |-> a, b |-> b, unit |-> 1, xor |-> 0] ELSE NextBit(bits[k - 1])
    IN  bits[a + b].xor

\* memcpy of the n bytes at some position of a delta. What is behind the delta's end, if
\* n reaches over it, is taken to be zero.
Copy(c, offset, s, at, n) ==
    LET Given(i) == IF i <= Len(s) THEN s[i] ELSE 0
    IN  [c EXCEPT !.bytes = [o \in DOMAIN @ |->
            IF o - offset \in 1 .. n THEN Given(at + o - offset - 1) ELSE @[o]]]

\* A reader of a chunk's delta: the chunk, the next position, the end of the last block,
\* and whether it goes on, has ended or threw out_of_range.
Reader(c, at, offset, state) == [chunk |-> c, at |-> at, offset |-> offset, state |-> state]

Stop(r, at, state) == [r EXCEPT !.at = at, !.state = state]

\* A block is cut at the new size, and the loop ends at one that begins behind it.
PutBlock(r, size, s, start, block) ==
    LET n == IF start + block.value <= size THEN block.value ELSE size - start
    IN  IF start + block.value > size /\ start >= size THEN Stop(r, block.next, "ended")
        ELSE Reader(Copy(r.chunk, start, s, block.next, n), block.next + n, start + n, "reads")

SizeBlock(r, size, s, end, diff) ==
    IF diff.value = 0 THEN Stop(r, diff.next, "ended")
    ELSE IF ~HasCode(VarUInt, s, diff.next, end) THEN Stop(r, diff.next, "threw")
    ELSE PutBlock(r, size, s, r.offset + diff.value - 1, Decode(VarUInt, s, diff.next, end))

\* The body of the loop over the blocks of a delta. First comes the number of bytes between
\* the end of the last block and this one, plus one, or 0 at the end.
ApplyBlock(r, size, s, end) ==
    IF r.state # "reads" THEN r
    ELSE IF r.at > end THEN Stop(r, r.at, "ended")
    ELSE IF ~HasCode(VarUInt, s, r.at, end) THEN Stop(r, r.at, "threw")
    ELSE SizeBlock(r, size, s, end, Decode(VarUInt, s, r.at, end))

\* No block is shorter than two bytes.
ApplyBlocks(c, size, s, at, end) ==
    LET read[k \in 0 .. end] == IF k = 0 THEN Reader(c, at, 0, "reads")
                                ELSE ApplyBlock(read[k - 1], size, s, end)
    IN  read[end]

\* The new size is set when all blocks are read.
Finished(r, size) ==
    IF r.state = "threw" THEN r
    ELSE [r EXCEPT !.chunk = ShrinkSpace([@ EXCEPT !.size = size])]

\* applyDelta: the size comes first, as what it differs in.
ApplyDelta(c, s, at, end) ==
    LET ToSize(size, next) ==
            Finished(ApplyBlocks(ReserveSpace(c, size), size, s, next, end), size)
        Sized(given) == ToSize(Xor(c.size, given.value), given.next)
    IN  IF at > end THEN Reader(c, at, 0, "ended")
        ELSE IF ~HasCode(VarUInt, s, at, end) THEN Reader(c, at, 0, "threw")
        ELSE Sized(Decode(VarUInt, s, at, end))
=============================================================================
