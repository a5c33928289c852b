----------------------------- MODULE HeapBlocks -----------------------------
(***************************************************************************)
(* The access blocks of one request on one chunk, and what the operations  *)
(* of the heap do to the content of a block.  A block is [offset, size,    *)
(* type]; its content is a function from 0 .. size - 1 to bytes, least     *)
(* significant byte first.  The chunk's size is kept in a block too, whose *)
(* content is a number.                                                    *)
(***************************************************************************)
EXTENDS Integers, Sequences, FiniteSets

CONSTANTS Blocks,    \* the declared blocks with an offset of at least zero
          Capacity,  \* capacity of the chunk, its proposed upper bound
          Base       \* number of values of a byte

ASSUME HeapBlocksAssumption ==
    /\ Capacity \in Nat
    /\ Base \in Nat \ {0}
    /\ \A b \in Blocks :
          /\ b.offset \in Nat /\ b.size \in Nat \ {0}
          /\ b.offset + b.size <= Capacity
          /\ b.type \in {"writable", "read_only", "int_additive", "check_only"}
    /\ \A b, c \in Blocks :
          b # c => b.offset + b.size <= c.offset \/ c.offset + c.size <= b.offset

SizeBlock == [offset |-> -1, size |-> 4, type |-> "size"]
Keys == Blocks \cup {SizeBlock}

Byte == 0 .. Base - 1
Positions(b) == 0 .. b.size - 1

\* memcpy of some bytes w into a block's content.
Overwrite(c, at, w) ==
    [p \in DOMAIN c |-> IF p - at \in DOMAIN w THEN w[p - at] ELSE c[p]]

ToInt(c) ==
    LET low[n \in 0 .. Cardinality(DOMAIN c)] ==
            IF n = 0 THEN 0 ELSE low[n - 1] + c[n - 1] * Base ^ (n - 1)
    IN  low[Cardinality(DOMAIN c)]

\* Addition in an integer of the block's width: what is carried out of it is lost.
Plus(c, x) ==
    [p \in DOMAIN c |-> ((ToInt(c) + x) \div Base ^ p) % Base]

ContentAt(chunk, b) == [p \in Positions(b) |-> chunk.bytes[b.offset + p]]

\* What a block shows before anything was done to it.  An additive block shows what
\* was added to it.
Initially(chunk, b) ==
    CASE b = SizeBlock -> chunk.size
      [] b # SizeBlock /\ b.type = "int_additive" -> [p \in Positions(b) |-> 0]
      [] OTHER -> ContentAt(chunk, b)

\* Chunk::setSize
SetSize(chunk, n) ==
    [size |-> n,
     bytes |-> [o \in DOMAIN chunk.bytes |->
                   IF n <= o /\ o < chunk.size THEN 0 ELSE chunk.bytes[o]]]
=============================================================================
