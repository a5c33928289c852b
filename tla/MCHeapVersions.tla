--------------------------- MODULE MCHeapVersions ---------------------------
(***************************************************************************)
(* A chunk of three bits, a writable block of two and an additive one.     *)
(***************************************************************************)
EXTENDS HeapVersions

Counter == [offset |-> 0, size |-> 1, type |-> "int_additive"]
Pair == [offset |-> 1, size |-> 2, type |-> "writable"]
MCBlocks == {Counter, Pair}

\* The chunk ends inside of the writable block.
MCChunks == {[size |-> 2, bytes |-> [o \in 0 .. 2 |-> IF o < 2 THEN 1 ELSE 0]]}

MCResizings == {[type |-> "expandable", bound |-> 3], [type |-> "shrinkable", bound |-> 1]}

\* The second bit, or both.
Word(w) == [p \in 0 .. Len(w) - 1 |-> w[p + 1]]
MCStores == {[at |-> 1, bytes |-> Word(<<1>>)], [at |-> 0, bytes |-> Word(<<0, 0>>)]}
MCAdditions == {1}
=============================================================================
