--------------------------- MODULE MCParallelHeap ---------------------------
(***************************************************************************)
(* Three requests of ten kinds on a chunk with two of three bytes in use.  *)
(***************************************************************************)
EXTENDS ParallelHeap

MCRequests == 0 .. 2
MCFailing == {0}

Block(o, s, t) == [offset |-> o, size |-> s, type |-> t]
Word(w) == [p \in 0 .. Len(w) - 1 |-> w[p + 1]]

\* Resizing blocks: no access to the size, reads it, expands up to 3, shrinks down to 1.
None == Block(-3, 0, "read_only")
Reads == Block(-2, 0, "read_only")
Expands == Block(-1, 3, "writable")
Shrinks == Block(-1, -1, "writable")

Kind(declared, program) == [blocks |-> declared, program |-> program]

Doing(do, b) == [do |-> do, block |-> b]
Putting(b, at, w) == [do |-> "store", block |-> b, at |-> at, bytes |-> Word(w)]
Copying(b) == [do |-> "copy", block |-> b, at |-> 0]
Adding(b, x) == [do |-> "add", block |-> b, value |-> x]
Sizing(n) == [do |-> "resize", block |-> None, value |-> n]
-----------------------------------------------------------------------------
First(type) == Block(0, 1, type)
Second(type) == Block(1, 1, type)
Last(type) == Block(2, 1, type)
Front(type) == Block(0, 2, type)
Back(type) == Block(1, 2, type)

Kinds == {
    \* Adds to the second byte, or to the first two.
    Kind({None, Second("int_additive")}, <<Adding(Second("int_additive"), 1)>>),
    Kind({None, Front("int_additive")}, <<Adding(Front("int_additive"), 2)>>),
    \* Copies the first byte to the second, or the second to the first.
    Kind({None, First("read_only"), Second("writable")},
         <<Doing("load", First("read_only")), Copying(Second("writable"))>>),
    Kind({None, Second("read_only"), First("writable")},
         <<Doing("load", Second("read_only")), Copying(First("writable"))>>),
    \* Writes across the chunk's end.
    Kind({None, Back("writable")}, <<Putting(Back("writable"), 1, <<2>>)>>),
    \* Expands the chunk and writes the new byte.
    Kind({Expands, Last("writable")}, <<Sizing(3), Putting(Last("writable"), 0, <<2>>)>>),
    \* Shrinks the chunk and reads what it cuts off.
    Kind({Shrinks, Second("read_only")}, <<Sizing(1), Doing("load", Second("read_only"))>>),
    \* Asks for the size, and whether blocks are inside of the chunk.
    Kind({Reads, First("check_only")}, <<Doing("size", None), Doing("valid", First("check_only"))>>),
    Kind({None, First("check_only"), Last("check_only")},
         <<Doing("valid", First("check_only")), Doing("valid", Last("check_only"))>>),
    \* Reads the integer that it may only add to, or expands too far.
    Kind({None, First("int_additive")},
         <<Adding(First("int_additive"), 1), Doing("load", First("int_additive"))>>)}

MCProgramOf(declared) == (CHOOSE k \in Kinds : k.blocks = declared).program

ForwardPairs == {p \in Request \X Request : p[1] < p[2]}

MCInputs ==
    [accessMap : [Request -> {k.blocks : k \in Kinds}],
     bounds : {[size |-> 2, lower |-> 1, upper |-> 3]},
     dag : SUBSET ForwardPairs]
=============================================================================
