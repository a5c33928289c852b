-------------------------- MODULE MCClusterProduct --------------------------
(***************************************************************************)
(* Small instances of ClusterProduct: what up to four requests may declare *)
(* on a chunk of two or three bytes.                                       *)
(***************************************************************************)
EXTENDS ClusterProduct

MCRequests == 0 .. 3

Block(o, s, t) == [offset |-> o, size |-> s, type |-> t]

Spans(bytes) == {p \in (0 .. bytes - 1) \X (1 .. bytes) : p[1] + p[2] <= bytes}

\* Up to n blocks that do not overlap, as memoryAccessMap asks for.
BlockSets(bytes, n, types) ==
    UNION {{{Block(p[1], p[2], type[p]) : p \in S} : type \in [S -> types]} :
              S \in {T \in SUBSET Spans(bytes) :
                        /\ T # {} /\ Cardinality(T) <= n
                        /\ \A a, b \in T : a # b => a[1] + a[2] <= b[1] \/ b[1] + b[2] <= a[1]}}

\* The first n requests declare one of some sets of blocks, the others nothing.
Declared(n, sets) ==
    {[r \in Request |-> IF r < n THEN f[r] ELSE {}] : f \in [0 .. n - 1 -> sets]}

ForwardPairs == {p \in Request \X Request : p[1] < p[2]}
PairsUpTo(n) == {p \in ForwardPairs : p[2] < n}

MakeInputs(accessMaps, boundSets, dags) ==
    [accessMap : accessMaps, bounds : boundSets, dag : dags]

\* Bounds that play no part: nobody resizes the chunk.
FixedSize == {[size |-> 3, lower |-> 3, upper |-> 3]}
-----------------------------------------------------------------------------
\* Four requests with one block each, of every offset and size.
Cliques ==
    MakeInputs(Declared(4, BlockSets(3, 1, {"writable", "read_only"})),
               FixedSize, {ForwardPairs})

\* Three requests with one block of any type.
AnyType == MakeInputs(Declared(3, BlockSets(3, 1, Types)), FixedSize, {ForwardPairs})

\* Three requests, two of them with up to two blocks: the pieces of split blocks meet
\* other blocks of the same requests.
Blocks2 ==
    MakeInputs({f \in Declared(3, BlockSets(3, 2, {"writable", "read_only"})) :
                   f[2] \in BlockSets(3, 1, {"writable"})},
               FixedSize, {ForwardPairs})

\* Every kind of resizing block: size not accessed, read (its size is arbitrary),
\* shrunk or expanded, up to one byte more than the chunk has.
NoSizeAccess == Block(-3, 0, "read_only")
SizeBlocks ==
    {NoSizeAccess, Block(-2, 0, "read_only"), Block(-2, 3, "read_only")}
    \cup {Block(-1, s, "writable") : s \in -1 .. 3}

\* A size block that goes on behind offset 0 if its size is taken for a width.
Wide(b) == b.offset \in {-1, -2} /\ b.offset + b.size > 0
SameType(S, T) == \E a \in S, b \in T : /\ a.offset \in {-1, -2} /\ b.offset \in {-1, -2}
                                        /\ a.type = b.type

\* No two requests that resize, or read the size, have a wide size block among them.
NarrowSizeMaps ==
    {f \in Declared(3, {S \cup {b} : S \in BlockSets(2, 1, {"writable"}), b \in SizeBlocks}) :
        \A r, s \in 0 .. 2 : r # s /\ SameType(f[r], f[s]) =>
            \A b \in f[r] \cup f[s] : ~Wide(b)}

Sizes ==
    MakeInputs(NarrowSizeMaps, {[size |-> 1, lower |-> 1, upper |-> 2]},
               {ForwardPairs, ForwardPairs \ {<<0, 1>>}})
    \cup MakeInputs(NarrowSizeMaps, {[size |-> 1, lower |-> 0, upper |-> 2]}, {ForwardPairs})

\* Three requests and every dag over them.
AnyDag ==
    MakeInputs(Declared(3, BlockSets(3, 1, {"writable"})),
               FixedSize, SUBSET PairsUpTo(3))

MCInputs == Cliques \cup AnyType \cup Blocks2 \cup Sizes \cup AnyDag

\* What the theorems about the verification ask of the inputs, the runs have.
ASSUME HypothesesMet == NarrowSizes /\ ShrinksWithinBounds
-----------------------------------------------------------------------------
\* Four writers.
MCWriters == MakeInputs(Declared(4, BlockSets(3, 1, {"writable"})), FixedSize, {ForwardPairs})
=============================================================================
