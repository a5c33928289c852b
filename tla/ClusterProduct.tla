--------------------------- MODULE ClusterProduct ---------------------------
(***************************************************************************)
(* Verification of the execution dag of a block against the accesses to    *)
(* one chunk: the bounds check of ChunkIndex::buildModifier, then          *)
(* RequestScheduler::checkCollisions, that is findResizingCollisions and   *)
(* the cluster-product algorithm findCollisionCliques with its             *)
(* VerifierCluster.  One step is one turn of the outer loop of             *)
(* findCollisionCliques.                                                   *)
(*                                                                         *)
(* An access block is [offset, size, type, req]; offsets -3, -2 and -1 are *)
(* the resizing blocks of AppRequestInfo::memoryAccessMap.                 *)
(***************************************************************************)
EXTENDS OrderedMaps

CONSTANTS Request,  \* request ids, 0, 1, ...
          Inputs    \* what may be declared and proposed on the chunk: records of
                    \*   accessMap: a set of blocks [offset, size, type] per request
                    \*   bounds: size and proposed bounds, [size, lower, upper]
                    \*   dag: the proposed execution dag, pairs of requests

Types == {"check_only", "writable", "read_only", "int_additive"}

\* AppRequestInfo::memoryAccessMap: the first block of a request is its resizing block
\* (-3 not accessed, -2 read, -1 resized), and blocks do not overlap.
IsAccessMap(declared) ==
    /\ IsFiniteSet(declared)
    /\ declared \subseteq [offset : Int, size : Int, type : Types]
    /\ \A b \in declared :
          /\ b.offset >= -3
          /\ b.offset = -1 => b.type = "writable"
          /\ b.offset = -2 => b.type = "read_only"
          /\ b.offset >= 0 => b.size > 0
    /\ \A a, b \in declared :
          a # b => /\ a.offset >= 0 \/ b.offset >= 0
                   /\ a.offset >= 0 /\ b.offset >= 0 =>
                         a.offset + a.size <= b.offset \/ b.offset + b.size <= a.offset

ASSUME ClusterProductAssumption ==
    /\ IsFiniteSet(Request) /\ Request = 0 .. Cardinality(Request) - 1
    /\ \A given \in Inputs :
          /\ DOMAIN given.accessMap = Request
          /\ \A r \in Request : IsAccessMap(given.accessMap[r])
          /\ given.bounds \in [size : Nat, lower : Nat, upper : Nat]
          /\ given.dag \subseteq Request \X Request

VARIABLES accessMap,  \* the declared accesses
          bounds,     \* the ChunkBoundsInfo of the chunk, and its size
          dag,        \* the edges that isAdjacent finds
          stage,      \* bounds, sorting, resizing, cliques, accepted, BlockError, invalid_argument
          blocks,     \* sortedOffsets and accessBlocks
          clusters,   \* the cluster of every block
          i,          \* loop variable of findCollisionCliques
          checked     \* the edges that isAdjacent was asked for and found

vars == <<accessMap, bounds, dag, stage, blocks, clusters, i, checked>>
input == <<accessMap, bounds, dag>>
-----------------------------------------------------------------------------
(* Access blocks *)

Rank == [check_only |-> 0, writable |-> 1, read_only |-> 2, int_additive |-> 3]

\* Access::collides
Collides(a, b) ==
    /\ a # "check_only" /\ b # "check_only"
    /\ ~(a = "read_only" /\ b = "read_only")

\* The order of the merged access map: by offset, then AccessBlockInfo::operator<.
Before(a, b) ==
    \/ a.offset < b.offset
    \/ a.offset = b.offset /\ Rank[a.type] < Rank[b.type]
    \/ a.offset = b.offset /\ a.type = b.type /\ a.req < b.req

\* The blocks of one request, and of all requests, with the id of their request.
BlocksOf(r) ==
    {[offset |-> b.offset, size |-> b.size, type |-> b.type, req |-> r] : b \in accessMap[r]}

Blocks == UNION {BlocksOf(r) : r \in Request}

Precedes == {p \in Blocks \X Blocks : Before(p[1], p[2])}

\* The access map that is made from what a request declares: a sorted list.
AccessMapOf(r) == SortedList(BlocksOf(r), Precedes)

AccessMaps == [k \in 1 .. Cardinality(Request) |-> AccessMapOf(k - 1)]

\* sortAccessBlocks merges the maps of all requests.
SortAccessBlocks(maps) == MergeAll(maps, Precedes)

\* A fresh Cluster(dag).
Fresh == [type |-> "check_only", members |-> << >>]

Init ==
    /\ \E given \in Inputs :
          accessMap = given.accessMap /\ bounds = given.bounds /\ dag = given.dag
    /\ stage = "bounds"
    /\ blocks = << >>
    /\ clusters = << >>
    /\ i = 1
    /\ checked = {}
-----------------------------------------------------------------------------
(* ChunkIndex::buildModifier *)

\* chunkNewSize has lost its sign when the proposed bounds are tested.
BadBounds(b) ==
    LET newSize == IF b.size > 0 THEN b.size ELSE -b.size
    IN  \/ bounds.size < bounds.lower \/ bounds.size > bounds.upper
        \/ newSize > 0 /\ newSize > bounds.upper
        \/ newSize <= 0 /\ -newSize < bounds.lower

Resizes(b) == b.offset = -1

CheckBounds ==
    /\ stage = "bounds"
    /\ stage' = IF \E b \in Blocks : Resizes(b) /\ BadBounds(b)
                THEN "BlockError" ELSE "sorting"
    /\ UNCHANGED <<input, blocks, clusters, i, checked>>
\* RequestProcessor::checkDependencyGraph sorts the accesses; a Cluster(dag) is made for
\* each block.
SortBlocks ==
    /\ stage = "sorting"
    /\ \E maps \in {AccessMaps} : blocks' = SortAccessBlocks(maps)
    /\ clusters' = [k \in 1 .. Cardinality(Blocks) |-> Fresh]
    /\ stage' = "resizing"
    /\ UNCHANGED <<input, i, checked>>
-----------------------------------------------------------------------------
(* VerifierCluster *)

Ordered(u, v) == IF u < v THEN <<u, v>> ELSE <<v, u>>

\* mergeInsert was replaced by an append.
AddMembersAppending(members, more, type) == members \o more

\* mergeInsert keeps the members of a writable cluster sorted, other clusters append.
AddMembers(members, more, type) ==
    IF type = "writable" THEN MergeInsert(members, more) ELSE members \o more

\* VerifierCluster::insert
Insert(c, b) == [type |-> b.type, members |-> AddMembers(c.members, <<b.req>>, b.type)]

\* VerifierCluster::merge
Merge(into, c) == [into EXCEPT !.members = AddMembers(@, c.members, c.type)]

\* VerifierCluster::finalize: a path through all members of a clique.
FinalizeEdges(c) ==
    IF c.type = "writable"
    THEN {<<c.members[k], c.members[k + 1]>> : k \in 1 .. Len(c.members) - 1}
    ELSE {}

MembersOf(c) == {c.members[k] : k \in 1 .. Len(c.members)}

\* The successor in the clique is forgotten.
DependencyEdgesNoNext(c, u) ==
    LET le == {m \in MembersOf(c) : m <= u}
    IN  IF c.type # "writable" THEN {Ordered(m, u) : m \in MembersOf(c)}
        ELSE {<<p, u>> : p \in {m \in le : \A n \in le : n <= m}}

\* VerifierCluster::addDependency: u takes its place in the path of a clique, and
\* is compared with every member of another cluster.
DependencyEdges(c, u) ==
    LET le == {m \in MembersOf(c) : m <= u}
        gt == MembersOf(c) \ le
    IN  IF c.type # "writable" THEN {Ordered(m, u) : m \in MembersOf(c)}
        ELSE {<<p, u>> : p \in {m \in le : \A n \in le : n <= m}}
             \cup {<<u, s>> : s \in {m \in gt : \A n \in gt : m <= n}}

\* registerAdjacency: a missing edge ends the verification.
Verify(edges) == edges \subseteq dag

MissingEdge ==
    /\ stage' = "invalid_argument"
    /\ UNCHANGED <<input, blocks, clusters, i, checked>>
-----------------------------------------------------------------------------
(* RequestScheduler::findResizingCollisions *)

Writers == {b \in Blocks : b.offset = -1}
Accesses == {b \in Blocks : b.offset >= 0}

\* A block that begins in the last byte of the new size is left out.
ResizingCollisionLate(a, w) ==
    /\ a.req # w.req
    /\ a.offset + a.size > bounds.lower
    /\ IF w.size > 0 THEN a.offset + 1 < w.size ELSE a.offset + a.size > -w.size

\* An expander collides with what lies below its new size, a shrinker with what goes
\* beyond it; both only above the lower bound.
ResizingCollision(a, w) ==
    /\ a.req # w.req
    /\ a.offset + a.size > bounds.lower
    /\ IF w.size > 0 THEN a.offset < w.size ELSE a.offset + a.size > -w.size

ResizingEdges ==
    {Ordered(p[1].req, p[2].req) :
        p \in {q \in Accesses \X Writers : ResizingCollision(q[1], q[2])}}

FindResizingCollisions ==
    /\ stage = "resizing"
    /\ Verify(ResizingEdges)
    /\ stage' = "cliques"
    /\ checked' = checked \cup ResizingEdges
    /\ UNCHANGED <<input, blocks, clusters, i>>

ResizingFails ==
    /\ stage = "resizing"
    /\ ~Verify(ResizingEdges)
    /\ MissingEdge
-----------------------------------------------------------------------------
(* RequestScheduler::findCollisionCliques *)

CanMerge(a, b) ==
    /\ a.type = b.type
    /\ a.type = "int_additive" => a.offset = b.offset /\ a.size = b.size

End(b) == IF b.offset \in {-1, -2} THEN 0 ELSE b.offset + b.size
CollidingEnd(b) == b.offset + b.size

Skipped(b) == b.offset = -3 \/ b.type = "check_only"

\* clusters[i] once the request of block i was inserted.
Current == Insert(clusters[i], blocks[i])

\* The later blocks that start before block i ends.
Scanned ==
    {j \in i + 1 .. Len(blocks) :
        \A k \in i + 1 .. j : blocks[k].offset < End(blocks[i])}

Absorbs(j) == CanMerge(blocks[i], blocks[j]) /\ End(blocks[i]) <= CollidingEnd(blocks[j])

\* The scan ends at the first block that absorbs block i, if there is one.
IsAbsorber(j) ==
    /\ j \in Scanned /\ Absorbs(j)
    /\ \A k \in Scanned : Absorbs(k) => j <= k

Compared ==
    {j \in Scanned : \A k \in i + 1 .. j : ~Absorbs(k)}

ScanEdges ==
    UNION {DependencyEdges(Current, blocks[j].req) :
              j \in {k \in Compared : Collides(blocks[i].type, blocks[k].type)}}

Scanning == stage = "cliques" /\ i <= Len(blocks)

SkipBlock ==
    /\ Scanning /\ Skipped(blocks[i])
    /\ i' = i + 1
    /\ UNCHANGED <<input, stage, blocks, clusters, checked>>

\* No block absorbs block i: its cluster is final.
FinalizeCluster ==
    LET edges == ScanEdges \cup FinalizeEdges(Current)
    IN  /\ Scanning /\ ~Skipped(blocks[i])
        /\ \A j \in Scanned : ~Absorbs(j)
        /\ Verify(edges)
        /\ checked' = checked \cup edges
        /\ clusters' = [clusters EXCEPT ![i] = Current]
        /\ i' = i + 1
        /\ UNCHANGED <<input, stage, blocks>>

\* Blocks are never split.
NeedsSplitNever(j) == FALSE

\* Some block starts between the ends of block i and of its absorber.
NeedsSplit(j) ==
    \E k \in i + 1 .. Len(blocks) :
        /\ blocks[k].offset >= End(blocks[i])
        /\ blocks[k].offset < CollidingEnd(blocks[j])

\* Block i ends no later than block j and no block starts in between.
MergeBlock ==
    \E j \in Scanned :
        /\ Scanning /\ ~Skipped(blocks[i])
        /\ IsAbsorber(j) /\ ~NeedsSplit(j)
        /\ Verify(ScanEdges)
        /\ checked' = checked \cup ScanEdges
        /\ clusters' = [clusters EXCEPT ![i] = Current, ![j] = Merge(clusters[j], Current)]
        /\ i' = i + 1
        /\ UNCHANGED <<input, stage, blocks>>

\* The absorber is split where block i ends.
Front(j) == [blocks[j] EXCEPT !.size = End(blocks[i]) - blocks[j].offset]
Remainder(j) == [blocks[j] EXCEPT !.offset = End(blocks[i]), !.size = @ - Front(j).size]

\* The list is left as it is and the same index is visited again.
SplitBlockStaying ==
    \E j \in Scanned :
        /\ Scanning /\ ~Skipped(blocks[i])
        /\ IsAbsorber(j) /\ NeedsSplit(j)
        /\ Verify(ScanEdges)
        /\ checked' = checked \cup ScanEdges
        /\ UNCHANGED <<input, stage, blocks, clusters, i>>

\* The remainder takes the place of block i.
SplitBlockInPlace ==
    \E j \in Scanned :
        /\ Scanning /\ ~Skipped(blocks[i])
        /\ IsAbsorber(j) /\ NeedsSplit(j)
        /\ Verify(ScanEdges)
        /\ checked' = checked \cup ScanEdges
        /\ blocks' = [blocks EXCEPT ![i] = Remainder(j), ![j] = Front(j)]
        /\ clusters' = [clusters EXCEPT ![i] = Fresh, ![j] = Merge(@, Current)]
        /\ UNCHANGED <<input, stage, i>>

\* Where the loop over k stops: at the first later block that does not start before end.
LowerBound(end) ==
    CHOOSE k \in i + 1 .. Len(blocks) :
        blocks[k].offset >= end /\ \A n \in i + 1 .. k - 1 : blocks[n].offset < end

\* What is between i and k moves one place down, with a new value for what was at j, and
\* another value takes the free place.
Shift(s, j, k, atJ, new) ==
    [n \in 1 .. Len(s) |->
        IF n = k - 1 THEN new
        ELSE IF n = j - 1 THEN atJ
        ELSE IF n >= i /\ n < k - 1 THEN s[n + 1] ELSE s[n]]

\* Block i leaves the list, the blocks that start before its end move one place down,
\* and the remainder of the absorber takes the free place with a cluster of its own;
\* index i is then visited again.
SplitBlock ==
    \E j \in Scanned :
        LET k == LowerBound(End(blocks[i]))
        IN  /\ Scanning /\ ~Skipped(blocks[i])
            /\ IsAbsorber(j) /\ NeedsSplit(j)
            /\ Verify(ScanEdges)
            /\ checked' = checked \cup ScanEdges
            /\ blocks' = Shift(blocks, j, k, Front(j), Remainder(j))
            /\ clusters' = Shift(clusters, j, k, Merge(clusters[j], Current), Fresh)
            /\ UNCHANGED <<input, stage, i>>

CliqueFails ==
    /\ Scanning /\ ~Skipped(blocks[i])
    /\ \/ ~Verify(ScanEdges)
       \/ (\A j \in Scanned : ~Absorbs(j)) /\ ~Verify(FinalizeEdges(Current))
    /\ MissingEdge

Accept ==
    /\ stage = "cliques" /\ i > Len(blocks)
    /\ stage' = "accepted"
    /\ UNCHANGED <<input, blocks, clusters, i, checked>>

-----------------------------------------------------------------------------
(* RequestScheduler::findCollisions, which compares every two blocks *)

\* Additions collide with everything.
NeverSameBlock(a, b) == FALSE

\* Additions to one integer do not collide, if their blocks are the same.
AdditiveSameBlock(a, b) ==
    a.type = "int_additive" /\ b.type = a.type /\ a.offset = b.offset /\ a.size = b.size

PairEdges ==
    {Ordered(blocks[p[1]].req, blocks[p[2]].req) :
        p \in {q \in (1 .. Len(blocks)) \X (1 .. Len(blocks)) :
                  /\ q[1] < q[2] /\ blocks[q[1]].offset # -3
                  /\ blocks[q[2]].offset < End(blocks[q[1]])
                  /\ Collides(blocks[q[1]].type, blocks[q[2]].type)
                  /\ ~AdditiveSameBlock(blocks[q[1]], blocks[q[2]])}}

\* What is registered; the part about resizing is that of findResizingCollisions.
FoundCollisions == PairEdges \cup ResizingEdges
-----------------------------------------------------------------------------
Next ==
    \/ CheckBounds \/ SortBlocks
    \/ FindResizingCollisions \/ ResizingFails
    \/ SkipBlock \/ FinalizeCluster \/ MergeBlock \/ SplitBlock \/ CliqueFails
    \/ Accept

Spec == Init /\ [][Next]_vars

\* One thread runs the verification of a chunk to its end.
FairSpec == Spec /\ WF_vars(Next)
-----------------------------------------------------------------------------
(* Inputs for which the code does what it should *)

\* No two requests have size blocks of one type that reach beyond offset 0 if the new
\* size of the chunk is taken for a width.
NarrowSizes ==
    \A given \in Inputs : \A r, s \in Request :
        r # s =>
            \A a \in given.accessMap[r], b \in given.accessMap[s] :
                a.offset \in {-1, -2} /\ b.offset \in {-1, -2} /\ a.type = b.type
                    => a.offset + a.size <= 0

\* No request shrinks the chunk below the proposed lower bound; the test of
\* buildModifier does not see that, since the new size has lost its sign.
ShrinksWithinBounds ==
    \A given \in Inputs : \A r \in Request :
        \A b \in given.accessMap[r] :
            b.offset = -1 /\ b.size < 0 => -b.size >= given.bounds.lower

-----------------------------------------------------------------------------
(* Properties *)

MayWrite(b) == b.type \in {"writable", "int_additive"}

Overlap(a, b) == a.offset < b.offset + b.size /\ b.offset < a.offset + a.size

\* "Collision Detection" of docs/specs.md for two ordinary blocks; check_only
\* blocks take no part in it (Access::collides).
BlocksCollide(a, b) ==
    /\ a.offset >= 0 /\ b.offset >= 0
    /\ Overlap(a, b)
    /\ MayWrite(a) \/ MayWrite(b)
    /\ a.type # "check_only" /\ b.type # "check_only"
    /\ ~(a.type = "int_additive" /\ b.type = "int_additive"
         /\ a.offset = b.offset /\ a.size = b.size)

\* The same for the chunk size: b resizes, a reads the size, resizes it too, or
\* lies where the resizing may be seen.
SizeCollides(a, b) ==
    /\ b.offset = -1
    /\ \/ a.offset \in {-1, -2}
       \/ a.offset >= 0 /\ b.size > 0
          /\ a.offset + a.size > bounds.lower /\ a.offset < b.size
       \/ a.offset >= 0 /\ b.size <= 0 /\ a.offset + a.size > -b.size

Collide(r, s) ==
    /\ r # s
    /\ \E a \in BlocksOf(r), b \in BlocksOf(s) :
          BlocksCollide(a, b) \/ SizeCollides(a, b) \/ SizeCollides(b, a)

\* Request s comes after request r in a set of edges: s is in the least set that
\* holds r and is closed under the edges.
Reaches(r, s, edges) ==
    \A S \in SUBSET Request :
        (r \in S /\ \A e \in edges : e[1] \in S => e[2] \in S) => s \in S

\* The verification is sound: when it accepts, the edges it has seen connect every
\* two colliding requests by a path, so they never run concurrently (cliques are
\* only checked along one path, and other members through their neighbours in it).
Sound ==
    stage = "accepted" =>
        \A r, s \in Request : r < s /\ Collide(r, s) => Reaches(r, s, checked)

BlockEnd(b) == b.offset + b.size

\* Three blocks of one type have a byte in common and do not all end together.  Only
\* then can a block be split that has absorbed another which goes on behind the
\* split: the remainder gets a fresh cluster, and forgets the other's request.
Crowded ==
    \E a, b, c \in {d \in Blocks : d.offset >= 0 /\ d.type \in {"writable", "read_only"}} :
        /\ a.type = b.type /\ b.type = c.type
        /\ c.offset >= a.offset /\ c.offset >= b.offset
        /\ c.offset < BlockEnd(a) /\ c.offset < BlockEnd(b)
        /\ BlockEnd(a) # BlockEnd(b) /\ a.req # c.req /\ b.req # c.req

\* Without such blocks the verification is sound: when it accepts, the edges it has
\* seen connect every two colliding requests by a path, so they never run
\* concurrently (cliques are only checked along one path, and other members
\* through their neighbours in it).
SoundUnlessCrowded ==
    stage = "accepted" /\ ~Crowded =>
        \A r, s \in Request : r < s /\ Collide(r, s) => Reaches(r, s, checked)

\* It asks for no edge that is not a collision: splitting and merging never give a
\* cluster a request that has no access there.
Precise == \A e \in checked : e[1] < e[2] /\ Collide(e[1], e[2])

\* It fails only if some collision has no edge of its own in the dag: a dag with an
\* edge for every collision is always verifiable (AppRequestInfo::adjList).
RejectedForCause ==
    stage = "invalid_argument" =>
        \E r, s \in Request : r < s /\ Collide(r, s) /\ <<r, s>> \notin dag

\* The list from block i on is sorted by offset, though blocks were split and moved: the
\* binary searches of findResizingCollisions and findCollisionCliques, and the scan that
\* ends at the first offset behind block i, rest on it.
SortedAhead == \A k \in i .. Len(blocks) - 1 : blocks[k].offset <= blocks[k + 1].offset

\* findCollisions finds exactly the pairs of requests that collide, once the bounds are
\* checked: what the cluster product saves, it does not need.
PairwiseExact ==
    stage = "resizing" =>
        FoundCollisions = {p \in Request \X Request : p[1] < p[2] /\ Collide(p[1], p[2])}

\* Splitting and visiting an index again comes to an end.
Terminates == <>(stage \in {"accepted", "BlockError", "invalid_argument"})
=============================================================================
