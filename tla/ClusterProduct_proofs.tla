----------------------- MODULE ClusterProduct_proofs -----------------------
(***************************************************************************)
(* The cluster-product verification for any number of requests, whatever   *)
(* they declare on a chunk of any size, and any proposed dag.              *)
(***************************************************************************)
EXTENDS ClusterProduct, OrderedMaps_proofs

-----------------------------------------------------------------------------
(* What was given *)

\* The accesses, the bounds and the dag are those of some input, and stay.
GivenInv ==
    /\ \E given \in Inputs :
          accessMap = given.accessMap /\ bounds = given.bounds /\ dag = given.dag
    /\ \A r \in Request : IsAccessMap(accessMap[r])
    /\ bounds \in [size : Nat, lower : Nat, upper : Nat]
    /\ dag \subseteq Request \X Request

LEMMA GivenInit == Init => GivenInv
BY ClusterProductAssumption DEF Init, GivenInv

LEMMA InputKept == [Next]_vars => UNCHANGED input
BY DEF Next, vars, input, CheckBounds, SortBlocks, FindResizingCollisions, ResizingFails,
   SkipBlock, FinalizeCluster, MergeBlock, SplitBlock, CliqueFails, Accept, MissingEdge

LEMMA GivenStep == GivenInv /\ [Next]_vars => GivenInv'
BY InputKept DEF GivenInv, input

LEMMA GivenHolds == Spec => []GivenInv
BY GivenInit, GivenStep, PTL DEF Spec

\* What depends only on the input stays as well.
LEMMA BlocksKept == [Next]_vars => UNCHANGED <<Blocks, Precedes>>
BY InputKept DEF input, Blocks, BlocksOf, Precedes

BlockType == [offset : Int, size : Int, type : Types, req : Request]

LEMMA BlockFacts ==
    ASSUME GivenInv, NEW b \in Blocks
    PROVE  /\ b \in BlockType /\ b \in BlocksOf(b.req)
           /\ b.offset >= -3
           /\ b.offset = -1 => b.type = "writable"
           /\ b.offset = -2 => b.type = "read_only"
           /\ b.offset >= 0 => b.size > 0
<1>1. PICK r \in Request : b \in BlocksOf(r)
  BY DEF Blocks
<1>2. PICK d \in accessMap[r] :
         b = [offset |-> d.offset, size |-> d.size, type |-> d.type, req |-> r]
  BY <1>1 DEF BlocksOf
<1>3. /\ b.offset = d.offset /\ b.size = d.size /\ b.type = d.type /\ b.req = r
  BY <1>2
<1>4. /\ d.offset \in Int /\ d.size \in Int /\ d.type \in Types
      /\ d.offset >= -3
      /\ d.offset = -1 => d.type = "writable"
      /\ d.offset = -2 => d.type = "read_only"
      /\ d.offset >= 0 => d.size > 0
  BY DEF GivenInv, IsAccessMap
<1> QED
  BY <1>1, <1>2, <1>3, <1>4 DEF BlockType

\* Two blocks of one request do not overlap, and one of them at most is a resizing block.
LEMMA SameRequest ==
    ASSUME GivenInv, NEW a \in Blocks, NEW b \in Blocks, a.req = b.req, a # b
    PROVE  /\ a.offset >= 0 \/ b.offset >= 0
           /\ a.offset >= 0 /\ b.offset >= 0 =>
                 a.offset + a.size <= b.offset \/ b.offset + b.size <= a.offset
<1> DEFINE r == a.req
<1>1. a \in BlocksOf(r) /\ b \in BlocksOf(r) /\ r \in Request
  BY BlockFacts DEF BlockType
<1> HIDE DEF r
<1>2. PICK c \in accessMap[r] :
         a = [offset |-> c.offset, size |-> c.size, type |-> c.type, req |-> r]
  BY <1>1 DEF BlocksOf
<1>3. PICK d \in accessMap[r] :
         b = [offset |-> d.offset, size |-> d.size, type |-> d.type, req |-> r]
  BY <1>1 DEF BlocksOf
<1>4. c # d
  BY <1>2, <1>3
<1>5. /\ c.offset >= 0 \/ d.offset >= 0
      /\ c.offset >= 0 /\ d.offset >= 0 =>
            c.offset + c.size <= d.offset \/ d.offset + d.size <= c.offset
  BY <1>1, <1>4 DEF GivenInv, IsAccessMap
<1>6. a.offset = c.offset /\ a.size = c.size /\ b.offset = d.offset /\ b.size = d.size
  BY <1>2, <1>3
<1> QED
  BY <1>5, <1>6

LEMMA BlocksOfFinite ==
    ASSUME GivenInv, NEW r \in Request
    PROVE  IsFiniteSet(BlocksOf(r))
<1> DEFINE Block(d) == [offset |-> d.offset, size |-> d.size, type |-> d.type, req |-> r]
           f == [d \in accessMap[r] |-> Block(d)]
<1>1. IsFiniteSet(accessMap[r])
  BY DEF GivenInv, IsAccessMap
<1>2. BlocksOf(r) = {Block(d) : d \in accessMap[r]}
  BY DEF BlocksOf
<1> HIDE DEF Block
<1>3. f \in Surjection(accessMap[r], BlocksOf(r))
  BY <1>2 DEF Surjection
<1> QED
  BY <1>1, <1>3, FS_Surjection

LEMMA BlocksFinite ==
    ASSUME GivenInv
    PROVE  IsFiniteSet(Blocks)
<1> DEFINE f == [r \in Request |-> BlocksOf(r)]
           T == {BlocksOf(r) : r \in Request}
<1>1. f \in Surjection(Request, T)
  BY DEF Surjection
<1>2. IsFiniteSet(T)
  BY <1>1, ClusterProductAssumption, FS_Surjection
<1>3. \A S \in T : IsFiniteSet(S)
  BY BlocksOfFinite
<1> HIDE DEF T
<1>4. IsFiniteSet(UNION T)
  BY <1>2, <1>3, FS_UNION
<1> QED
  BY <1>4 DEF T, Blocks

-----------------------------------------------------------------------------
(* The merged access map *)

LEMMA RequestsInt == Request \subseteq Int
<1>1. Request = 0 .. Cardinality(Request) - 1 /\ Cardinality(Request) \in Nat
  BY ClusterProductAssumption, FS_CardinalityType
<1> QED
  BY <1>1

LEMMA RankFacts ==
    /\ \A t \in Types : Rank[t] \in Int
    /\ \A t, u \in Types : t # u => Rank[t] # Rank[u]
BY DEF Types, Rank

LEMMA PrecedesIs ==
    ASSUME NEW a \in Blocks, NEW b \in Blocks
    PROVE  <<a, b>> \in Precedes <=> Before(a, b)
BY DEF Precedes

\* No two blocks are left unordered: blocks with equal offsets are of different requests.
LEMMA BeforeOrders ==
    ASSUME GivenInv
    PROVE  Orders(Precedes, Blocks)
<1>1. \A a \in Blocks : a.offset \in Int /\ Rank[a.type] \in Int /\ a.req \in Int /\ a.type \in Types
  <2> SUFFICES ASSUME NEW a \in Blocks
               PROVE  /\ a.offset \in Int /\ Rank[a.type] \in Int
                      /\ a.req \in Int /\ a.type \in Types
    OBVIOUS
  <2>1. a \in BlockType
    BY BlockFacts
  <2> QED
    BY <2>1, RankFacts, RequestsInt DEF BlockType
<1>2. ASSUME NEW a \in Blocks PROVE <<a, a>> \notin Precedes
  BY <1>1, PrecedesIs DEF Before
<1>3. ASSUME NEW a \in Blocks, NEW b \in Blocks, a # b
      PROVE  <<a, b>> \in Precedes \/ <<b, a>> \in Precedes
  <2>1. a.offset # b.offset \/ a.type # b.type \/ a.req # b.req
    <3> SUFFICES ASSUME a.offset = b.offset, a.req = b.req PROVE FALSE
      OBVIOUS
    <3>1. a.offset \in Int /\ a.size \in Int /\ b.size \in Int
      BY BlockFacts DEF BlockType
    <3>2. a.offset >= 0 => a.size > 0 /\ b.size > 0
      BY BlockFacts
    <3>3. /\ a.offset >= 0 \/ b.offset >= 0
          /\ a.offset >= 0 /\ b.offset >= 0 =>
                a.offset + a.size <= b.offset \/ b.offset + b.size <= a.offset
      BY <1>3, SameRequest
    <3> QED
      BY <3>1, <3>2, <3>3
  <2>2. Before(a, b) \/ Before(b, a)
    BY <1>1, <2>1, RankFacts DEF Before
  <2> QED
    BY <2>2, PrecedesIs
<1>4. ASSUME NEW a \in Blocks, NEW b \in Blocks, NEW c \in Blocks,
             <<a, b>> \in Precedes, <<b, c>> \in Precedes
      PROVE  <<a, c>> \in Precedes
  <2>1. Before(a, b) /\ Before(b, c)
    BY <1>4, PrecedesIs
  <2>2. Before(a, c)
    BY <1>1, <2>1 DEF Before
  <2> QED
    BY <2>2, PrecedesIs
<1> QED
  BY <1>2, <1>3, <1>4 DEF Orders

LEMMA AccessMapsShare ==
    ASSUME GivenInv
    PROVE  Shares(AccessMaps, [k \in 1 .. Cardinality(Request) |-> BlocksOf(k - 1)], Blocks, Precedes)
<1> DEFINE n == Cardinality(Request)
           sets == [k \in 1 .. n |-> BlocksOf(k - 1)]
<1>1. n \in Nat /\ Request = 0 .. n - 1
  BY ClusterProductAssumption, FS_CardinalityType
<1> HIDE DEF n
<1>2. AccessMaps = [k \in 1 .. n |-> SortedList(BlocksOf(k - 1), Precedes)]
  BY DEF AccessMaps, AccessMapOf, n
<1>3. Len(AccessMaps) = n
  BY <1>1, <1>2
<1>4. \A k \in 1 .. n : k - 1 \in Request /\ sets[k] = BlocksOf(k - 1)
  BY <1>1
<1>5. \A r \in Request : r + 1 \in 1 .. n /\ (r + 1) - 1 = r
  BY <1>1
<1>6. \A k \in 1 .. n : sets[k] \subseteq Blocks /\ AccessMaps[k] = SortedList(sets[k], Precedes)
  BY <1>2, <1>4 DEF Blocks
<1>7. \A r \in Request : \A b \in BlocksOf(r) : b.req = r
  BY DEF BlocksOf
<1>8. ASSUME NEW j \in 1 .. n, NEW k \in 1 .. n, j # k, NEW b \in sets[j] PROVE b \notin sets[k]
  <2>1. j - 1 # k - 1
    BY <1>1, <1>8
  <2> QED
    BY <1>4, <1>7, <1>8, <2>1
<1>9. ASSUME NEW b \in Blocks PROVE \E k \in 1 .. n : b \in sets[k]
  <2>1. PICK r \in Request : b \in BlocksOf(r)
    BY DEF Blocks
  <2>2. r + 1 \in 1 .. n /\ sets[r + 1] = BlocksOf(r)
    BY <1>4, <1>5
  <2> QED
    BY <2>1, <2>2
<1> HIDE DEF sets
<1>10. Shares(AccessMaps, sets, Blocks, Precedes)
  BY <1>1, <1>3, <1>6, <1>8, <1>9, BeforeOrders, BlocksFinite DEF Shares
<1> QED
  BY <1>10 DEF sets, n

\* RequestProcessor::checkDependencyGraph gets the sorted list of all blocks.
LEMMA BlocksSorted ==
    ASSUME GivenInv
    PROVE  /\ Lists(SortAccessBlocks(AccessMaps), Blocks, Precedes)
           /\ Len(SortAccessBlocks(AccessMaps)) = Cardinality(Blocks)
<1>1. SortAccessBlocks(AccessMaps) = SortedList(Blocks, Precedes)
  BY AccessMapsShare, MergeAllSorts DEF SortAccessBlocks
<1> QED
  BY <1>1, BlocksFinite, BeforeOrders, SortedListLists

-----------------------------------------------------------------------------
(* Clusters *)

ClusterType == [type : Types, members : Seq(Request)]

LEMMA MembersAre ==
    ASSUME NEW c, NEW x
    PROVE  x \in MembersOf(c) <=> Has(c.members, x)
BY DEF MembersOf, Has

LEMMA AddMembersFacts ==
    ASSUME NEW members \in Seq(Request), NEW more \in Seq(Request), NEW type
    PROVE  /\ AddMembers(members, more, type) \in Seq(Request)
           /\ \A x : Has(AddMembers(members, more, type), x) <=> Has(members, x) \/ Has(more, x)
           /\ NoRepeats(members) /\ NoRepeats(more) /\ (\A x : ~(Has(members, x) /\ Has(more, x)))
                 => NoRepeats(AddMembers(members, more, type))
           /\ type = "writable" /\ SortedTo(members, Len(members)) /\ SortedTo(more, Len(more)) =>
                 SortedTo(AddMembers(members, more, type), Len(AddMembers(members, more, type)))
<1> DEFINE m == AddMembers(members, more, type)
<1>1. members \in Seq(Int) /\ more \in Seq(Int)
  BY RequestsInt, SeqMonotonic
<1>2. CASE type = "writable"
  <2>1. m = MergeInsert(members, more)
    BY <1>2 DEF AddMembers
  <2>2. /\ m \in Seq(Int)
        /\ SortedTo(members, Len(members)) /\ SortedTo(more, Len(more)) => SortedTo(m, Len(m))
        /\ \A x : Has(m, x) <=> Has(members, x) \/ Has(more, x)
        /\ NoRepeats(members) /\ NoRepeats(more) /\ (\A x : ~(Has(members, x) /\ Has(more, x)))
              => NoRepeats(m)
    BY <1>1, <2>1, MergeInsertSorts
  <2>3. \A x : Has(members, x) \/ Has(more, x) => x \in Request
    BY ElementOfSeq DEF Has
  <2> HIDE DEF m
  <2>4. \A n \in 1 .. Len(m) : m[n] \in Request
    BY <2>2, <2>3 DEF Has
  <2>5. m \in [1 .. Len(m) -> Request] /\ Len(m) \in Nat
    BY <2>2, <2>4, LenProperties
  <2>6. m \in Seq(Request)
    BY <2>5, SeqDef
  <2> QED
    BY <2>2, <2>6 DEF m
<1>3. CASE type # "writable"
  <2>1. m = members \o more
    BY <1>3 DEF AddMembers
  <2>2. m \in Seq(Request)
    BY <2>1, ConcatProperties
  <2>3. /\ \A x : Has(m, x) <=> Has(members, x) \/ Has(more, x)
        /\ NoRepeats(members) /\ NoRepeats(more) /\ (\A x : ~(Has(members, x) /\ Has(more, x)))
              => NoRepeats(m)
    BY <1>1, <2>1, ConcatHas
  <2> HIDE DEF m
  <2> QED
    BY <1>3, <2>2, <2>3 DEF m
<1> QED
  BY <1>2, <1>3

-----------------------------------------------------------------------------
(* The list stays sorted *)

Stages == {"bounds", "sorting", "resizing", "cliques", "accepted", "BlockError", "invalid_argument"}

SortedFrom(bs, first) ==
    \A k, n \in first .. Len(bs) : k < n => bs[k].offset <= bs[n].offset

\* The types of what changes, and the order of what is still to be visited.
ListInv ==
    /\ stage \in Stages
    /\ blocks \in Seq(BlockType) /\ clusters \in Seq(ClusterType)
    /\ Len(clusters) = Len(blocks)
    /\ i \in 1 .. Len(blocks) + 1
    /\ SortedFrom(blocks, i)
    /\ stage \in {"bounds", "sorting"} => blocks = << >>

LEMMA Least ==
    ASSUME NEW S, S \subseteq Nat, S # {}
    PROVE  \E n \in S : \A m \in S : n <= m
<1>1. PICK n \in S : \A m \in S : ~(<<m, n>> \in OpToRel(<, Nat))
  BY NatLessThanWellFounded, WFMin
<1>2. \A m \in S : m \in Nat /\ n \in Nat /\ ~(m < n)
  BY <1>1 DEF OpToRel
<1> QED
  BY <1>2

LEMMA ListTypes ==
    ASSUME ListInv
    PROVE  /\ Len(blocks) \in Nat /\ i \in Nat /\ i >= 1
           /\ \A k \in 1 .. Len(blocks) :
                 /\ blocks[k] \in BlockType
                 /\ blocks[k].offset \in Int /\ blocks[k].size \in Int
                 /\ blocks[k].type \in Types /\ blocks[k].req \in Request
                 /\ End(blocks[k]) \in Int /\ CollidingEnd(blocks[k]) \in Int
                 /\ clusters[k] \in ClusterType
<1>1. Len(blocks) \in Nat /\ i \in Nat /\ i >= 1
  BY LenProperties DEF ListInv
<1>2. \A k \in 1 .. Len(blocks) : blocks[k] \in BlockType /\ clusters[k] \in ClusterType
  BY ElementOfSeq DEF ListInv
<1>3. \A b \in BlockType : /\ b.offset \in Int /\ b.size \in Int /\ b.type \in Types /\ b.req \in Request
                           /\ End(b) \in Int /\ CollidingEnd(b) \in Int
  BY DEF BlockType, End, CollidingEnd
<1> QED
  BY <1>1, <1>2, <1>3

LEMMA CurrentType ==
    ASSUME ListInv, Scanning
    PROVE  /\ i \in 1 .. Len(blocks)
           /\ Current \in ClusterType /\ Current.type = blocks[i].type
           /\ Current.members = AddMembers(clusters[i].members, <<blocks[i].req>>, blocks[i].type)
<1>1. i \in 1 .. Len(blocks)
  BY ListTypes DEF Scanning
<1>2. /\ blocks[i].type \in Types /\ <<blocks[i].req>> \in Seq(Request)
      /\ clusters[i].members \in Seq(Request)
  BY <1>1, ListTypes DEF ClusterType
<1>3. AddMembers(clusters[i].members, <<blocks[i].req>>, blocks[i].type) \in Seq(Request)
  BY <1>2, AddMembersFacts
<1> QED
  BY <1>1, <1>2, <1>3 DEF Current, Insert, ClusterType

LEMMA MergeType ==
    ASSUME NEW c \in ClusterType, NEW d \in ClusterType
    PROVE  /\ Merge(c, d) \in ClusterType /\ Merge(c, d).type = c.type
           /\ Merge(c, d).members = AddMembers(c.members, d.members, d.type)
<1>1. c.members \in Seq(Request) /\ d.members \in Seq(Request)
  BY DEF ClusterType
<1>2. AddMembers(c.members, d.members, d.type) \in Seq(Request)
  BY <1>1, AddMembersFacts
<1> QED
  BY <1>2 DEF Merge, ClusterType

LEMMA ScannedFacts ==
    ASSUME ListInv, Scanning, NEW j \in Scanned
    PROVE  /\ j \in i + 1 .. Len(blocks) /\ j \in 1 .. Len(blocks) /\ j # i
           /\ blocks[i].offset <= blocks[j].offset /\ blocks[j].offset < End(blocks[i])
<1>1. i \in 1 .. Len(blocks) /\ Len(blocks) \in Nat
  BY ListTypes DEF Scanning
<1>2. j \in i + 1 .. Len(blocks) /\ \A k \in i + 1 .. j : blocks[k].offset < End(blocks[i])
  BY DEF Scanned
<1>3. j \in i .. Len(blocks) /\ i \in i .. Len(blocks) /\ i < j /\ j \in i + 1 .. j /\ j \in 1 .. Len(blocks)
  BY <1>1, <1>2
<1> QED
  BY <1>1, <1>2, <1>3 DEF ListInv, SortedFrom

\* Where the absorber is split, and where its remainder goes.
LEMMA SplitPlace ==
    ASSUME ListInv, Scanning, NEW j \in Scanned, NeedsSplit(j),
           NEW k, k = LowerBound(End(blocks[i]))
    PROVE  /\ k \in j + 1 .. Len(blocks)
           /\ blocks[k].offset >= End(blocks[i])
           /\ \A n \in i + 1 .. k - 1 : blocks[n].offset < End(blocks[i])
           /\ End(blocks[i]) < CollidingEnd(blocks[j])
<1> DEFINE end == End(blocks[i])
           S == {n \in i + 1 .. Len(blocks) : blocks[n].offset >= end}
<1>1. i \in 1 .. Len(blocks) /\ Len(blocks) \in Nat
  BY ListTypes DEF Scanning
<1>2. /\ j \in i + 1 .. Len(blocks) /\ j \in 1 .. Len(blocks) /\ blocks[j].offset < end
  BY ScannedFacts
<1>3. /\ end \in Int /\ CollidingEnd(blocks[j]) \in Int
      /\ \A n \in 1 .. Len(blocks) : blocks[n].offset \in Int
  BY <1>1, <1>2, ListTypes
<1> HIDE DEF end
<1>4. PICK n \in i + 1 .. Len(blocks) : blocks[n].offset >= end /\ blocks[n].offset < CollidingEnd(blocks[j])
  BY DEF NeedsSplit, end
<1>5. end < CollidingEnd(blocks[j])
  <2>1. n \in 1 .. Len(blocks)
    BY <1>1
  <2> QED
    BY <1>3, <1>4, <2>1
<1>6. S \subseteq Nat /\ S # {}
  BY <1>1, <1>4
<1>7. \E m \in i + 1 .. Len(blocks) :
         blocks[m].offset >= end /\ \A p \in i + 1 .. m - 1 : blocks[p].offset < end
  <2>1. PICK m \in S : \A p \in S : m <= p
    BY <1>6, Least
  <2>2. ASSUME NEW p \in i + 1 .. m - 1 PROVE blocks[p].offset < end
    <3>1. p \in i + 1 .. Len(blocks) /\ p \in 1 .. Len(blocks) /\ ~(m <= p)
      BY <1>1, <2>1
    <3>2. p \notin S
      BY <2>1, <3>1
    <3> QED
      BY <1>3, <3>1, <3>2
  <2> QED
    BY <2>1, <2>2
<1>8. /\ k \in i + 1 .. Len(blocks) /\ blocks[k].offset >= end
      /\ \A p \in i + 1 .. k - 1 : blocks[p].offset < end
  BY <1>7 DEF LowerBound, end
<1>9. ~(k <= j)
  <2> SUFFICES ASSUME k <= j PROVE FALSE
    OBVIOUS
  <2>1. k \in i .. Len(blocks) /\ j \in i .. Len(blocks) /\ k \in 1 .. Len(blocks)
    BY <1>1, <1>2, <1>8
  <2>2. blocks[k].offset <= blocks[j].offset
    <3>1. k = j \/ k < j
      BY <1>1, <1>2, <1>8
    <3>2. k = j => blocks[k].offset <= blocks[j].offset
      BY <1>3, <2>1
    <3> QED
      BY <2>1, <3>1, <3>2 DEF ListInv, SortedFrom
  <2> QED
    BY <1>2, <1>3, <1>8, <2>1, <2>2
<1>10. k \in j + 1 .. Len(blocks)
  BY <1>1, <1>2, <1>8, <1>9
<1> QED
  BY <1>5, <1>8, <1>10 DEF end

\* The place that Shift makes is behind j, and i comes before j.
MayShift(S, s, j, k, x, y) ==
    /\ s \in Seq(S) /\ x \in S /\ y \in S
    /\ i \in Nat /\ i >= 1 /\ j \in i + 1 .. Len(s) /\ k \in j + 1 .. Len(s)

LEMMA ShiftFacts ==
    ASSUME NEW S, NEW s, NEW j, NEW k, NEW x, NEW y, MayShift(S, s, j, k, x, y)
    PROVE  /\ Shift(s, j, k, x, y) \in Seq(S) /\ Len(Shift(s, j, k, x, y)) = Len(s)
           /\ Shift(s, j, k, x, y)[k - 1] = y
           /\ Shift(s, j, k, x, y)[j - 1] = x
           /\ \A n \in i .. k - 2 : n # j - 1 => Shift(s, j, k, x, y)[n] = s[n + 1]
           /\ \A n \in k .. Len(s) : Shift(s, j, k, x, y)[n] = s[n]
<1> DEFINE m == Shift(s, j, k, x, y)
<1> s \in Seq(S) /\ x \in S /\ y \in S
    /\ i \in Nat /\ i >= 1 /\ j \in i + 1 .. Len(s) /\ k \in j + 1 .. Len(s)
  BY DEF MayShift
<1>1. Len(s) \in Nat /\ \A n \in 1 .. Len(s) : s[n] \in S
  BY LenProperties, ElementOfSeq
<1>2. /\ j \in Nat /\ k \in Nat /\ k - 1 \in 1 .. Len(s) /\ j - 1 \in 1 .. Len(s) /\ j - 1 # k - 1
      /\ \A n \in i .. k - 2 : n \in 1 .. Len(s) /\ n + 1 \in 1 .. Len(s) /\ n # k - 1
                               /\ n >= i /\ n < k - 1
      /\ \A n \in k .. Len(s) : n \in 1 .. Len(s) /\ n # k - 1 /\ n # j - 1 /\ ~(n < k - 1)
  BY <1>1
<1>3. m = [n \in 1 .. Len(s) |->
              IF n = k - 1 THEN y ELSE IF n = j - 1 THEN x
              ELSE IF n >= i /\ n < k - 1 THEN s[n + 1] ELSE s[n]]
  BY DEF Shift
<1> HIDE DEF m
<1>4. \A n \in 1 .. Len(s) : n >= i /\ n < k - 1 => n + 1 \in 1 .. Len(s)
  BY <1>1, <1>2
<1>5. m \in [1 .. Len(s) -> S]
  BY <1>1, <1>3, <1>4
<1>6. m \in Seq(S) /\ Len(m) = Len(s)
  BY <1>1, <1>5, SeqDef, LenProperties
<1>7. m[k - 1] = y /\ m[j - 1] = x
  BY <1>2, <1>3
<1>8. ASSUME NEW n \in i .. k - 2, n # j - 1 PROVE m[n] = s[n + 1]
  <2>1. n \in 1 .. Len(s) /\ n # k - 1 /\ n >= i /\ n < k - 1
    BY <1>2
  <2> QED
    BY <1>3, <1>8, <2>1
<1>9. ASSUME NEW n \in k .. Len(s) PROVE m[n] = s[n]
  <2>1. n \in 1 .. Len(s) /\ n # k - 1 /\ n # j - 1 /\ ~(n < k - 1)
    BY <1>2
  <2> QED
    BY <1>3, <2>1
<1> QED
  BY <1>6, <1>7, <1>8, <1>9 DEF m

LEMMA PieceFacts ==
    ASSUME ListInv, Scanning, NEW j \in 1 .. Len(blocks)
    PROVE  /\ Front(j) \in BlockType /\ Remainder(j) \in BlockType
           /\ Front(j).offset = blocks[j].offset
           /\ Front(j).size = End(blocks[i]) - blocks[j].offset
           /\ Remainder(j).offset = End(blocks[i])
           /\ Remainder(j).size = CollidingEnd(blocks[j]) - End(blocks[i])
           /\ Front(j).type = blocks[j].type /\ Remainder(j).type = blocks[j].type
           /\ Front(j).req = blocks[j].req /\ Remainder(j).req = blocks[j].req
<1>1. blocks[j] \in BlockType /\ End(blocks[i]) \in Int
  BY ListTypes, CurrentType
<1> DEFINE b == blocks[j]
           end == End(blocks[i])
<1>2. b.offset \in Int /\ b.size \in Int /\ b.type \in Types /\ b.req \in Request
      /\ b = [offset |-> b.offset, size |-> b.size, type |-> b.type, req |-> b.req]
  BY <1>1 DEF BlockType
<1>3. Front(j) = [b EXCEPT !.size = end - b.offset]
  BY DEF Front
<1>4. Remainder(j) = [b EXCEPT !.offset = end, !.size = b.size - Front(j).size]
  BY DEF Remainder
<1> HIDE DEF b, end
<1>5. Front(j) = [offset |-> b.offset, size |-> end - b.offset, type |-> b.type, req |-> b.req]
  BY <1>2, <1>3
<1>6. Front(j).size = end - b.offset
  BY <1>5
<1>7. Remainder(j) = [offset |-> end, size |-> b.size - (end - b.offset), type |-> b.type, req |-> b.req]
  BY <1>2, <1>4, <1>6
<1>8. end \in Int /\ end - b.offset \in Int /\ b.size - (end - b.offset) \in Int
      /\ b.size - (end - b.offset) = (b.offset + b.size) - end
  BY <1>1, <1>2 DEF end
<1>9. Front(j) \in BlockType /\ Remainder(j) \in BlockType
  BY <1>2, <1>5, <1>7, <1>8 DEF BlockType
<1> QED
  BY <1>5, <1>7, <1>8, <1>9 DEF b, end, CollidingEnd

LEMMA ListInit == Init => ListInv
<1> SUFFICES ASSUME Init PROVE ListInv
  OBVIOUS
<1>1. stage = "bounds" /\ blocks = << >> /\ clusters = << >> /\ i = 1
  BY DEF Init
<1>2. << >> \in Seq(BlockType) /\ << >> \in Seq(ClusterType) /\ Len(<< >>) = 0
  BY EmptySeq
<1> QED
  BY <1>1, <1>2 DEF ListInv, Stages, SortedFrom

LEMMA SortedAfterSort ==
    ASSUME GivenInv, ListInv, SortBlocks
    PROVE  /\ Lists(blocks', Blocks, Precedes) /\ Len(blocks') = Cardinality(Blocks)
           /\ clusters' \in Seq(ClusterType) /\ Len(clusters') = Len(blocks')
           /\ \A k \in 1 .. Len(blocks') : clusters'[k] = Fresh
           /\ i' = 1 /\ stage' = "resizing"
<1>1. blocks' = SortAccessBlocks(AccessMaps)
  BY DEF SortBlocks
<1>2. Lists(blocks', Blocks, Precedes) /\ Len(blocks') = Cardinality(Blocks)
  BY <1>1, BlocksSorted
<1>3. clusters' = [k \in 1 .. Cardinality(Blocks) |-> Fresh] /\ Cardinality(Blocks) \in Nat
  BY BlocksFinite, FS_CardinalityType DEF SortBlocks
<1>4. Fresh \in ClusterType
  BY EmptySeq DEF Fresh, ClusterType, Types
<1>5. clusters' \in Seq(ClusterType) /\ Len(clusters') = Cardinality(Blocks)
  <2>1. clusters' \in [1 .. Cardinality(Blocks) -> ClusterType]
    BY <1>3, <1>4
  <2> QED
    BY <1>3, <2>1, SeqDef, LenProperties
<1>6. blocks = << >> /\ i' = i /\ stage' = "resizing"
  BY DEF SortBlocks, ListInv
<1>7. i = 1
  <2>1. i \in 1 .. Len(blocks) + 1 /\ Len(blocks) = 0
    BY <1>6 DEF ListInv
  <2> QED
    BY <2>1
<1> QED
  BY <1>2, <1>3, <1>5, <1>6, <1>7

LEMMA SortKeepsList == GivenInv /\ ListInv /\ SortBlocks => ListInv'
<1> SUFFICES ASSUME GivenInv, ListInv, SortBlocks PROVE ListInv'
  OBVIOUS
<1>1. /\ Lists(blocks', Blocks, Precedes) /\ clusters' \in Seq(ClusterType)
      /\ Len(clusters') = Len(blocks') /\ i' = 1 /\ stage' = "resizing"
  BY SortedAfterSort
<1>2. Blocks \subseteq BlockType
  BY BlockFacts
<1>3. blocks' \in Seq(Blocks) /\ blocks' \in Seq(BlockType)
  BY <1>1, <1>2, SeqMonotonic DEF Lists
<1>4. Len(blocks') \in Nat /\ \A k \in 1 .. Len(blocks') : blocks'[k] \in Blocks
  BY <1>3, LenProperties, ElementOfSeq
<1>5. ASSUME NEW k \in 1 .. Len(blocks'), NEW n \in 1 .. Len(blocks'), k < n
      PROVE  blocks'[k].offset <= blocks'[n].offset
  <2> DEFINE a == blocks'[k]
             b == blocks'[n]
  <2>1. a \in Blocks /\ b \in Blocks /\ <<a, b>> \in Precedes
    BY <1>1, <1>4, <1>5 DEF Lists
  <2> HIDE DEF a, b
  <2>2. Before(a, b) /\ a.offset \in Int /\ b.offset \in Int
    BY <1>2, <2>1, PrecedesIs DEF BlockType
  <2> QED
    BY <2>2 DEF Before, a, b
<1>6. 1 \in 1 .. Len(blocks') + 1
  BY <1>4
<1> QED
  BY <1>1, <1>3, <1>5, <1>6 DEF ListInv, SortedFrom, Stages

\* A turn that goes on to the next block.
LEMMA NextKeepsList ==
    ASSUME ListInv, Scanning, blocks' = blocks, i' = i + 1, stage' = stage,
           clusters' \in Seq(ClusterType), Len(clusters') = Len(clusters)
    PROVE  ListInv'
<1>1. i \in 1 .. Len(blocks) /\ Len(blocks) \in Nat
  BY ListTypes, CurrentType
<1>2. i + 1 \in 1 .. Len(blocks) + 1
  BY <1>1
<1>3. SortedFrom(blocks, i + 1)
  <2>1. \A k \in i + 1 .. Len(blocks) : k \in i .. Len(blocks)
    BY <1>1
  <2> QED
    BY <2>1 DEF ListInv, SortedFrom
<1> QED
  BY <1>2, <1>3 DEF ListInv, Scanning

LEMMA MergedClusters ==
    ASSUME ListInv, Scanning, NEW j \in 1 .. Len(blocks)
    PROVE  [clusters EXCEPT ![i] = Current, ![j] = Merge(clusters[j], Current)] \in Seq(ClusterType)
           /\ Len([clusters EXCEPT ![i] = Current, ![j] = Merge(clusters[j], Current)]) = Len(clusters)
<1> DEFINE c == [clusters EXCEPT ![i] = Current]
<1>1. clusters \in Seq(ClusterType) /\ Current \in ClusterType /\ i \in 1 .. Len(clusters)
      /\ j \in 1 .. Len(clusters)
  BY CurrentType DEF ListInv
<1>2. c \in Seq(ClusterType) /\ Len(c) = Len(clusters)
  BY <1>1, ExceptSeq
<1>3. [clusters EXCEPT ![i] = Current, ![j] = Merge(clusters[j], Current)]
         = [c EXCEPT ![j] = Merge(clusters[j], Current)]
  OBVIOUS
<1> HIDE DEF c
<1>4. clusters[j] \in ClusterType
  BY <1>1, ElementOfSeq
<1>5. Merge(clusters[j], Current) \in ClusterType
  BY <1>1, <1>4, MergeType
<1> QED
  BY <1>1, <1>2, <1>3, <1>5, ExceptSeq

\* What the split of an absorber makes of the list.
LEMMA SplitList ==
    ASSUME ListInv, Scanning, NEW j \in Scanned, NeedsSplit(j),
           NEW k, k = LowerBound(End(blocks[i])),
           blocks' = Shift(blocks, j, k, Front(j), Remainder(j)),
           clusters' = Shift(clusters, j, k, Merge(clusters[j], Current), Fresh)
    PROVE  /\ i \in Nat /\ i >= 1 /\ Len(blocks) \in Nat
           /\ j \in i + 1 .. Len(blocks) /\ k \in j + 1 .. Len(blocks)
           /\ blocks' \in Seq(BlockType) /\ Len(blocks') = Len(blocks)
           /\ clusters' \in Seq(ClusterType) /\ Len(clusters') = Len(clusters)
           /\ blocks'[k - 1] = Remainder(j) /\ clusters'[k - 1] = Fresh
           /\ blocks'[j - 1] = Front(j) /\ clusters'[j - 1] = Merge(clusters[j], Current)
           /\ \A n \in i .. k - 2 : n # j - 1 => /\ blocks'[n] = blocks[n + 1]
                                                 /\ clusters'[n] = clusters[n + 1]
           /\ \A n \in k .. Len(blocks) : blocks'[n] = blocks[n] /\ clusters'[n] = clusters[n]
<1>1. i \in Nat /\ i >= 1 /\ Len(blocks) \in Nat
  BY ListTypes
<1>2. j \in i + 1 .. Len(blocks) /\ j \in 1 .. Len(blocks) /\ k \in j + 1 .. Len(blocks)
  BY ScannedFacts, SplitPlace
<1>3. Front(j) \in BlockType /\ Remainder(j) \in BlockType
  BY <1>2, PieceFacts
<1>4. Fresh \in ClusterType /\ Merge(clusters[j], Current) \in ClusterType
  <2>1. Fresh \in ClusterType
    BY EmptySeq DEF Fresh, ClusterType, Types
  <2> QED
    BY <1>2, <2>1, ListTypes, CurrentType, MergeType
<1>5. blocks \in Seq(BlockType) /\ clusters \in Seq(ClusterType) /\ Len(clusters) = Len(blocks)
  BY DEF ListInv
<1>6. /\ blocks' \in Seq(BlockType) /\ Len(blocks') = Len(blocks)
      /\ blocks'[k - 1] = Remainder(j) /\ blocks'[j - 1] = Front(j)
      /\ \A n \in i .. k - 2 : n # j - 1 => blocks'[n] = blocks[n + 1]
      /\ \A n \in k .. Len(blocks) : blocks'[n] = blocks[n]
  <2> DEFINE m == Shift(blocks, j, k, Front(j), Remainder(j))
  <2>0. MayShift(BlockType, blocks, j, k, Front(j), Remainder(j))
    BY <1>1, <1>2, <1>3, <1>5 DEF MayShift
  <2>1. /\ m \in Seq(BlockType) /\ Len(m) = Len(blocks)
        /\ m[k - 1] = Remainder(j) /\ m[j - 1] = Front(j)
        /\ \A n \in i .. k - 2 : n # j - 1 => m[n] = blocks[n + 1]
        /\ \A n \in k .. Len(blocks) : m[n] = blocks[n]
    BY <2>0, ShiftFacts
  <2>2. blocks' = m
    OBVIOUS
  <2> QED
    BY <2>1, <2>2
<1>7. /\ clusters' \in Seq(ClusterType) /\ Len(clusters') = Len(clusters)
      /\ clusters'[k - 1] = Fresh /\ clusters'[j - 1] = Merge(clusters[j], Current)
      /\ \A n \in i .. k - 2 : n # j - 1 => clusters'[n] = clusters[n + 1]
      /\ \A n \in k .. Len(clusters) : clusters'[n] = clusters[n]
  <2> DEFINE m == Shift(clusters, j, k, Merge(clusters[j], Current), Fresh)
  <2>1. MayShift(ClusterType, clusters, j, k, Merge(clusters[j], Current), Fresh)
    BY <1>1, <1>2, <1>4, <1>5 DEF MayShift
  <2>2. /\ m \in Seq(ClusterType) /\ Len(m) = Len(clusters)
        /\ m[k - 1] = Fresh /\ m[j - 1] = Merge(clusters[j], Current)
        /\ \A n \in i .. k - 2 : n # j - 1 => m[n] = clusters[n + 1]
        /\ \A n \in k .. Len(clusters) : m[n] = clusters[n]
    BY <2>1, ShiftFacts
  <2>3. clusters' = m
    OBVIOUS
  <2> QED
    BY <2>2, <2>3
<1> QED
  BY <1>1, <1>2, <1>5, <1>6, <1>7

LEMMA SplitKeepsList == ListInv /\ SplitBlock => ListInv'
<1> SUFFICES ASSUME ListInv, SplitBlock PROVE ListInv'
  OBVIOUS
<1>1. PICK j \in Scanned :
         /\ Scanning /\ NeedsSplit(j)
         /\ blocks' = Shift(blocks, j, LowerBound(End(blocks[i])), Front(j), Remainder(j))
         /\ clusters' = Shift(clusters, j, LowerBound(End(blocks[i])), Merge(clusters[j], Current), Fresh)
         /\ stage' = stage /\ i' = i
  BY DEF SplitBlock
<1> DEFINE k == LowerBound(End(blocks[i]))
           L == Len(blocks)
           end == End(blocks[i])
<1>2. /\ i \in Nat /\ i >= 1 /\ L \in Nat
      /\ j \in i + 1 .. L /\ k \in j + 1 .. L
      /\ blocks' \in Seq(BlockType) /\ Len(blocks') = L
      /\ clusters' \in Seq(ClusterType) /\ Len(clusters') = Len(clusters)
      /\ blocks'[k - 1] = Remainder(j) /\ blocks'[j - 1] = Front(j)
      /\ \A n \in i .. k - 2 : n # j - 1 => blocks'[n] = blocks[n + 1]
      /\ \A n \in k .. L : blocks'[n] = blocks[n]
  BY <1>1, SplitList
<1>3. /\ blocks[k].offset >= end
      /\ \A n \in i + 1 .. k - 1 : blocks[n].offset < end
  BY <1>1, SplitPlace
<1>4. /\ end \in Int
      /\ \A n \in 1 .. L : blocks[n].offset \in Int
  BY <1>1, ListTypes, CurrentType
<1>5. Remainder(j).offset = end /\ Front(j).offset = blocks[j].offset
  <2>1. j \in 1 .. L
    BY <1>2
  <2> QED
    BY <1>1, <2>1, PieceFacts
<1>6. \A n, m \in i .. L : n < m => blocks[n].offset <= blocks[m].offset
  BY DEF ListInv, SortedFrom
<1> HIDE DEF k, L, end
<1> DEFINE at(n) == blocks'[n].offset
<1>7. \A n \in i .. k - 2 : n + 1 \in i + 1 .. k - 1 /\ at(n) = blocks[n + 1].offset
  <2> SUFFICES ASSUME NEW n \in i .. k - 2 PROVE n + 1 \in i + 1 .. k - 1 /\ at(n) = blocks[n + 1].offset
    OBVIOUS
  <2>1. n + 1 \in i + 1 .. k - 1 /\ (n = j - 1 => n + 1 = j)
    BY <1>2
  <2> QED
    BY <1>2, <1>5, <2>1
<1>8. at(k - 1) = end /\ \A n \in k .. L : at(n) = blocks[n].offset
  BY <1>2, <1>5
<1>9. \A n \in k .. L : blocks[n].offset >= end
  <2> SUFFICES ASSUME NEW n \in k .. L PROVE blocks[n].offset >= end
    OBVIOUS
  <2>1. k \in i .. L /\ n \in i .. L /\ (k = n \/ k < n) /\ k \in 1 .. L /\ n \in 1 .. L
    BY <1>2
  <2>2. k = n \/ blocks[k].offset <= blocks[n].offset
    BY <1>6, <2>1
  <2> QED
    BY <1>3, <1>4, <2>1, <2>2
<1>10. ASSUME NEW n \in i .. L, NEW m \in i .. L, n < m PROVE at(n) <= at(m)
  <2>1. \/ n \in i .. k - 2 /\ m \in i .. k - 2
        \/ n \in i .. k - 2 /\ m = k - 1
        \/ n \in i .. k - 2 /\ m \in k .. L
        \/ n = k - 1 /\ m \in k .. L
        \/ n \in k .. L /\ m \in k .. L
    BY <1>2, <1>10
  <2>2. CASE n \in i .. k - 2 /\ m \in i .. k - 2
    <3>1. n + 1 \in i .. L /\ m + 1 \in i .. L /\ n + 1 < m + 1
      BY <1>2, <1>10, <2>2
    <3> QED
      BY <1>6, <1>7, <2>2, <3>1
  <2>3. CASE n \in i .. k - 2 /\ m \notin i .. k - 2
    <3>1. n + 1 \in 1 .. L /\ at(n) \in Int /\ at(n) < end
      <4>1. n + 1 \in 1 .. L
        BY <1>2, <2>3
      <4> QED
        BY <1>3, <1>4, <1>7, <2>3, <4>1
    <3>2. at(m) \in Int /\ at(m) >= end
      <4>1. \A q \in k .. L : q \in 1 .. L
        BY <1>2
      <4> QED
        BY <1>4, <1>8, <1>9, <2>1, <2>3, <4>1
    <3> QED
      BY <1>4, <3>1, <3>2
  <2>4. CASE n = k - 1 /\ m \in k .. L
    BY <1>8, <1>9, <2>4
  <2>5. CASE n \in k .. L /\ m \in k .. L
    <3>1. n \in i .. L /\ m \in i .. L
      BY <1>2
    <3> QED
      BY <1>6, <1>8, <1>10, <2>5, <3>1
  <2> QED
    BY <2>1, <2>2, <2>3, <2>4, <2>5
<1>11. SortedFrom(blocks', i)
  BY <1>2, <1>10 DEF SortedFrom
<1>12. i \in 1 .. L + 1
  BY <1>2
<1> QED
  BY <1>1, <1>2, <1>11, <1>12 DEF ListInv, Scanning, L

\* No turn of the loop, and nothing before it, disturbs the order of what is ahead.
LEMMA ListStep == GivenInv /\ ListInv /\ [Next]_vars => ListInv'
<1> SUFFICES ASSUME GivenInv, ListInv, [Next]_vars PROVE ListInv'
  OBVIOUS
<1>1. ASSUME UNCHANGED <<blocks, clusters, i>>, stage' \in Stages,
             stage' \in {"bounds", "sorting"} => stage \in {"bounds", "sorting"}
      PROVE  ListInv'
  BY <1>1 DEF ListInv, SortedFrom
<1>2. CASE UNCHANGED vars
  BY <1>1, <1>2 DEF vars, ListInv
<1>3. CASE CheckBounds
  BY <1>1, <1>3 DEF CheckBounds, Stages
<1>4. CASE SortBlocks
  BY <1>4, SortKeepsList
<1>5. CASE FindResizingCollisions \/ ResizingFails \/ CliqueFails \/ Accept
  BY <1>1, <1>5 DEF FindResizingCollisions, ResizingFails, CliqueFails, Accept, MissingEdge, Stages
<1>6. CASE SkipBlock
  BY <1>6, NextKeepsList DEF SkipBlock, ListInv
<1>7. CASE FinalizeCluster
  <2>1. Scanning /\ blocks' = blocks /\ i' = i + 1 /\ stage' = stage
        /\ clusters' = [clusters EXCEPT ![i] = Current]
    BY <1>7 DEF FinalizeCluster
  <2>2. Current \in ClusterType /\ clusters \in Seq(ClusterType) /\ i \in 1 .. Len(clusters)
    BY <2>1, CurrentType DEF ListInv
  <2>3. clusters' \in Seq(ClusterType) /\ Len(clusters') = Len(clusters)
    BY <2>1, <2>2, ExceptSeq
  <2> QED
    BY <2>1, <2>3, NextKeepsList
<1>8. CASE MergeBlock
  <2>1. PICK j \in Scanned :
           /\ Scanning /\ blocks' = blocks /\ i' = i + 1 /\ stage' = stage
           /\ clusters' = [clusters EXCEPT ![i] = Current, ![j] = Merge(clusters[j], Current)]
    BY <1>8 DEF MergeBlock
  <2>2. j \in 1 .. Len(blocks)
    BY <2>1, ScannedFacts
  <2>3. clusters' \in Seq(ClusterType) /\ Len(clusters') = Len(clusters)
    BY <2>1, <2>2, MergedClusters
  <2> QED
    BY <2>1, <2>3, NextKeepsList
<1>9. CASE SplitBlock
  BY <1>9, SplitKeepsList
<1> QED
  BY <1>2, <1>3, <1>4, <1>5, <1>6, <1>7, <1>8, <1>9 DEF Next

LEMMA ListHolds == Spec => []ListInv
<1>1. Spec => []GivenInv
  BY GivenHolds
<1> QED
  BY <1>1, ListInit, ListStep, PTL DEF Spec

\* Whatever is split and moved, the offsets from block i on ascend: the searches of
\* findCollisionCliques find what they look for.
THEOREM SortedAheadAlways == Spec => []SortedAhead
<1>1. ListInv => SortedAhead
  <2> SUFFICES ASSUME ListInv, NEW k \in i .. Len(blocks) - 1
               PROVE  blocks[k].offset <= blocks[k + 1].offset
    BY DEF SortedAhead
  <2>1. k \in i .. Len(blocks) /\ k + 1 \in i .. Len(blocks) /\ k < k + 1
    BY ListTypes
  <2> QED
    BY <2>1 DEF ListInv, SortedFrom
<1> QED
  BY <1>1, ListHolds, PTL

-----------------------------------------------------------------------------
(* Every edge is a collision *)

\* The requests that a block stands for: its own and those it has absorbed.
Reqs(b, c) == {b.req} \cup MembersOf(c)

AllCollide(R, S) == \A r \in R, s \in S : Collide(r, s)
Mutual(R) == \A r, s \in R : r # s => Collide(r, s)
Ascends(s) == \A m, n \in 1 .. Len(s) : m < n => s[m] < s[n]

\* A cluster of writable blocks is a clique, and its members are sorted.
ItemGood(b, c) ==
    /\ b \in BlockType /\ c \in ClusterType
    /\ b.offset >= -3
    /\ b.offset < 0 => b \in Blocks
    /\ b.offset >= 0 => b.size > 0
    /\ b.type = "writable" =>
          Ascends(c.members) /\ b.req \notin MembersOf(c) /\ Mutual(Reqs(b, c))

Apart(a, b) == End(a) <= b.offset \/ End(b) <= a.offset

Clash(a, b) ==
    /\ a.offset # -3 /\ b.offset # -3
    /\ ~Apart(a, b)
    /\ Collides(a.type, b.type) /\ ~AdditiveSameBlock(a, b)

\* All requests of two blocks collide, if the blocks do; size blocks are of different
\* requests.
PairGood(a, c, b, d) ==
    /\ Clash(a, b) => AllCollide(Reqs(a, c), Reqs(b, d))
    /\ a.offset < 0 /\ b.offset < 0 => a.req # b.req

ListGood(bs, cs, first) ==
    \A k \in first .. Len(bs) :
        /\ ItemGood(bs[k], cs[k])
        /\ \A n \in first .. Len(bs) : k # n => PairGood(bs[k], cs[k], bs[n], cs[n])

LEMMA CollideSymmetric ==
    ASSUME NEW r, NEW s, Collide(r, s)
    PROVE  Collide(s, r)
<1>1. PICK a \in BlocksOf(r), b \in BlocksOf(s) :
         BlocksCollide(a, b) \/ SizeCollides(a, b) \/ SizeCollides(b, a)
  BY DEF Collide
<1>2. BlocksCollide(a, b) => BlocksCollide(b, a)
  BY DEF BlocksCollide, Overlap
<1> QED
  BY <1>1, <1>2 DEF Collide

LEMMA ClashSymmetric ==
    ASSUME NEW a, NEW b, Clash(a, b)
    PROVE  Clash(b, a)
BY DEF Clash, Apart, Collides, AdditiveSameBlock

LEMMA PairSymmetric ==
    ASSUME NEW a, NEW b, NEW c, NEW d, PairGood(a, c, b, d)
    PROVE  PairGood(b, d, a, c)
BY ClashSymmetric, CollideSymmetric DEF PairGood, AllCollide

\* Blocks as they were declared: those that clash are of requests that collide.
LEMMA DeclaredClash ==
    ASSUME GivenInv, NEW a \in Blocks, NEW b \in Blocks, a # b, Clash(a, b)
    PROVE  Collide(a.req, b.req)
<1>1. /\ a \in BlockType /\ a \in BlocksOf(a.req) /\ a.offset >= -3
      /\ a.offset = -1 => a.type = "writable"
      /\ a.offset = -2 => a.type = "read_only"
      /\ a.offset >= 0 => a.size > 0
      /\ b \in BlockType /\ b \in BlocksOf(b.req) /\ b.offset >= -3
      /\ b.offset = -1 => b.type = "writable"
      /\ b.offset = -2 => b.type = "read_only"
      /\ b.offset >= 0 => b.size > 0
  BY BlockFacts
<1>2. /\ a.offset \in Int /\ a.size \in Int /\ a.type \in Types
      /\ b.offset \in Int /\ b.size \in Int /\ b.type \in Types
  BY <1>1 DEF BlockType
<1>3. a.offset # -3 /\ b.offset # -3 /\ ~Apart(a, b) /\ Collides(a.type, b.type)
      /\ ~AdditiveSameBlock(a, b)
  BY DEF Clash
<1>4. ~(End(a) <= b.offset) /\ ~(End(b) <= a.offset)
  BY <1>3 DEF Apart
<1>5. \/ a.offset >= 0 /\ b.offset >= 0
      \/ a.offset \in {-1, -2} /\ b.offset \in {-1, -2}
  BY <1>1, <1>2, <1>3, <1>4 DEF End
<1>6. a.req # b.req
  <2> SUFFICES ASSUME a.req = b.req PROVE FALSE
    OBVIOUS
  <2>1. /\ a.offset >= 0 \/ b.offset >= 0
        /\ a.offset >= 0 /\ b.offset >= 0 =>
              a.offset + a.size <= b.offset \/ b.offset + b.size <= a.offset
    BY SameRequest
  <2> QED
    BY <1>2, <1>4, <1>5, <2>1 DEF End
<1>7. CASE a.offset >= 0 /\ b.offset >= 0
  <2>1. Overlap(a, b)
    BY <1>2, <1>4, <1>7 DEF End, Overlap
  <2>2. MayWrite(a) \/ MayWrite(b)
    BY <1>2, <1>3 DEF Collides, MayWrite, Types
  <2>3. BlocksCollide(a, b)
    BY <1>3, <1>7, <2>1, <2>2 DEF BlocksCollide, Collides, AdditiveSameBlock
  <2> QED
    BY <1>1, <1>6, <2>3 DEF Collide
<1>8. CASE a.offset \in {-1, -2} /\ b.offset \in {-1, -2}
  <2>1. a.offset = -1 \/ b.offset = -1
    BY <1>1, <1>3, <1>8 DEF Collides
  <2>2. SizeCollides(a, b) \/ SizeCollides(b, a)
    BY <1>8, <2>1 DEF SizeCollides
  <2> QED
    BY <1>1, <1>6, <2>2 DEF Collide
<1> QED
  BY <1>5, <1>7, <1>8

\* The sorted list of all blocks, each with a fresh cluster.
LEMMA DeclaredGood ==
    ASSUME GivenInv, ListInv, SortBlocks
    PROVE  ListGood(blocks', clusters', i')
<1>1. /\ Lists(blocks', Blocks, Precedes) /\ clusters' \in Seq(ClusterType)
      /\ Len(clusters') = Len(blocks') /\ i' = 1
      /\ \A k \in 1 .. Len(blocks') : clusters'[k] = Fresh
  BY SortedAfterSort
<1> DEFINE bs == blocks'
           cs == clusters'
<1>2. \A k \in 1 .. Len(bs) : bs[k] \in Blocks /\ cs[k] = Fresh
  BY <1>1, ElementOfSeq DEF Lists
<1>3. Fresh \in ClusterType /\ \A x : x \notin MembersOf(Fresh)
  BY EmptySeq DEF Fresh, ClusterType, Types, MembersOf
<1>4. Ascends(Fresh.members)
  BY EmptySeq DEF Fresh, Ascends
<1>5. \A b : Reqs(b, Fresh) = {b.req}
  BY <1>3 DEF Reqs
<1>6. ASSUME NEW b \in Blocks PROVE ItemGood(b, Fresh)
  <2>1. b \in BlockType /\ b.offset >= -3 /\ (b.offset >= 0 => b.size > 0)
    BY BlockFacts
  <2>2. Mutual(Reqs(b, Fresh))
    BY <1>5 DEF Mutual
  <2> QED
    BY <1>3, <1>4, <2>1, <2>2 DEF ItemGood
<1>7. ASSUME NEW a \in Blocks, NEW b \in Blocks, a # b PROVE PairGood(a, Fresh, b, Fresh)
  <2>1. Clash(a, b) => AllCollide(Reqs(a, Fresh), Reqs(b, Fresh))
    BY <1>5, <1>7, DeclaredClash DEF AllCollide
  <2>2. a.offset \in Int /\ b.offset \in Int
    BY BlockFacts DEF BlockType
  <2>3. a.offset < 0 /\ b.offset < 0 => a.req # b.req
    BY <1>7, <2>2, SameRequest
  <2> QED
    BY <2>1, <2>3 DEF PairGood
<1> HIDE DEF bs, cs
<1>8. ASSUME NEW k \in 1 .. Len(bs), NEW n \in 1 .. Len(bs), k # n
      PROVE  bs[k] # bs[n]
  <2>1. Len(bs) \in Nat /\ (k < n \/ n < k)
    BY <1>1, <1>8, LenProperties DEF Lists, bs
  <2>2. <<bs[k], bs[n]>> \in Precedes \/ <<bs[n], bs[k]>> \in Precedes
    BY <1>1, <2>1 DEF Lists, bs
  <2> QED
    BY <1>2, <2>2, BeforeOrders DEF Orders
<1>9. ListGood(bs, cs, 1)
  BY <1>2, <1>6, <1>7, <1>8 DEF ListGood
<1> QED
  BY <1>1, <1>9 DEF bs, cs

LEMMA AddAscends ==
    ASSUME NEW members \in Seq(Request), NEW more \in Seq(Request),
           Ascends(members), Ascends(more),
           \A x : ~(Has(members, x) /\ Has(more, x))
    PROVE  Ascends(AddMembers(members, more, "writable"))
<1> DEFINE m == AddMembers(members, more, "writable")
<1>1. members \in Seq(Int) /\ more \in Seq(Int)
  BY RequestsInt, SeqMonotonic
<1>2. ASSUME NEW s \in Seq(Int), Ascends(s) PROVE NoRepeats(s)
  <2> SUFFICES ASSUME NEW a \in 1 .. Len(s), NEW b \in 1 .. Len(s), a # b PROVE s[a] # s[b]
    BY DEF NoRepeats
  <2>1. s[a] \in Int /\ s[b] \in Int /\ Len(s) \in Nat
    BY ElementOfSeq, LenProperties
  <2>2. a < b \/ b < a
    BY <2>1
  <2> QED
    BY <1>2, <2>1, <2>2 DEF Ascends
<1>3. ASSUME NEW s \in Seq(Int), Ascends(s) PROVE SortedTo(s, Len(s))
  <2> SUFFICES ASSUME NEW a \in 1 .. Len(s), NEW b \in 1 .. Len(s), a < b PROVE s[a] <= s[b]
    BY DEF SortedTo
  <2>1. s[a] \in Int /\ s[b] \in Int
    BY ElementOfSeq
  <2> QED
    BY <1>3, <2>1 DEF Ascends
<1>4. /\ m \in Seq(Request) /\ NoRepeats(m)
      /\ \A a, b \in 1 .. Len(m) : a < b => m[a] <= m[b]
  <2>1. /\ NoRepeats(members) /\ NoRepeats(more)
        /\ SortedTo(members, Len(members)) /\ SortedTo(more, Len(more))
    BY <1>1, <1>2, <1>3
  <2> QED
    BY <2>1, AddMembersFacts DEF SortedTo
<1> HIDE DEF m
<1>5. Len(m) \in Nat /\ \A a \in 1 .. Len(m) : m[a] \in Int
  BY <1>4, LenProperties, ElementOfSeq, RequestsInt
<1>6. ASSUME NEW a \in 1 .. Len(m), NEW b \in 1 .. Len(m), a < b PROVE m[a] < m[b]
  <2>1. m[a] <= m[b] /\ m[a] # m[b]
    BY <1>4, <1>5, <1>6 DEF NoRepeats
  <2> QED
    BY <1>5, <2>1
<1> QED
  BY <1>6 DEF Ascends, m

\* The cluster of block i once its own request was inserted.
LEMMA CurrentGood ==
    ASSUME ListInv, Scanning, ItemGood(blocks[i], clusters[i])
    PROVE  /\ Current \in ClusterType /\ Current.type = blocks[i].type
           /\ MembersOf(Current) = Reqs(blocks[i], clusters[i])
           /\ blocks[i].type = "writable" => Ascends(Current.members)
<1> DEFINE b == blocks[i]
           c == clusters[i]
<1>1. Current \in ClusterType /\ Current.type = b.type
      /\ Current.members = AddMembers(c.members, <<b.req>>, b.type)
  BY CurrentType
<1>2. b.req \in Request /\ c.members \in Seq(Request)
  BY DEF ItemGood, BlockType, ClusterType
<1> HIDE DEF b, c
<1> DEFINE one == <<b.req>>
<1>3. one \in Seq(Request) /\ Ascends(one) /\ \A x : Has(one, x) <=> x = b.req
  <2>1. one \in Seq(Request) /\ Len(one) = 1 /\ one[1] = b.req
    BY <1>2
  <2> HIDE DEF one
  <2>2. \A m \in 1 .. Len(one) : m = 1
    BY <2>1
  <2>3. 1 \in 1 .. Len(one)
    BY <2>1
  <2>4. Ascends(one)
    BY <2>2 DEF Ascends
  <2>5. \A x : Has(one, x) <=> x = b.req
    BY <2>1, <2>2, <2>3 DEF Has
  <2> QED
    BY <2>1, <2>4, <2>5
<1> HIDE DEF one
<1>4. \A x : Has(Current.members, x) <=> Has(c.members, x) \/ Has(one, x)
  <2>1. Current.members = AddMembers(c.members, one, b.type)
    BY <1>1 DEF one
  <2> QED
    BY <1>2, <1>3, <2>1, AddMembersFacts
<1>5. MembersOf(Current) = Reqs(b, c)
  BY <1>3, <1>4, MembersAre DEF Reqs
<1>6. ASSUME b.type = "writable" PROVE Ascends(Current.members)
  <2>1. Ascends(c.members) /\ b.req \notin MembersOf(c)
    BY <1>6 DEF ItemGood, b, c
  <2>2. \A x : ~(Has(c.members, x) /\ Has(one, x))
    BY <1>3, <2>1, MembersAre
  <2> QED
    BY <1>1, <1>2, <1>3, <1>6, <2>1, <2>2, AddAscends DEF one
<1> QED
  BY <1>1, <1>5, <1>6 DEF b, c

\* Two clusters of blocks that clash, merged: the requests of both, and still a clique.
LEMMA MergedGood ==
    ASSUME NEW b, NEW c, NEW a, NEW d, NEW cur \in ClusterType,
           ItemGood(b, c), ItemGood(a, d), a.type = b.type, cur.type = a.type,
           MembersOf(cur) = Reqs(a, d), a.type = "writable" => Ascends(cur.members),
           a.type = "writable" => AllCollide(Reqs(a, d), Reqs(b, c))
    PROVE  /\ Merge(c, cur) \in ClusterType
           /\ Reqs(b, Merge(c, cur)) = Reqs(b, c) \cup Reqs(a, d)
           /\ b.type = "writable" =>
                 /\ Ascends(Merge(c, cur).members)
                 /\ b.req \notin MembersOf(Merge(c, cur))
                 /\ Mutual(Reqs(b, Merge(c, cur)))
<1> DEFINE e == Merge(c, cur)
<1>1. c \in ClusterType
  BY DEF ItemGood
<1>2. e \in ClusterType /\ e.members = AddMembers(c.members, cur.members, cur.type)
      /\ c.members \in Seq(Request) /\ cur.members \in Seq(Request)
  BY <1>1, MergeType DEF ClusterType
<1> HIDE DEF e
<1>3. \A x : Has(e.members, x) <=> Has(c.members, x) \/ Has(cur.members, x)
  BY <1>2, AddMembersFacts
<1>4. \A x : x \in MembersOf(e) <=> x \in MembersOf(c) \/ x \in Reqs(a, d)
  BY <1>3, MembersAre
<1>5. Reqs(b, e) = Reqs(b, c) \cup Reqs(a, d)
  BY <1>4 DEF Reqs
<1>6. ASSUME b.type = "writable"
      PROVE  Ascends(e.members) /\ b.req \notin MembersOf(e) /\ Mutual(Reqs(b, e))
  <2>1. /\ Ascends(c.members) /\ b.req \notin MembersOf(c) /\ Mutual(Reqs(b, c))
        /\ Ascends(cur.members) /\ Mutual(Reqs(a, d)) /\ AllCollide(Reqs(a, d), Reqs(b, c))
    BY <1>6 DEF ItemGood
  <2>2. \A r \in Reqs(a, d) : r \notin Reqs(b, c)
    BY <2>1 DEF AllCollide, Collide
  <2>3. \A x : ~(Has(c.members, x) /\ Has(cur.members, x))
    BY <2>2, MembersAre DEF Reqs
  <2>4. Ascends(e.members)
    BY <1>2, <1>6, <2>1, <2>3, AddAscends
  <2>5. b.req \notin MembersOf(e)
    BY <1>4, <2>1, <2>2 DEF Reqs
  <2>6. Mutual(Reqs(b, e))
    BY <1>5, <2>1, CollideSymmetric DEF Mutual, AllCollide
  <2> QED
    BY <2>4, <2>5, <2>6
<1> QED
  BY <1>2, <1>5, <1>6 DEF e

NarrowBlocks ==
    \A a, b \in Blocks :
        a.req # b.req /\ a.offset \in {-1, -2} /\ b.offset \in {-1, -2} /\ a.type = b.type
            => CollidingEnd(a) <= 0

LEMMA Narrow ==
    ASSUME NarrowSizes, GivenInv
    PROVE  NarrowBlocks
<1> SUFFICES ASSUME NEW a \in Blocks, NEW b \in Blocks, a.req # b.req, a.type = b.type,
                    a.offset \in {-1, -2}, b.offset \in {-1, -2}
             PROVE  CollidingEnd(a) <= 0
  BY DEF NarrowBlocks
<1>1. PICK given \in Inputs : accessMap = given.accessMap
  BY DEF GivenInv
<1>2. PICK r \in Request : a \in BlocksOf(r)
  BY DEF Blocks
<1>3. PICK s \in Request : b \in BlocksOf(s)
  BY DEF Blocks
<1>4. PICK c \in accessMap[r] :
         a = [offset |-> c.offset, size |-> c.size, type |-> c.type, req |-> r]
  BY <1>2 DEF BlocksOf
<1>5. PICK d \in accessMap[s] :
         b = [offset |-> d.offset, size |-> d.size, type |-> d.type, req |-> s]
  BY <1>3 DEF BlocksOf
<1>6. /\ r # s /\ c.offset = a.offset /\ c.size = a.size /\ c.type = a.type
      /\ d.offset = b.offset /\ d.type = b.type
  BY <1>4, <1>5
<1>7. c.offset + c.size <= 0
  BY <1>1, <1>6 DEF NarrowSizes
<1> QED
  BY <1>6, <1>7 DEF CollidingEnd

LEMMA ItemTypes ==
    ASSUME GivenInv, NEW b, NEW c, ItemGood(b, c)
    PROVE  /\ b.offset \in Int /\ b.size \in Int /\ b.type \in Types /\ b.req \in Request
           /\ End(b) \in Int /\ CollidingEnd(b) \in Int
           /\ b.offset # -3 => b.offset < End(b) /\ b.offset >= -2
           /\ b.offset >= 0 => End(b) = CollidingEnd(b)
           /\ b.offset < 0 => b.offset \in {-1, -2, -3}
           /\ b.offset \in {-1, -2} => End(b) = 0
           /\ b.offset = -1 => b.type = "writable"
           /\ b.offset = -2 => b.type = "read_only"
<1>1. /\ b \in BlockType /\ b.offset >= -3
      /\ b.offset < 0 => b \in Blocks
      /\ b.offset >= 0 => b.size > 0
  BY DEF ItemGood
<1>2. /\ b.offset \in Int /\ b.size \in Int /\ b.type \in Types /\ b.req \in Request
  BY <1>1 DEF BlockType
<1>3. /\ b.offset = -1 => b.type = "writable"
      /\ b.offset = -2 => b.type = "read_only"
  BY <1>1, BlockFacts
<1> QED
  BY <1>1, <1>2, <1>3 DEF End, CollidingEnd

\* Block i and a block that the scan comes to have bytes in common.
LEMMA ScannedMeets ==
    ASSUME GivenInv, ListInv, ListGood(blocks, clusters, i), Scanning, ~Skipped(blocks[i]),
           NEW j \in Scanned
    PROVE  /\ i \in 1 .. Len(blocks) /\ j \in 1 .. Len(blocks) /\ j \in i .. Len(blocks)
           /\ i \in i .. Len(blocks) /\ j # i
           /\ ItemGood(blocks[i], clusters[i]) /\ ItemGood(blocks[j], clusters[j])
           /\ PairGood(blocks[i], clusters[i], blocks[j], clusters[j])
           /\ blocks[i].offset <= blocks[j].offset /\ blocks[j].offset < End(blocks[i])
           /\ blocks[i].offset # -3 /\ blocks[j].offset # -3
           /\ ~Apart(blocks[i], blocks[j])
<1>1. /\ i \in 1 .. Len(blocks) /\ j \in i + 1 .. Len(blocks) /\ j \in 1 .. Len(blocks) /\ j # i
      /\ blocks[i].offset <= blocks[j].offset /\ blocks[j].offset < End(blocks[i])
  BY ScannedFacts, CurrentType
<1>2. j \in i .. Len(blocks) /\ i \in i .. Len(blocks)
  BY <1>1
<1>3. /\ ItemGood(blocks[i], clusters[i]) /\ ItemGood(blocks[j], clusters[j])
      /\ PairGood(blocks[i], clusters[i], blocks[j], clusters[j])
  BY <1>1, <1>2 DEF ListGood
<1> DEFINE a == blocks[i]
           b == blocks[j]
<1>4. a.offset # -3
  BY DEF Skipped
<1>5. /\ a.offset \in Int /\ b.offset \in Int /\ End(a) \in Int /\ End(b) \in Int
      /\ a.offset < End(a) /\ a.offset >= -2
      /\ b.offset # -3 => b.offset < End(b)
  BY <1>3, <1>4, ItemTypes
<1>6. b.offset # -3 /\ a.offset <= b.offset /\ b.offset < End(a)
  BY <1>1, <1>5
<1> HIDE DEF a, b
<1>7. ~Apart(a, b)
  BY <1>5, <1>6 DEF Apart
<1> QED
  BY <1>1, <1>2, <1>3, <1>4, <1>6, <1>7 DEF a, b

\* The absorber of block i is of its type, and ends where it is taken to end.
LEMMA AbsorberFacts ==
    ASSUME GivenInv, NarrowBlocks, ListInv, ListGood(blocks, clusters, i), Scanning,
           ~Skipped(blocks[i]), NEW j \in Scanned, IsAbsorber(j)
    PROVE  /\ blocks[i].type = blocks[j].type
           /\ blocks[i].type = "int_additive" =>
                 blocks[i].offset = blocks[j].offset /\ blocks[i].size = blocks[j].size
           /\ End(blocks[j]) = CollidingEnd(blocks[j])
           /\ End(blocks[i]) <= End(blocks[j])
           /\ End(blocks[i]) < End(blocks[j]) =>
                 /\ blocks[i].offset >= 0 /\ blocks[j].offset >= 0
                 /\ blocks[i].type # "int_additive"
<1> DEFINE a == blocks[i]
           b == blocks[j]
<1>1. /\ CanMerge(a, b) /\ End(a) <= CollidingEnd(b)
  BY DEF IsAbsorber, Absorbs
<1>2. /\ ItemGood(a, clusters[i]) /\ ItemGood(b, clusters[j])
      /\ PairGood(a, clusters[i], b, clusters[j])
      /\ a.offset <= b.offset /\ b.offset < End(a) /\ a.offset # -3 /\ b.offset # -3
  BY ScannedMeets
<1> HIDE DEF a, b
<1>3. /\ a.offset \in Int /\ b.offset \in Int /\ a.size \in Int /\ b.size \in Int
      /\ End(a) \in Int /\ End(b) \in Int /\ CollidingEnd(b) \in Int
      /\ b.offset >= 0 => End(b) = CollidingEnd(b)
      /\ a.offset >= 0 => End(a) = CollidingEnd(a)
      /\ a.offset < 0 => a.offset \in {-1, -2} /\ End(a) = 0
      /\ b.offset < 0 => b.offset \in {-1, -2} /\ End(b) = 0
  BY <1>2, ItemTypes
<1>4. /\ a.type = b.type
      /\ a.type = "int_additive" => a.offset = b.offset /\ a.size = b.size
  BY <1>1 DEF CanMerge
<1>5. CASE b.offset >= 0
  <2>1. a.offset >= 0
    BY <1>2, <1>3, <1>5
  <2>2. a.type = "int_additive" => End(a) = End(b)
    BY <1>3, <1>4, <1>5, <2>1 DEF CollidingEnd
  <2> QED
    BY <1>1, <1>3, <1>4, <1>5, <2>1, <2>2 DEF a, b
<1>6. CASE b.offset < 0
  <2>1. a.offset < 0 /\ a \in Blocks /\ b \in Blocks
    BY <1>2, <1>3, <1>6 DEF ItemGood
  <2>2. a.req # b.req
    BY <1>2, <1>6, <2>1 DEF PairGood
  <2>3. CollidingEnd(b) <= 0
    BY <1>3, <1>4, <1>6, <2>1, <2>2 DEF NarrowBlocks
  <2>4. End(a) = 0 /\ End(b) = 0 /\ CollidingEnd(b) = 0
    BY <1>1, <1>3, <1>6, <2>1, <2>3
  <2>5. ~(End(a) < End(b)) /\ End(a) <= End(b)
    BY <2>4
  <2> QED
    BY <1>4, <2>4, <2>5 DEF a, b
<1> QED
  BY <1>3, <1>5, <1>6

\* The requests of block i and of its absorber collide, if the two are writable.
LEMMA AbsorberCluster ==
    ASSUME GivenInv, NarrowBlocks, ListInv, ListGood(blocks, clusters, i), Scanning,
           ~Skipped(blocks[i]), NEW j \in Scanned, IsAbsorber(j)
    PROVE  /\ Merge(clusters[j], Current) \in ClusterType
           /\ MembersOf(Current) = Reqs(blocks[i], clusters[i])
           /\ Reqs(blocks[j], Merge(clusters[j], Current))
                 = Reqs(blocks[j], clusters[j]) \cup Reqs(blocks[i], clusters[i])
           /\ blocks[j].type = "writable" =>
                 /\ Ascends(Merge(clusters[j], Current).members)
                 /\ blocks[j].req \notin MembersOf(Merge(clusters[j], Current))
                 /\ Mutual(Reqs(blocks[j], Merge(clusters[j], Current)))
<1>1. /\ ItemGood(blocks[i], clusters[i]) /\ ItemGood(blocks[j], clusters[j])
      /\ PairGood(blocks[i], clusters[i], blocks[j], clusters[j])
      /\ blocks[i].offset # -3 /\ blocks[j].offset # -3 /\ ~Apart(blocks[i], blocks[j])
  BY ScannedMeets
<1>2. blocks[i].type = blocks[j].type
  BY AbsorberFacts
<1>3. /\ Current \in ClusterType /\ Current.type = blocks[i].type
      /\ MembersOf(Current) = Reqs(blocks[i], clusters[i])
      /\ blocks[i].type = "writable" => Ascends(Current.members)
  BY <1>1, CurrentGood
<1>4. ASSUME blocks[i].type = "writable"
      PROVE  AllCollide(Reqs(blocks[i], clusters[i]), Reqs(blocks[j], clusters[j]))
  <2>1. Clash(blocks[i], blocks[j])
    BY <1>1, <1>2, <1>4 DEF Clash, Collides, AdditiveSameBlock
  <2> QED
    BY <1>1, <2>1 DEF PairGood
<1> QED
  BY <1>1, <1>2, <1>3, <1>4, MergedGood

LEMMA NextKeepsGood ==
    ASSUME ListInv, ListGood(blocks, clusters, i), Scanning,
           blocks' = blocks, i' = i + 1,
           \A n \in i + 1 .. Len(blocks) : clusters'[n] = clusters[n]
    PROVE  ListGood(blocks', clusters', i')
<1>1. \A n \in i + 1 .. Len(blocks) : n \in i .. Len(blocks)
  BY CurrentType, ListTypes
<1> QED
  BY <1>1 DEF ListGood

\* What clashes with the absorber of a block that was not split clashes with the block.
LEMMA MergeKeepsGood ==
    ASSUME GivenInv, NarrowBlocks, ListInv, ListGood(blocks, clusters, i), MergeBlock
    PROVE  ListGood(blocks', clusters', i')
<1>1. PICK j \in Scanned :
         /\ Scanning /\ ~Skipped(blocks[i]) /\ IsAbsorber(j) /\ ~NeedsSplit(j)
         /\ blocks' = blocks /\ i' = i + 1
         /\ clusters' = [clusters EXCEPT ![i] = Current, ![j] = Merge(clusters[j], Current)]
  BY DEF MergeBlock
<1> DEFINE L == Len(blocks)
           a == blocks[i]
           d == clusters[i]
           b == blocks[j]
           c == clusters[j]
           e == Merge(c, Current)
<1>2. /\ i \in 1 .. L /\ j \in 1 .. L /\ j \in i .. L /\ i \in i .. L /\ j # i
      /\ ItemGood(a, d) /\ ItemGood(b, c) /\ PairGood(a, d, b, c)
      /\ a.offset <= b.offset /\ b.offset < End(a)
      /\ a.offset # -3 /\ b.offset # -3
  BY <1>1, ScannedMeets
<1>3. /\ a.type = b.type
      /\ a.type = "int_additive" => a.offset = b.offset /\ a.size = b.size
      /\ End(b) = CollidingEnd(b)
  BY <1>1, AbsorberFacts
<1>4. /\ e \in ClusterType /\ Reqs(b, e) = Reqs(b, c) \cup Reqs(a, d)
      /\ b.type = "writable" =>
            Ascends(e.members) /\ b.req \notin MembersOf(e) /\ Mutual(Reqs(b, e))
  BY <1>1, AbsorberCluster
<1>5. L \in Nat /\ clusters \in Seq(ClusterType) /\ Len(clusters) = L
  BY ListTypes DEF ListInv
<1>6. clusters'[j] = e /\ \A n \in i + 1 .. L : n # j => clusters'[n] = clusters[n]
  <2>1. DOMAIN clusters = 1 .. L
    BY <1>5
  <2> HIDE DEF e
  <2>2. clusters' = [clusters EXCEPT ![i] = Current, ![j] = e]
    BY <1>1 DEF e
  <2> QED
    BY <1>2, <1>5, <2>1, <2>2
<1>7. \A n \in i + 1 .. L : n \in i .. L /\ n # i /\ n \in 1 .. L
  BY <1>2, <1>5
<1>8. \A n \in i + 1 .. L : /\ ItemGood(blocks[n], clusters[n])
                            /\ PairGood(a, d, blocks[n], clusters[n])
                            /\ n # j => PairGood(b, c, blocks[n], clusters[n])
                            /\ \A m \in i + 1 .. L :
                                  n # m => PairGood(blocks[n], clusters[n], blocks[m], clusters[m])
  BY <1>2, <1>7 DEF ListGood
<1>9. \A n \in i + 1 .. L : blocks[n].offset < End(a) \/ ~(blocks[n].offset < CollidingEnd(b))
  <2>1. \A n \in i + 1 .. L : ~(blocks[n].offset >= End(a) /\ blocks[n].offset < CollidingEnd(b))
    BY <1>1 DEF NeedsSplit
  <2>2. \A n \in i + 1 .. L : blocks[n].offset \in Int /\ End(a) \in Int
    BY <1>2, <1>8, ItemTypes
  <2> QED
    BY <2>1, <2>2
<1> HIDE DEF L, a, b, c, d, e
<1>10. ItemGood(b, e)
  BY <1>2, <1>4 DEF ItemGood
<1>11. ASSUME NEW n \in i + 1 .. L, n # j
       PROVE  PairGood(b, e, blocks[n], clusters[n])
  <2> DEFINE x == blocks[n]
             y == clusters[n]
  <2>1. ItemGood(x, y) /\ PairGood(a, d, x, y) /\ PairGood(b, c, x, y)
        /\ (x.offset < End(a) \/ ~(x.offset < CollidingEnd(b)))
    BY <1>8, <1>9, <1>11
  <2> HIDE DEF x, y
  <2>2. ASSUME Clash(b, x) PROVE Clash(a, x)
    <3>1. /\ x.offset # -3 /\ ~(End(b) <= x.offset) /\ ~(End(x) <= b.offset)
          /\ Collides(b.type, x.type) /\ ~AdditiveSameBlock(b, x)
      BY <2>2 DEF Clash, Apart
    <3>2. /\ a.offset \in Int /\ b.offset \in Int /\ x.offset \in Int
          /\ End(a) \in Int /\ End(b) \in Int /\ End(x) \in Int
      BY <1>2, <2>1, ItemTypes
    <3>3. ~(End(a) <= x.offset) /\ ~(End(x) <= a.offset)
      BY <1>2, <1>3, <2>1, <3>1, <3>2
    <3>4. ~AdditiveSameBlock(a, x)
      BY <1>3, <3>1 DEF AdditiveSameBlock
    <3> QED
      BY <1>2, <1>3, <3>1, <3>3, <3>4 DEF Clash, Apart
  <2>3. Clash(b, x) => AllCollide(Reqs(b, e), Reqs(x, y))
    BY <1>4, <2>1, <2>2 DEF PairGood, AllCollide
  <2> QED
    BY <2>1, <2>3 DEF PairGood, x, y
<1>12. ASSUME NEW n \in i + 1 .. L
       PROVE  ItemGood(blocks[n], clusters'[n])
  BY <1>6, <1>8, <1>10 DEF b
<1>13. ASSUME NEW n \in i + 1 .. L, NEW m \in i + 1 .. L, n # m
       PROVE  PairGood(blocks[n], clusters'[n], blocks[m], clusters'[m])
  <2>1. CASE n = j
    BY <1>6, <1>11, <1>13, <2>1 DEF b
  <2>2. CASE m = j
    BY <1>6, <1>11, <1>13, <2>2, PairSymmetric DEF b
  <2>3. CASE n # j /\ m # j
    BY <1>6, <1>8, <1>13, <2>3
  <2> QED
    BY <2>1, <2>2, <2>3
<1>14. i' = i + 1 /\ blocks' = blocks /\ Len(blocks) = L
  BY <1>1 DEF L
<1> QED
  BY <1>12, <1>13, <1>14 DEF ListGood

\* Where the split puts the remainder (named by i), the front of the absorber (j) and the
\* other blocks (by the places they had).
LEMMA SplitMoves ==
    ASSUME ListInv, Scanning, NEW j \in Scanned, NeedsSplit(j),
           blocks' = Shift(blocks, j, LowerBound(End(blocks[i])), Front(j), Remainder(j)),
           clusters' = Shift(clusters, j, LowerBound(End(blocks[i])),
                             Merge(clusters[j], Current), Fresh)
    PROVE  \E src \in [i .. Len(blocks) -> i .. Len(blocks)] :
              /\ Len(blocks') = Len(blocks)
              /\ \A p, q \in i .. Len(blocks) : p # q => src[p] # src[q]
              /\ \A q \in i .. Len(blocks) :
                    /\ src[q] = i => blocks'[q] = Remainder(j) /\ clusters'[q] = Fresh
                    /\ src[q] = j => blocks'[q] = Front(j)
                                     /\ clusters'[q] = Merge(clusters[j], Current)
                    /\ src[q] \notin {i, j} => /\ blocks'[q] = blocks[src[q]]
                                               /\ clusters'[q] = clusters[src[q]]
<1> DEFINE k == LowerBound(End(blocks[i]))
           L == Len(blocks)
           src == [q \in i .. L |-> IF q = k - 1 THEN i ELSE IF q < k - 1 THEN q + 1 ELSE q]
<1>1. /\ i \in Nat /\ i >= 1 /\ L \in Nat
      /\ j \in i + 1 .. L /\ k \in j + 1 .. L
      /\ Len(blocks') = L
      /\ blocks'[k - 1] = Remainder(j) /\ clusters'[k - 1] = Fresh
      /\ blocks'[j - 1] = Front(j) /\ clusters'[j - 1] = Merge(clusters[j], Current)
      /\ \A n \in i .. k - 2 : n # j - 1 => /\ blocks'[n] = blocks[n + 1]
                                            /\ clusters'[n] = clusters[n + 1]
      /\ \A n \in k .. L : blocks'[n] = blocks[n] /\ clusters'[n] = clusters[n]
  BY SplitList
<1> HIDE DEF k, L, src
<1>2. \A q \in i .. L : src[q] = IF q = k - 1 THEN i ELSE IF q < k - 1 THEN q + 1 ELSE q
  BY DEF src
<1>3. src \in [i .. L -> i .. L]
  <2>1. \A q \in i .. L : src[q] \in i .. L
    BY <1>1, <1>2
  <2>2. src = [q \in i .. L |-> src[q]]
    BY DEF src
  <2> QED
    BY <2>1, <2>2
<1>4. ASSUME NEW p \in i .. L, NEW q \in i .. L, p # q PROVE src[p] # src[q]
  BY <1>1, <1>2, <1>4
<1>5. ASSUME NEW q \in i .. L
      PROVE  /\ src[q] = i => blocks'[q] = Remainder(j) /\ clusters'[q] = Fresh
             /\ src[q] = j => blocks'[q] = Front(j)
                              /\ clusters'[q] = Merge(clusters[j], Current)
             /\ src[q] \notin {i, j} => /\ blocks'[q] = blocks[src[q]]
                                        /\ clusters'[q] = clusters[src[q]]
  <2>1. CASE q = k - 1
    <3>1. src[q] = i /\ i # j
      BY <1>1, <1>2, <2>1
    <3> QED
      BY <1>1, <2>1, <3>1
  <2>2. CASE q < k - 1
    <3>1. src[q] = q + 1 /\ q \in i .. k - 2 /\ q + 1 # i
      BY <1>1, <1>2, <2>2
    <3>2. q + 1 = j <=> q = j - 1
      BY <1>1
    <3> QED
      BY <1>1, <3>1, <3>2
  <2>3. CASE q > k - 1
    <3>1. src[q] = q /\ q \in k .. L /\ q # i /\ q # j
      BY <1>1, <1>2, <2>3, SMTT(30)
    <3> QED
      BY <1>1, <3>1
  <2>4. q = k - 1 \/ q < k - 1 \/ q > k - 1
    BY <1>1
  <2> QED
    BY <2>1, <2>2, <2>3, <2>4
<1> QED
  BY <1>1, <1>3, <1>4, <1>5 DEF L

\* Front and remainder have no byte in common; what clashes with one of them clashed
\* with the whole absorber, and what clashes with the front did so with block i too.
LEMMA SplitKeepsGood ==
    ASSUME GivenInv, NarrowBlocks, ListInv, ListGood(blocks, clusters, i), SplitBlock
    PROVE  ListGood(blocks', clusters', i')
<1>1. PICK j \in Scanned :
         /\ Scanning /\ ~Skipped(blocks[i]) /\ IsAbsorber(j) /\ NeedsSplit(j) /\ i' = i
         /\ blocks' = Shift(blocks, j, LowerBound(End(blocks[i])), Front(j), Remainder(j))
         /\ clusters' = Shift(clusters, j, LowerBound(End(blocks[i])), Merge(clusters[j], Current), Fresh)
  BY DEF SplitBlock
<1> DEFINE L == Len(blocks)
           a == blocks[i]
           d == clusters[i]
           b == blocks[j]
           c == clusters[j]
           e == Merge(c, Current)
           f == Front(j)
           g == Remainder(j)
<1>2. /\ i \in 1 .. L /\ j \in 1 .. L /\ j \in i .. L /\ i \in i .. L /\ j # i
      /\ ItemGood(a, d) /\ ItemGood(b, c) /\ PairGood(a, d, b, c)
      /\ a.offset <= b.offset /\ b.offset < End(a)
      /\ a.offset # -3 /\ b.offset # -3
  BY <1>1, ScannedMeets
<1>3. End(a) < CollidingEnd(b)
  BY <1>1, SplitPlace
<1>4. /\ a.type = b.type /\ a.type # "int_additive" /\ a.offset >= 0 /\ b.offset >= 0
      /\ End(b) = CollidingEnd(b) /\ End(a) < End(b)
  <2>1. End(b) = CollidingEnd(b)
    BY <1>1, AbsorberFacts
  <2>2. End(a) < End(b)
    BY <1>3, <2>1
  <2> QED
    BY <1>1, <2>1, <2>2, AbsorberFacts
<1>5. /\ e \in ClusterType /\ Reqs(b, e) = Reqs(b, c) \cup Reqs(a, d)
      /\ b.type = "writable" =>
            Ascends(e.members) /\ b.req \notin MembersOf(e) /\ Mutual(Reqs(b, e))
  BY <1>1, AbsorberCluster
<1>6. /\ f \in BlockType /\ g \in BlockType
      /\ f.offset = b.offset /\ f.size = End(a) - b.offset /\ f.type = b.type /\ f.req = b.req
      /\ g.offset = End(a) /\ g.size = CollidingEnd(b) - End(a) /\ g.type = b.type /\ g.req = b.req
  BY <1>1, <1>2, PieceFacts
<1>7. PICK src \in [i .. L -> i .. L] :
         /\ Len(blocks') = L
         /\ \A p, q \in i .. L : p # q => src[p] # src[q]
         /\ \A q \in i .. L :
               /\ src[q] = i => blocks'[q] = g /\ clusters'[q] = Fresh
               /\ src[q] = j => blocks'[q] = f /\ clusters'[q] = e
               /\ src[q] \notin {i, j} => /\ blocks'[q] = blocks[src[q]]
                                          /\ clusters'[q] = clusters[src[q]]
  BY <1>1, SplitMoves
<1>8. \A n \in i .. L : /\ ItemGood(blocks[n], clusters[n])
                        /\ n # i => PairGood(a, d, blocks[n], clusters[n])
                        /\ n # j => PairGood(b, c, blocks[n], clusters[n])
                        /\ \A m \in i .. L :
                              n # m => PairGood(blocks[n], clusters[n], blocks[m], clusters[m])
  BY <1>2 DEF ListGood
<1> HIDE DEF L, a, b, c, d, e, f, g
<1>9. /\ a.offset \in Int /\ b.offset \in Int /\ a.size \in Int /\ b.size \in Int
      /\ End(a) \in Int /\ End(b) \in Int /\ CollidingEnd(b) \in Int
      /\ b.offset < End(b) /\ End(a) >= 0
  BY <1>2, <1>4, ItemTypes
<1>10. /\ f.offset >= 0 /\ f.size > 0 /\ End(f) = End(a)
       /\ g.offset >= 0 /\ g.size > 0 /\ End(g) = End(b)
  <2>1. /\ f.offset \in Int /\ f.offset >= 0 /\ f.size > 0 /\ f.offset + f.size = End(a)
        /\ g.offset \in Int /\ g.offset >= 0 /\ g.size > 0 /\ g.offset + g.size = CollidingEnd(b)
    BY <1>2, <1>3, <1>4, <1>6, <1>9
  <2>2. \A x : x.offset \in Int /\ x.offset >= 0 => End(x) = x.offset + x.size
    BY DEF End
  <2> QED
    BY <1>4, <2>1, <2>2
<1>11. Reqs(f, e) = Reqs(b, c) \cup Reqs(a, d)
  BY <1>5, <1>6 DEF Reqs
<1>12. ItemGood(f, e)
  <2>1. f.type = "writable" =>
           Ascends(e.members) /\ f.req \notin MembersOf(e) /\ Mutual(Reqs(f, e))
    BY <1>5, <1>6 DEF Reqs
  <2>2. f.offset \in Int
    BY <1>6, <1>9
  <2> QED
    BY <1>5, <1>6, <1>10, <2>1, <2>2 DEF ItemGood
<1>13. /\ Reqs(g, Fresh) = {b.req} /\ b.req \in Reqs(b, c) /\ Fresh \in ClusterType
       /\ Ascends(Fresh.members) /\ g.req \notin MembersOf(Fresh)
  <2>1. Fresh \in ClusterType /\ \A x : x \notin MembersOf(Fresh)
    BY EmptySeq DEF Fresh, ClusterType, Types, MembersOf
  <2>2. Ascends(Fresh.members)
    BY EmptySeq DEF Fresh, Ascends
  <2> QED
    BY <1>6, <2>1, <2>2 DEF Reqs
<1>14. ItemGood(g, Fresh)
  <2>1. Mutual(Reqs(g, Fresh))
    BY <1>13 DEF Mutual
  <2>2. g.offset \in Int
    BY <1>6, <1>9
  <2> QED
    BY <1>6, <1>10, <1>13, <2>1, <2>2 DEF ItemGood
<1>15. PairGood(g, Fresh, f, e) /\ PairGood(f, e, g, Fresh)
  <2>1. Apart(f, g) /\ Apart(g, f)
    BY <1>6, <1>9, <1>10 DEF Apart
  <2> QED
    BY <1>6, <1>9, <1>10, <2>1 DEF PairGood, Clash
<1>16. ASSUME NEW n \in i .. L, n \notin {i, j}
       PROVE  /\ PairGood(f, e, blocks[n], clusters[n])
              /\ PairGood(g, Fresh, blocks[n], clusters[n])
  <2> DEFINE x == blocks[n]
             y == clusters[n]
  <2>1. ItemGood(x, y) /\ PairGood(a, d, x, y) /\ PairGood(b, c, x, y)
    BY <1>8, <1>16
  <2> HIDE DEF x, y
  <2>2. x.offset \in Int /\ End(x) \in Int
    BY <2>1, ItemTypes
  <2>3. ASSUME Clash(f, x) PROVE Clash(a, x) /\ Clash(b, x)
    <3>1. /\ x.offset # -3 /\ ~(End(a) <= x.offset) /\ ~(End(x) <= b.offset)
          /\ Collides(b.type, x.type)
      BY <1>6, <1>10, <2>3 DEF Clash, Apart
    <3>2. ~(End(x) <= a.offset) /\ ~(End(b) <= x.offset)
      BY <1>2, <1>4, <1>9, <2>2, <3>1
    <3> QED
      BY <1>2, <1>4, <3>1, <3>2 DEF Clash, Apart, AdditiveSameBlock
  <2>4. ASSUME Clash(g, x) PROVE Clash(b, x)
    <3>1. /\ x.offset # -3 /\ ~(End(b) <= x.offset) /\ ~(End(x) <= End(a))
          /\ Collides(b.type, x.type)
      BY <1>6, <1>10, <2>4 DEF Clash, Apart
    <3>2. ~(End(x) <= b.offset)
      BY <1>2, <1>9, <2>2, <3>1
    <3> QED
      BY <1>2, <1>4, <3>1, <3>2 DEF Clash, Apart, AdditiveSameBlock
  <2>5. f.offset \in Int /\ g.offset \in Int /\ ~(f.offset < 0) /\ ~(g.offset < 0)
    BY <1>6, <1>9, <1>10
  <2>6. Clash(f, x) => AllCollide(Reqs(f, e), Reqs(x, y))
    BY <1>11, <2>1, <2>3 DEF PairGood, AllCollide
  <2>7. Clash(g, x) => AllCollide(Reqs(g, Fresh), Reqs(x, y))
    BY <1>13, <2>1, <2>4 DEF PairGood, AllCollide
  <2> QED
    BY <2>5, <2>6, <2>7 DEF PairGood, x, y
<1>17. ASSUME NEW q \in i .. L PROVE ItemGood(blocks'[q], clusters'[q])
  <2>1. src[q] \in i .. L
    OBVIOUS
  <2> QED
    BY <1>7, <1>8, <1>12, <1>14, <2>1
<1>18. ASSUME NEW p \in i .. L, NEW q \in i .. L, p # q
       PROVE  PairGood(blocks'[p], clusters'[p], blocks'[q], clusters'[q])
  <2>1. src[p] \in i .. L /\ src[q] \in i .. L /\ src[p] # src[q]
    BY <1>7, <1>18
  <2>2. CASE src[p] \in {i, j} /\ src[q] \in {i, j}
    BY <1>7, <1>15, <2>1, <2>2
  <2>3. CASE src[p] \in {i, j} /\ src[q] \notin {i, j}
    BY <1>7, <1>16, <2>1, <2>3
  <2>4. CASE src[p] \notin {i, j} /\ src[q] \in {i, j}
    BY <1>7, <1>16, <2>1, <2>4, PairSymmetric
  <2>5. CASE src[p] \notin {i, j} /\ src[q] \notin {i, j}
    BY <1>7, <1>8, <2>1, <2>5
  <2> QED
    BY <2>2, <2>3, <2>4, <2>5
<1>19. i' = i /\ Len(blocks') = L
  BY <1>1, <1>7
<1> QED
  BY <1>17, <1>18, <1>19 DEF ListGood

LEMMA CollisionsKept ==
    ASSUME UNCHANGED input, NEW r, NEW s
    PROVE  Collide(r, s)' <=> Collide(r, s)
BY DEF Collide, BlocksOf, SizeCollides, BlocksCollide, input

LEMMA GoodKept ==
    ASSUME UNCHANGED input, ListGood(blocks', clusters', i')
    PROVE  ListGood(blocks, clusters, i)'
<1>1. Blocks' = Blocks
  BY DEF Blocks, BlocksOf, input
<1>2. \A r, s : Collide(r, s)' <=> Collide(r, s)
  BY CollisionsKept
<1> QED
  BY <1>1, <1>2 DEF ListGood, ItemGood, PairGood, AllCollide, Mutual

GoodInv == stage \in {"resizing", "cliques"} => ListGood(blocks, clusters, i)

LEMMA GoodStep ==
    ASSUME NarrowSizes
    PROVE  GivenInv /\ ListInv /\ GoodInv /\ [Next]_vars => GoodInv'
<1> SUFFICES ASSUME GivenInv, ListInv, GoodInv, [Next]_vars, stage' \in {"resizing", "cliques"}
             PROVE  ListGood(blocks, clusters, i)'
  BY DEF GoodInv
<1>1. UNCHANGED input /\ NarrowBlocks
  BY InputKept, Narrow
<1> SUFFICES ListGood(blocks', clusters', i')
  BY <1>1, GoodKept
<1>2. ASSUME UNCHANGED <<blocks, clusters, i>>, stage \in {"resizing", "cliques"}
      PROVE  ListGood(blocks', clusters', i')
  BY <1>2 DEF GoodInv
<1>3. ASSUME Scanning PROVE ListGood(blocks, clusters, i)
  BY <1>3 DEF GoodInv, Scanning
<1>4. CASE UNCHANGED vars
  BY <1>2, <1>4 DEF vars
<1>5. CASE CheckBounds
  BY <1>5 DEF CheckBounds
<1>6. CASE SortBlocks
  BY <1>6, DeclaredGood
<1>7. CASE FindResizingCollisions
  BY <1>2, <1>7 DEF FindResizingCollisions
<1>8. CASE ResizingFails \/ CliqueFails \/ Accept
  BY <1>8 DEF ResizingFails, CliqueFails, Accept, MissingEdge
<1>9. CASE SkipBlock
  BY <1>3, <1>9, NextKeepsGood DEF SkipBlock
<1>10. CASE FinalizeCluster
  <2>1. Scanning /\ blocks' = blocks /\ i' = i + 1
        /\ clusters' = [clusters EXCEPT ![i] = Current]
    BY <1>10 DEF FinalizeCluster
  <2>2. i \in Nat /\ i >= 1 /\ Len(blocks) \in Nat /\ DOMAIN clusters = 1 .. Len(blocks)
    BY ListTypes DEF ListInv
  <2>3. \A n \in i + 1 .. Len(blocks) : n \in 1 .. Len(blocks) /\ n # i
    BY <2>2
  <2>4. \A n \in i + 1 .. Len(blocks) : clusters'[n] = clusters[n]
    BY <2>1, <2>2, <2>3
  <2> QED
    BY <1>3, <2>1, <2>4, NextKeepsGood
<1>11. CASE MergeBlock
  <2>1. Scanning
    BY <1>11 DEF MergeBlock
  <2> QED
    BY <1>1, <1>3, <1>11, <2>1, MergeKeepsGood
<1>12. CASE SplitBlock
  <2>1. Scanning
    BY <1>12 DEF SplitBlock
  <2> QED
    BY <1>1, <1>3, <1>12, <2>1, SplitKeepsGood
<1> QED
  BY <1>4, <1>5, <1>6, <1>7, <1>8, <1>9, <1>10, <1>11, <1>12 DEF Next

\* Edges that a dag of all collisions has.
Justified(E) ==
    \A e \in E : \E r, s \in Request : e = <<r, s>> /\ r < s /\ Collide(r, s)

LEMMA OrderedJustified ==
    ASSUME NEW r \in Request, NEW s \in Request, Collide(r, s)
    PROVE  \E u, v \in Request : Ordered(r, s) = <<u, v>> /\ u < v /\ Collide(u, v)
<1>1. r \in Int /\ s \in Int /\ r # s
  BY RequestsInt DEF Collide
<1>2. CASE r < s
  BY <1>2 DEF Ordered
<1>3. CASE s < r
  <2>1. Ordered(r, s) = <<s, r>>
    BY <1>1, <1>3 DEF Ordered
  <2> QED
    BY <1>3, <2>1, CollideSymmetric
<1> QED
  BY <1>1, <1>2, <1>3

LEMMA DependencyJustified ==
    ASSUME NEW c \in ClusterType, NEW u \in Request, AllCollide(MembersOf(c), {u})
    PROVE  Justified(DependencyEdges(c, u))
<1>1. \A m \in MembersOf(c) : m \in Request /\ m \in Int /\ Collide(m, u) /\ m # u
  <2>1. c.members \in Seq(Request)
    BY DEF ClusterType
  <2>2. \A m \in MembersOf(c) : m \in Request
    BY <2>1, ElementOfSeq DEF MembersOf
  <2> QED
    BY <2>2, RequestsInt DEF AllCollide, Collide
<1>2. u \in Int
  BY RequestsInt
<1> DEFINE le == {m \in MembersOf(c) : m <= u}
           gt == MembersOf(c) \ le
<1> SUFFICES ASSUME NEW e \in DependencyEdges(c, u)
             PROVE  \E r, s \in Request : e = <<r, s>> /\ r < s /\ Collide(r, s)
  BY DEF Justified
<1>3. \/ \E m \in MembersOf(c) : e = Ordered(m, u)
      \/ \E p \in le : e = <<p, u>>
      \/ \E s \in gt : e = <<u, s>>
  BY DEF DependencyEdges
<1>4. CASE \E m \in MembersOf(c) : e = Ordered(m, u)
  BY <1>1, <1>4, OrderedJustified
<1>5. CASE \E p \in le : e = <<p, u>>
  <2>1. PICK p \in le : e = <<p, u>>
    BY <1>5
  <2>2. p \in Request /\ p < u /\ Collide(p, u)
    BY <1>1, <1>2, <2>1
  <2> QED
    BY <2>1, <2>2
<1>6. CASE \E s \in gt : e = <<u, s>>
  <2>1. PICK s \in gt : e = <<u, s>>
    BY <1>6
  <2>2. s \in Request /\ u < s /\ Collide(s, u)
    BY <1>1, <1>2, <2>1
  <2> QED
    BY <2>1, <2>2, CollideSymmetric
<1> QED
  BY <1>3, <1>4, <1>5, <1>6

\* What one turn of findCollisionCliques asks the dag for.
LEMMA TurnJustified ==
    ASSUME GivenInv, ListInv, ListGood(blocks, clusters, i), Scanning, ~Skipped(blocks[i])
    PROVE  Justified(ScanEdges) /\ Justified(FinalizeEdges(Current))
<1> DEFINE a == blocks[i]
           d == clusters[i]
<1>1. i \in 1 .. Len(blocks) /\ i \in i .. Len(blocks)
  BY CurrentType, ListTypes
<1>2. ItemGood(a, d)
  BY <1>1 DEF ListGood
<1>3. /\ Current \in ClusterType /\ Current.type = a.type
      /\ MembersOf(Current) = Reqs(a, d)
      /\ a.type = "writable" => Ascends(Current.members)
  BY <1>2, CurrentGood
<1>4. Justified(ScanEdges)
  <2>1. ASSUME NEW j \in Compared, Collides(a.type, blocks[j].type)
        PROVE  Justified(DependencyEdges(Current, blocks[j].req))
    <3> DEFINE b == blocks[j]
    <3>1. j \in Scanned /\ ~Absorbs(j)
      <4>1. j \in Scanned /\ \A k \in i + 1 .. j : ~Absorbs(k)
        BY DEF Compared
      <4>2. j \in i + 1 .. j
        BY <4>1, ScannedFacts, ListTypes
      <4> QED
        BY <4>1, <4>2
    <3>2. /\ ItemGood(b, clusters[j]) /\ PairGood(a, d, b, clusters[j])
          /\ a.offset # -3 /\ b.offset # -3 /\ ~Apart(a, b)
      BY <3>1, ScannedMeets
    <3>3. ~AdditiveSameBlock(a, b)
      <4> SUFFICES ASSUME AdditiveSameBlock(a, b) PROVE FALSE
        OBVIOUS
      <4>1. a.type = "int_additive" /\ b.type = a.type /\ a.offset = b.offset /\ a.size = b.size
        BY DEF AdditiveSameBlock
      <4>2. /\ a.offset \in Int /\ a.size \in Int
            /\ a.offset < 0 => a.offset \in {-1, -2, -3}
            /\ a.offset = -1 => a.type = "writable"
            /\ a.offset = -2 => a.type = "read_only"
        BY <1>2, ItemTypes
      <4>3. a.offset >= 0
        BY <3>2, <4>1, <4>2
      <4>4. CanMerge(a, b) /\ End(a) <= CollidingEnd(b)
        BY <4>1, <4>2, <4>3 DEF CanMerge, End, CollidingEnd
      <4> QED
        BY <3>1, <4>4 DEF Absorbs
    <3>4. Clash(a, b)
      BY <2>1, <3>2, <3>3 DEF Clash
    <3>5. AllCollide(MembersOf(Current), {b.req}) /\ b.req \in Request
      BY <1>3, <3>2, <3>4, ItemTypes DEF PairGood, AllCollide, Reqs
    <3> QED
      BY <1>3, <3>5, DependencyJustified
  <2> QED
    BY <2>1 DEF ScanEdges, Justified
<1>5. Justified(FinalizeEdges(Current))
  <2> SUFFICES ASSUME NEW e \in FinalizeEdges(Current)
               PROVE  \E r, s \in Request : e = <<r, s>> /\ r < s /\ Collide(r, s)
    BY DEF Justified
  <2> DEFINE m == Current.members
  <2>1. /\ a.type = "writable"
        /\ \E k \in 1 .. Len(m) - 1 : e = <<m[k], m[k + 1]>>
    BY <1>3 DEF FinalizeEdges
  <2>2. PICK k \in 1 .. Len(m) - 1 : e = <<m[k], m[k + 1]>>
    BY <2>1
  <2>3. m \in Seq(Request) /\ Len(m) \in Nat
    BY <1>3, LenProperties DEF ClusterType
  <2>4. k \in 1 .. Len(m) /\ k + 1 \in 1 .. Len(m) /\ k < k + 1
    BY <2>3
  <2>5. m[k] \in Request /\ m[k + 1] \in Request /\ m[k] < m[k + 1]
        /\ m[k] \in MembersOf(Current) /\ m[k + 1] \in MembersOf(Current)
    BY <1>3, <2>1, <2>3, <2>4, ElementOfSeq DEF Ascends, MembersOf
  <2>6. Collide(m[k], m[k + 1])
    <3>1. m[k] # m[k + 1]
      BY <2>5, RequestsInt
    <3> QED
      BY <1>2, <1>3, <2>1, <2>5, <3>1 DEF ItemGood, Mutual
  <2> QED
    BY <2>2, <2>5, <2>6
<1> QED
  BY <1>4, <1>5

LEMMA ResizingJustified ==
    ASSUME GivenInv
    PROVE  Justified(ResizingEdges)
<1> SUFFICES ASSUME NEW e \in ResizingEdges
             PROVE  \E r, s \in Request : e = <<r, s>> /\ r < s /\ Collide(r, s)
  BY DEF Justified
<1>1. PICK q \in Accesses \X Writers :
         ResizingCollision(q[1], q[2]) /\ e = Ordered(q[1].req, q[2].req)
  BY DEF ResizingEdges
<1> DEFINE a == q[1]
           w == q[2]
<1>2. a \in Blocks /\ a.offset >= 0 /\ w \in Blocks /\ w.offset = -1
  BY DEF Accesses, Writers
<1>3. ResizingCollision(a, w) /\ e = Ordered(a.req, w.req)
  BY <1>1
<1> HIDE DEF a, w
<1>4. /\ a \in BlocksOf(a.req) /\ w \in BlocksOf(w.req) /\ a.req \in Request /\ w.req \in Request
      /\ a.offset \in Int /\ a.size \in Int /\ w.size \in Int
  BY <1>2, BlockFacts DEF BlockType
<1>5. a.req # w.req /\ SizeCollides(a, w)
  BY <1>2, <1>3, <1>4 DEF ResizingCollision, SizeCollides
<1>6. Collide(a.req, w.req)
  BY <1>4, <1>5 DEF Collide
<1> QED
  BY <1>3, <1>4, <1>6, OrderedJustified

MissingCollision ==
    \E r, s \in Request : r < s /\ Collide(r, s) /\ <<r, s>> \notin dag

LEMMA MissingJustified ==
    ASSUME NEW E, Justified(E), ~Verify(E)
    PROVE  MissingCollision
BY DEF Justified, Verify, MissingCollision

EdgeInv ==
    /\ Justified(checked)
    /\ RejectedForCause

LEMMA EdgeStep ==
    GivenInv /\ ListInv /\ GoodInv /\ EdgeInv /\ [Next]_vars => EdgeInv'
<1> SUFFICES ASSUME GivenInv, ListInv, GoodInv, EdgeInv, [Next]_vars
             PROVE  EdgeInv'
  OBVIOUS
<1>1. UNCHANGED input
  BY InputKept
<1>2. \A r, s : Collide(r, s)' <=> Collide(r, s)
  BY <1>1, CollisionsKept
<1>3. ASSUME Scanning, ~Skipped(blocks[i])
      PROVE  Justified(ScanEdges) /\ Justified(FinalizeEdges(Current))
  BY <1>3, TurnJustified DEF GoodInv, Scanning
<1>4. Justified(checked')
  <2>1. ASSUME UNCHANGED checked PROVE Justified(checked')
    BY <2>1 DEF EdgeInv
  <2>2. CASE UNCHANGED vars \/ CheckBounds \/ SortBlocks \/ SkipBlock \/ Accept
    BY <2>1, <2>2 DEF vars, CheckBounds, SortBlocks, SkipBlock, Accept
  <2>3. CASE ResizingFails \/ CliqueFails
    BY <2>1, <2>3 DEF ResizingFails, CliqueFails, MissingEdge
  <2>4. CASE FindResizingCollisions
    BY <2>4, ResizingJustified DEF FindResizingCollisions, EdgeInv, Justified
  <2>5. CASE FinalizeCluster
    BY <1>3, <2>5 DEF FinalizeCluster, EdgeInv, Justified
  <2>6. CASE MergeBlock
    BY <1>3, <2>6 DEF MergeBlock, EdgeInv, Justified
  <2>7. CASE SplitBlock
    BY <1>3, <2>7 DEF SplitBlock, EdgeInv, Justified
  <2> QED
    BY <2>2, <2>3, <2>4, <2>5, <2>6, <2>7 DEF Next
<1>5. Justified(checked)'
  BY <1>2, <1>4 DEF Justified
<1>6. ASSUME stage' = "invalid_argument" PROVE MissingCollision
  <2>1. CASE UNCHANGED vars
    BY <1>6, <2>1 DEF vars, EdgeInv, RejectedForCause, MissingCollision
  <2>2. CASE ResizingFails
    BY <2>2, ResizingJustified, MissingJustified DEF ResizingFails
  <2>3. CASE CliqueFails
    BY <1>3, <2>3, MissingJustified DEF CliqueFails
  <2>4. CASE CheckBounds \/ SortBlocks \/ FindResizingCollisions \/ Accept
    BY <1>6, <2>4 DEF CheckBounds, SortBlocks, FindResizingCollisions, Accept
  <2>5. CASE SkipBlock \/ FinalizeCluster \/ MergeBlock \/ SplitBlock
    BY <1>6, <2>5 DEF SkipBlock, FinalizeCluster, MergeBlock, SplitBlock, Scanning
  <2> QED
    BY <2>1, <2>2, <2>3, <2>4, <2>5 DEF Next
<1>7. RejectedForCause'
  BY <1>1, <1>2, <1>6 DEF RejectedForCause, MissingCollision, input
<1> QED
  BY <1>5, <1>7 DEF EdgeInv

LEMMA EdgesHold ==
    ASSUME NarrowSizes
    PROVE  Spec => []EdgeInv
<1>1. Init => GoodInv /\ EdgeInv
  BY DEF Init, GoodInv, EdgeInv, Justified, RejectedForCause
<1>2. GivenInv /\ ListInv /\ GoodInv /\ [Next]_vars => GoodInv'
  BY GoodStep
<1>3. Spec => []GivenInv
  BY GivenHolds
<1>4. Spec => []ListInv
  BY ListHolds
<1> QED
  BY <1>1, <1>2, <1>3, <1>4, EdgeStep, PTL DEF Spec

\* The cluster product asks for no edge that is not a collision: whatever was merged and
\* split, no cluster holds a request that has no access there.
THEOREM OnlyCollisionsChecked ==
    ASSUME NarrowSizes
    PROVE  Spec => []Precise
<1>1. EdgeInv => Precise
  BY DEF EdgeInv, Justified, Precise
<1>2. Spec => []EdgeInv
  BY EdgesHold
<1> QED
  BY <1>1, <1>2, PTL

\* A dag with an edge for every collision is never rejected.
THEOREM RejectionHasCause ==
    ASSUME NarrowSizes
    PROVE  Spec => []RejectedForCause
<1>1. EdgeInv => RejectedForCause
  BY DEF EdgeInv
<1>2. Spec => []EdgeInv
  BY EdgesHold
<1> QED
  BY <1>1, <1>2, PTL

-----------------------------------------------------------------------------
(* Comparing every two blocks *)

\* What was found before findResizingCollisions is called.
SortedInv ==
    /\ stage \in {"sorting", "resizing"} => \A b \in Blocks : Resizes(b) => ~BadBounds(b)
    /\ stage = "resizing" => Lists(blocks, Blocks, Precedes)

LEMMA SortedInvStep == GivenInv /\ ListInv /\ SortedInv /\ [Next]_vars => SortedInv'
<1> SUFFICES ASSUME GivenInv, ListInv, SortedInv, [Next]_vars
             PROVE  SortedInv'
  OBVIOUS
<1>1. UNCHANGED input /\ Blocks' = Blocks /\ Precedes' = Precedes
  BY InputKept, BlocksKept
<1>2. ASSUME NEW b PROVE BadBounds(b)' <=> BadBounds(b)
  BY <1>1 DEF BadBounds, input
<1>3. CASE UNCHANGED vars
  BY <1>1, <1>2, <1>3 DEF SortedInv, vars, Resizes
<1>4. CASE CheckBounds
  BY <1>1, <1>2, <1>4 DEF SortedInv, CheckBounds, Resizes
<1>5. CASE SortBlocks
  BY <1>1, <1>2, <1>5, SortedAfterSort DEF SortedInv, SortBlocks, Resizes
<1>6. CASE FindResizingCollisions \/ ResizingFails \/ CliqueFails \/ Accept
  BY <1>6 DEF SortedInv, FindResizingCollisions, ResizingFails, CliqueFails, Accept, MissingEdge
<1>7. CASE SkipBlock \/ FinalizeCluster \/ MergeBlock \/ SplitBlock
  BY <1>7 DEF SortedInv, SkipBlock, FinalizeCluster, MergeBlock, SplitBlock, Scanning
<1> QED
  BY <1>3, <1>4, <1>5, <1>6, <1>7 DEF Next

LEMMA Shrinks ==
    ASSUME ShrinksWithinBounds, GivenInv, SortedInv, stage = "resizing",
           NEW b \in Blocks, b.offset = -1, b.size <= 0
    PROVE  -b.size >= bounds.lower
<1>1. PICK given \in Inputs : accessMap = given.accessMap /\ bounds = given.bounds
  BY DEF GivenInv
<1>2. PICK r \in Request : b \in BlocksOf(r)
  BY DEF Blocks
<1>3. PICK d \in accessMap[r] :
         b = [offset |-> d.offset, size |-> d.size, type |-> d.type, req |-> r]
  BY <1>2 DEF BlocksOf
<1>4. d.offset = -1 /\ d.size = b.size
  BY <1>3
<1>5. b.size \in Int /\ bounds.lower \in Nat /\ ~BadBounds(b)
  BY BlockFacts DEF BlockType, GivenInv, SortedInv, Resizes
<1>6. b.size < 0 => -b.size >= bounds.lower
  BY <1>1, <1>4 DEF ShrinksWithinBounds
<1>7. b.size = 0 => -b.size >= bounds.lower
  BY <1>5 DEF BadBounds
<1> QED
  BY <1>5, <1>6, <1>7

LEMMA FoundJustified ==
    ASSUME GivenInv, SortedInv, stage = "resizing"
    PROVE  Justified(FoundCollisions)
<1>1. Lists(blocks, Blocks, Precedes)
  BY DEF SortedInv
<1>2. Justified(PairEdges)
  <2> SUFFICES ASSUME NEW e \in PairEdges
               PROVE  \E r, s \in Request : e = <<r, s>> /\ r < s /\ Collide(r, s)
    BY DEF Justified
  <2>1. PICK q \in (1 .. Len(blocks)) \X (1 .. Len(blocks)) :
           /\ q[1] < q[2] /\ blocks[q[1]].offset # -3
           /\ blocks[q[2]].offset < End(blocks[q[1]])
           /\ Collides(blocks[q[1]].type, blocks[q[2]].type)
           /\ ~AdditiveSameBlock(blocks[q[1]], blocks[q[2]])
           /\ e = Ordered(blocks[q[1]].req, blocks[q[2]].req)
    BY DEF PairEdges
  <2> DEFINE a == blocks[q[1]]
             b == blocks[q[2]]
  <2>2. a \in Blocks /\ b \in Blocks /\ <<a, b>> \in Precedes
    BY <1>1, <2>1, ElementOfSeq DEF Lists
  <2>3. /\ a.offset # -3 /\ b.offset < End(a) /\ Collides(a.type, b.type)
        /\ ~AdditiveSameBlock(a, b) /\ e = Ordered(a.req, b.req)
    BY <2>1
  <2> HIDE DEF a, b
  <2>4. a # b
    BY <2>2, BeforeOrders DEF Orders
  <2>5. /\ a.offset \in Int /\ b.offset \in Int /\ a.size \in Int /\ b.size \in Int
        /\ a.offset >= -3 /\ b.offset >= -3
        /\ b.offset >= 0 => b.size > 0
        /\ a.req \in Request /\ b.req \in Request
    BY <2>2, BlockFacts DEF BlockType
  <2>6. a.offset <= b.offset
    BY <2>2, <2>5, PrecedesIs DEF Before
  <2>7. End(a) \in Int /\ End(b) \in Int /\ (b.offset # -3 => b.offset < End(b))
    <3>1. \A x : x.offset \in Int /\ x.size \in Int => End(x) \in Int
      BY DEF End
    <3>2. b.offset # -3 => b.offset < End(b)
      BY <2>5, SMTT(30) DEF End
    <3> QED
      BY <2>5, <3>1, <3>2
  <2>8. Clash(a, b)
    BY <2>3, <2>5, <2>6, <2>7 DEF Clash, Apart
  <2>9. Collide(a.req, b.req)
    BY <2>2, <2>4, <2>8, DeclaredClash
  <2> QED
    BY <2>3, <2>5, <2>9, OrderedJustified
<1> QED
  BY <1>2, ResizingJustified DEF FoundCollisions, Justified

LEMMA OrderedEither ==
    ASSUME NEW r \in Request, NEW s \in Request, r < s
    PROVE  Ordered(r, s) = <<r, s>> /\ Ordered(s, r) = <<r, s>>
<1>1. r \in Int /\ s \in Int /\ ~(s < r)
  BY RequestsInt
<1> QED
  BY <1>1 DEF Ordered

\* Whichever of two clashing blocks comes first, their requests are compared.
LEMMA ClashFound ==
    ASSUME GivenInv, SortedInv, stage = "resizing",
           NEW a \in Blocks, NEW b \in Blocks, a.req < b.req, Clash(a, b)
    PROVE  <<a.req, b.req>> \in PairEdges
<1>1. Lists(blocks, Blocks, Precedes)
  BY DEF SortedInv
<1>2. a.req \in Request /\ b.req \in Request
  BY BlockFacts DEF BlockType
<1>3. PICK m \in 1 .. Len(blocks) : blocks[m] = a
  BY <1>1 DEF Lists
<1>4. PICK n \in 1 .. Len(blocks) : blocks[n] = b
  BY <1>1 DEF Lists
<1>5. m # n
  <2>1. a.req \in Int /\ b.req \in Int /\ a.req < b.req
    BY <1>2, RequestsInt
  <2>2. a # b
    BY <2>1
  <2> QED
    BY <1>3, <1>4, <2>2
<1>6. m < n \/ n < m
  <2>1. Len(blocks) \in Nat
    BY <1>1, LenProperties DEF Lists
  <2> QED
    BY <1>5, <2>1
<1>7. /\ a.offset # -3 /\ b.offset # -3 /\ Collides(a.type, b.type) /\ Collides(b.type, a.type)
      /\ ~AdditiveSameBlock(a, b) /\ ~AdditiveSameBlock(b, a)
      /\ ~(End(a) <= b.offset) /\ ~(End(b) <= a.offset)
  BY DEF Clash, Apart, Collides, AdditiveSameBlock
<1>8. b.offset < End(a) /\ a.offset < End(b)
  <2>1. /\ a.offset \in Int /\ b.offset \in Int /\ a.size \in Int /\ b.size \in Int
    BY BlockFacts DEF BlockType
  <2>2. End(a) \in Int /\ End(b) \in Int
    BY <2>1 DEF End
  <2> QED
    BY <1>7, <2>1, <2>2
<1> DEFINE Hit(q) == /\ q[1] < q[2] /\ blocks[q[1]].offset # -3
                     /\ blocks[q[2]].offset < End(blocks[q[1]])
                     /\ Collides(blocks[q[1]].type, blocks[q[2]].type)
                     /\ ~AdditiveSameBlock(blocks[q[1]], blocks[q[2]])
<1>9. PairEdges = {Ordered(blocks[p[1]].req, blocks[p[2]].req) :
                     p \in {q \in (1 .. Len(blocks)) \X (1 .. Len(blocks)) : Hit(q)}}
  BY DEF PairEdges
<1>10. CASE m < n
  <2>1. Hit(<<m, n>>) /\ <<m, n>> \in (1 .. Len(blocks)) \X (1 .. Len(blocks))
    BY <1>3, <1>4, <1>7, <1>8, <1>10
  <2> HIDE DEF Hit
  <2>2. Ordered(blocks[m].req, blocks[n].req) \in PairEdges
    BY <1>9, <2>1
  <2> QED
    BY <1>2, <1>3, <1>4, <2>2, OrderedEither
<1>11. CASE n < m
  <2>1. Hit(<<n, m>>) /\ <<n, m>> \in (1 .. Len(blocks)) \X (1 .. Len(blocks))
    BY <1>3, <1>4, <1>7, <1>8, <1>11
  <2> HIDE DEF Hit
  <2>2. Ordered(blocks[n].req, blocks[m].req) \in PairEdges
    BY <1>9, <2>1
  <2> QED
    BY <1>2, <1>3, <1>4, <2>2, OrderedEither
<1> QED
  BY <1>6, <1>10, <1>11

\* The resizing of w may be seen by block x.
SeesSize(x, w) == x.offset >= 0 /\ x.req # w.req /\ SizeCollides(x, w)

\* A collision of ordinary blocks, or one with a reader or writer of the size, is a clash
\* of two blocks.
LEMMA CollisionMeets ==
    ASSUME GivenInv, NEW r \in Request, NEW s \in Request, Collide(r, s)
    PROVE  \E a, b \in Blocks : /\ a.req = r /\ b.req = s
                                /\ Clash(a, b) \/ SeesSize(a, b) \/ SeesSize(b, a)
<1>1. PICK a \in BlocksOf(r), b \in BlocksOf(s) :
         BlocksCollide(a, b) \/ SizeCollides(a, b) \/ SizeCollides(b, a)
  BY DEF Collide
<1>2. a \in Blocks /\ b \in Blocks /\ a.req = r /\ b.req = s
  BY <1>1 DEF Blocks, BlocksOf
<1>3. /\ a.offset \in Int /\ a.size \in Int /\ a.type \in Types
      /\ b.offset \in Int /\ b.size \in Int /\ b.type \in Types
      /\ a.offset = -1 => a.type = "writable"
      /\ a.offset = -2 => a.type = "read_only"
      /\ b.offset = -1 => b.type = "writable"
      /\ b.offset = -2 => b.type = "read_only"
  BY <1>2, BlockFacts DEF BlockType
<1>4. r # s
  BY DEF Collide
<1> SUFFICES Clash(a, b) \/ SeesSize(a, b) \/ SeesSize(b, a)
  BY <1>2
<1>5. CASE BlocksCollide(a, b)
  <2>1. /\ a.offset >= 0 /\ b.offset >= 0 /\ Overlap(a, b)
        /\ MayWrite(a) \/ MayWrite(b)
        /\ a.type # "check_only" /\ b.type # "check_only"
        /\ ~AdditiveSameBlock(a, b)
    BY <1>5 DEF BlocksCollide, AdditiveSameBlock
  <2>2. ~Apart(a, b)
    BY <1>3, <2>1 DEF Apart, End, Overlap
  <2>3. Collides(a.type, b.type)
    BY <2>1 DEF Collides, MayWrite
  <2> QED
    BY <1>3, <2>1, <2>2, <2>3 DEF Clash
<1>6. CASE a.offset \in {-1, -2} /\ b.offset \in {-1, -2} /\ (a.offset = -1 \/ b.offset = -1)
  <2>1. ~Apart(a, b)
    BY <1>3, <1>6 DEF Apart, End
  <2>2. Collides(a.type, b.type) /\ ~AdditiveSameBlock(a, b)
    BY <1>3, <1>6 DEF Collides, AdditiveSameBlock
  <2> QED
    BY <1>3, <1>6, <2>1, <2>2 DEF Clash
<1>7. CASE SizeCollides(a, b)
  <2>1. b.offset = -1 /\ (a.offset \in {-1, -2} \/ a.offset >= 0)
    BY <1>7 DEF SizeCollides
  <2> QED
    BY <1>2, <1>4, <1>6, <1>7, <2>1 DEF SeesSize
<1>8. CASE SizeCollides(b, a)
  <2>1. a.offset = -1 /\ (b.offset \in {-1, -2} \/ b.offset >= 0)
    BY <1>8 DEF SizeCollides
  <2> QED
    BY <1>2, <1>4, <1>6, <1>8, <2>1 DEF SeesSize
<1> QED
  BY <1>1, <1>5, <1>7, <1>8

\* Any other collision is found by findResizingCollisions.
LEMMA ResizingFound ==
    ASSUME ShrinksWithinBounds, GivenInv, SortedInv, stage = "resizing",
           NEW x \in Blocks, NEW w \in Blocks, SeesSize(x, w)
    PROVE  Ordered(x.req, w.req) \in ResizingEdges
<1>1. x.req # w.req /\ SizeCollides(x, w) /\ x.offset >= 0
  BY DEF SeesSize
<1>2. /\ w.offset = -1 /\ x.offset \in Int /\ x.size \in Int /\ w.size \in Int
      /\ bounds.lower \in Nat
  BY <1>1, BlockFacts DEF BlockType, SizeCollides, GivenInv
<1>3. w.size <= 0 => -w.size >= bounds.lower
  BY <1>2, Shrinks
<1>4. ResizingCollision(x, w)
  BY <1>1, <1>2, <1>3 DEF SizeCollides, ResizingCollision
<1>5. <<x, w>> \in Accesses \X Writers
  BY <1>1, <1>2 DEF Accesses, Writers
<1> DEFINE Hit(q) == ResizingCollision(q[1], q[2])
<1>6. ResizingEdges = {Ordered(p[1].req, p[2].req) : p \in {q \in Accesses \X Writers : Hit(q)}}
  BY DEF ResizingEdges
<1>7. Hit(<<x, w>>)
  BY <1>4
<1> HIDE DEF Hit
<1> QED
  BY <1>5, <1>6, <1>7

LEMMA CollisionFound ==
    ASSUME ShrinksWithinBounds, GivenInv, SortedInv, stage = "resizing",
           NEW r \in Request, NEW s \in Request, r < s, Collide(r, s)
    PROVE  <<r, s>> \in FoundCollisions
<1>1. PICK a \in Blocks, b \in Blocks : /\ a.req = r /\ b.req = s
                                        /\ Clash(a, b) \/ SeesSize(a, b) \/ SeesSize(b, a)
  BY CollisionMeets
<1>2. Ordered(r, s) = <<r, s>> /\ Ordered(s, r) = <<r, s>>
  BY OrderedEither
<1>3. CASE Clash(a, b)
  BY <1>1, <1>3, ClashFound DEF FoundCollisions
<1>4. CASE SeesSize(a, b) \/ SeesSize(b, a)
  BY <1>1, <1>2, <1>4, ResizingFound DEF FoundCollisions
<1> QED
  BY <1>1, <1>3, <1>4

\* findCollisions finds the pairs of requests that collide, all of them and no others.
THEOREM PairwiseIsExact ==
    ASSUME ShrinksWithinBounds
    PROVE  Spec => []PairwiseExact
<1>1. Init => SortedInv
  BY DEF Init, SortedInv
<1>2. Spec => [](GivenInv /\ SortedInv)
  <2>1. Spec => []GivenInv
    BY GivenHolds
  <2>2. Spec => []ListInv
    BY ListHolds
  <2> QED
    BY <1>1, <2>1, <2>2, SortedInvStep, PTL DEF Spec
<1>3. GivenInv /\ SortedInv => PairwiseExact
  <2> SUFFICES ASSUME GivenInv, SortedInv, stage = "resizing"
               PROVE  FoundCollisions = {p \in Request \X Request : p[1] < p[2] /\ Collide(p[1], p[2])}
    BY DEF PairwiseExact
  <2>1. ASSUME NEW e \in FoundCollisions
        PROVE  e \in Request \X Request /\ e[1] < e[2] /\ Collide(e[1], e[2])
    <3>1. PICK r \in Request, s \in Request : e = <<r, s>> /\ r < s /\ Collide(r, s)
      BY FoundJustified DEF Justified
    <3> QED
      BY <3>1
  <2>2. ASSUME NEW p \in Request \X Request, p[1] < p[2], Collide(p[1], p[2])
        PROVE  p \in FoundCollisions
    <3>1. p[1] \in Request /\ p[2] \in Request /\ p = <<p[1], p[2]>>
      OBVIOUS
    <3>2. <<p[1], p[2]>> \in FoundCollisions
      BY <2>2, <3>1, CollisionFound
    <3> QED
      BY <3>1, <3>2
  <2> QED
    BY <2>1, <2>2
<1> QED
  BY <1>2, <1>3, PTL

-----------------------------------------------------------------------------
(* Soundness: what the verification has still to compare *)

\* A piece of a block; the blocks of the chunk's size and the additive ones stay whole.
PieceOf(b, o) ==
    /\ b.type = o.type /\ b.req = o.req /\ o.offset # -3
    /\ o.offset <= b.offset /\ End(b) <= End(o)
    /\ b.offset < 0 \/ b.type = "int_additive" => b = o

\* The requests that are in one clique with b, whose path is not yet checked.
Clique(b, c) == IF b.type = "writable" /\ b.offset # -3 THEN Reqs(b, c) ELSE {}

\* With a request, S holds those that come later in the clique.
HoldsLater(S, C) == \A x, y \in C : x < y /\ x \in S => y \in S

\* A set of requests that holds what comes after its elements by the edges that were seen,
\* and by the paths of the cliques that are still to be finalized.
Closed(S) ==
    /\ \A e \in checked : e[1] \in S => e[2] \in S
    /\ \A n \in i .. Len(blocks) : HoldsLater(S, Clique(blocks[n], clusters[n]))

Follows(r, s) == \A S \in SUBSET Request : Closed(S) /\ r \in S => s \in S

\* The later of two requests comes after the other, or will.
Linked(r, s) == (r < s => Follows(r, s)) /\ (s < r => Follows(s, r))

\* Pieces of two blocks are still to be compared.
AwaitsPieces(a, b) ==
    \E p, q \in i .. Len(blocks) :
        /\ p # q /\ PieceOf(blocks[p], a) /\ PieceOf(blocks[q], b)
        /\ Clash(blocks[p], blocks[q])

\* The cluster c of an item has taken in block a, or a piece of it.
Took(item, c, a) ==
    /\ a.req \in MembersOf(c) /\ a.req # item.req
    /\ a.type = item.type /\ a.offset <= item.offset
    /\ a.type = "int_additive" => a.offset = item.offset /\ a.size = item.size

\* A cluster that has taken in block a is still to be compared with a piece of block b.
AwaitsCluster(a, b) ==
    \E p, q \in i .. Len(blocks) :
        /\ p < q /\ Took(blocks[p], clusters[p], a) /\ PieceOf(blocks[q], b)
        /\ Clash(blocks[p], blocks[q]) /\ Clash(a, blocks[q])

Pending(a, b) == AwaitsPieces(a, b) \/ AwaitsCluster(a, b) \/ AwaitsCluster(b, a)

\* Every two blocks that clash are connected, or will still be compared.
NothingForgotten ==
    \A a, b \in Blocks : a # b /\ Clash(a, b) => Linked(a.req, b.req) \/ Pending(a, b)

\* A block of some type ends at an offset, and begins at another or before.
CutAt(type, at, from) ==
    \E e \in Blocks : e.offset >= 0 /\ e.type = type /\ End(e) = at /\ e.offset <= from

\* The front and the remainder of a block that was split: it is cut where another ends
\* that begins before it.
IsFront(b, o) == b.offset = o.offset /\ CutAt(b.type, End(b), b.offset)
IsRest(b, o) == o.offset < b.offset /\ End(b) = End(o) /\ CutAt(b.type, b.offset, o.offset)

\* Blocks are split at most once.
SplitOnce(b) == \E o \in Blocks : PieceOf(b, o) /\ (b = o \/ IsFront(b, o) \/ IsRest(b, o))

Remains(b) == \E o \in Blocks : PieceOf(b, o) /\ IsRest(b, o)

\* The items of one request have no byte in common, and remainders come before the items
\* that begin where they begin.
PiecesGood(bs, first) ==
    /\ \A n \in first .. Len(bs) : bs[n].offset # -3 => SplitOnce(bs[n])
    /\ \A p, q \in first .. Len(bs) :
          p # q /\ bs[p].req = bs[q].req /\ bs[p].offset # -3 /\ bs[q].offset # -3
             => Apart(bs[p], bs[q])
    /\ \A p, q \in first .. Len(bs) :
          p < q /\ bs[p].offset = bs[q].offset /\ Remains(bs[q]) => Remains(bs[p])

LEMMA BlockItem ==
    ASSUME GivenInv, NEW b \in Blocks
    PROVE  /\ b \in BlockType
           /\ b.offset \in Int /\ b.size \in Int /\ b.type \in Types /\ b.req \in Request
           /\ End(b) \in Int
           /\ b.offset # -3 => b.offset < End(b) /\ b.offset >= -2
           /\ b.offset >= 0 => End(b) = BlockEnd(b) /\ b.size > 0
           /\ b.offset \in {-1, -2} => End(b) = 0
           /\ b.offset < 0 => b.offset \in {-1, -2, -3}
           /\ b.offset = -1 => b.type = "writable"
           /\ b.offset = -2 => b.type = "read_only"
<1>1. /\ b \in BlockType
      /\ b.offset >= -3
      /\ b.offset = -1 => b.type = "writable"
      /\ b.offset = -2 => b.type = "read_only"
      /\ b.offset >= 0 => b.size > 0
  BY BlockFacts
<1>2. b.offset \in Int /\ b.size \in Int /\ b.type \in Types /\ b.req \in Request
  BY <1>1 DEF BlockType
<1> QED
  BY <1>1, <1>2 DEF End, BlockEnd

LEMMA OneBlock ==
    ASSUME GivenInv, NEW a \in Blocks, NEW b \in Blocks, a.req = b.req,
           a.offset # -3, b.offset # -3, ~Apart(a, b)
    PROVE  a = b
<1> SUFFICES ASSUME a # b PROVE FALSE
  OBVIOUS
<1>1. /\ a.offset >= 0 \/ b.offset >= 0
      /\ a.offset >= 0 /\ b.offset >= 0 =>
            a.offset + a.size <= b.offset \/ b.offset + b.size <= a.offset
  BY SameRequest
<1> QED
  BY <1>1, BlockItem DEF Apart, BlockEnd

\* Three blocks of one type that have a byte in common, where the last one begins.
LEMMA ThreeAtOnce ==
    ASSUME GivenInv, ~Crowded, NEW a \in Blocks, NEW b \in Blocks, NEW c \in Blocks,
           a.type = c.type, b.type = c.type, c.type \in {"writable", "read_only"},
           a.offset >= 0, b.offset >= 0, c.offset >= 0,
           a.offset <= c.offset, b.offset <= c.offset,
           c.offset < End(a), c.offset < End(b), a # c, b # c
    PROVE  End(a) = End(b)
<1>1. a.req # c.req
  <2>1. ~Apart(a, c)
    BY BlockItem DEF Apart
  <2> QED
    BY <2>1, OneBlock
<1>2. b.req # c.req
  <2>1. ~Apart(b, c)
    BY BlockItem DEF Apart
  <2> QED
    BY <2>1, OneBlock
<1>3. End(a) = BlockEnd(a) /\ End(b) = BlockEnd(b)
  BY BlockItem
<1> QED
  BY <1>1, <1>2, <1>3 DEF Crowded

LEMMA WholePiece ==
    ASSUME GivenInv, NEW b \in BlockType, NEW o \in Blocks, PieceOf(b, o),
           b.offset = o.offset, End(b) = End(o)
    PROVE  b = o
<1>1. CASE b.offset < 0
  BY <1>1 DEF PieceOf
<1>2. CASE b.offset >= 0
  <2>1. b.size = o.size
    BY <1>2, BlockItem DEF End, BlockType, BlockEnd
  <2>2. o \in BlockType
    BY BlockItem
  <2> QED
    BY <2>1, <2>2 DEF PieceOf, BlockType
<1> QED
  BY <1>1, <1>2 DEF BlockType

LEMMA OneOrigin ==
    ASSUME GivenInv, NEW b \in BlockType, NEW o \in Blocks, NEW p \in Blocks,
           PieceOf(b, o), PieceOf(b, p), b.offset < End(b), End(b) \in Int
    PROVE  o = p
<1>1. b.offset \in Int
  BY DEF BlockType
<1>2. ~Apart(o, p)
  BY <1>1, BlockItem DEF PieceOf, Apart
<1> QED
  BY <1>2, OneBlock DEF PieceOf

\* Some block ends where an item ends, and begins before it or with it, and before it if
\* the item is a remainder.
LEMMA EndsWith ==
    ASSUME GivenInv, NEW b \in BlockType, SplitOnce(b), b.offset >= 0,
           b.offset < End(b), End(b) \in Int
    PROVE  \E e \in Blocks : /\ e.offset >= 0 /\ e.type = b.type /\ End(e) = End(b)
                             /\ e.offset <= b.offset
                             /\ e.offset = b.offset => ~Remains(b)
<1>1. PICK o \in Blocks : PieceOf(b, o) /\ (b = o \/ IsFront(b, o) \/ IsRest(b, o))
  BY DEF SplitOnce
<1>2. /\ o.type = b.type /\ o.req = b.req /\ o.offset <= b.offset /\ o.offset # -3
      /\ End(b) <= End(o)
      /\ o.offset \in Int /\ b.offset \in Int /\ End(o) \in Int
  BY <1>1, BlockItem DEF PieceOf, BlockType
<1>3. o.offset >= 0
  BY <1>2, BlockItem
<1>4. Remains(b) => o.offset < b.offset
  <2> SUFFICES ASSUME Remains(b) PROVE o.offset < b.offset
    OBVIOUS
  <2>1. PICK p \in Blocks : PieceOf(b, p) /\ IsRest(b, p)
    BY DEF Remains
  <2>2. p = o
    BY <1>1, <2>1, OneOrigin
  <2> QED
    BY <2>1, <2>2 DEF IsRest
<1>5. CASE b = o
  BY <1>2, <1>3, <1>4, <1>5
<1>6. CASE IsFront(b, o)
  <2>1. b.offset = o.offset /\ CutAt(b.type, End(b), b.offset)
    BY <1>6 DEF IsFront
  <2>2. ~Remains(b)
    BY <1>2, <1>4, <2>1
  <2> QED
    BY <2>1, <2>2 DEF CutAt
<1>7. CASE IsRest(b, o)
  <2>1. o.offset < b.offset /\ End(b) = End(o)
    BY <1>7 DEF IsRest
  <2> QED
    BY <1>2, <1>3, <2>1
<1> QED
  BY <1>1, <1>5, <1>6, <1>7

\* Unless the blocks are crowded, only a whole block is split, and of the blocks of its
\* type that reach over its beginning all others end where it is cut.
LEMMA SplitsWhole ==
    ASSUME GivenInv, NarrowBlocks, ~Crowded, ListInv, ListGood(blocks, clusters, i), PiecesGood(blocks, i),
           Scanning, ~Skipped(blocks[i]), NEW j \in Scanned, IsAbsorber(j), NeedsSplit(j)
    PROVE  /\ blocks[j] \in Blocks /\ blocks[j].offset >= 0
           /\ blocks[j].type \in {"writable", "read_only"}
           /\ CutAt(blocks[j].type, End(blocks[i]), blocks[j].offset)
           /\ \A a \in Blocks :
                 a.type = blocks[j].type /\ a.offset >= 0 /\ a # blocks[j]
                 /\ a.offset <= blocks[j].offset /\ blocks[j].offset < End(a)
                    => End(a) = End(blocks[i])
<1> DEFINE x == blocks[i]
           y == blocks[j]
<1>1. /\ i \in i .. Len(blocks) /\ j \in i .. Len(blocks) /\ i < j
      /\ x \in BlockType /\ y \in BlockType
      /\ x.type = y.type /\ x.offset >= 0 /\ y.offset >= 0
      /\ x.type \in {"writable", "read_only"}
      /\ x.offset \in Int /\ y.offset \in Int /\ End(x) \in Int /\ End(y) \in Int
      /\ x.offset <= y.offset /\ y.offset < End(x) /\ End(x) < End(y)
  <2>1. End(x) < CollidingEnd(y)
    BY SplitPlace
  <2>2. /\ x.type = y.type /\ End(y) = CollidingEnd(y)
        /\ End(x) < End(y) => x.offset >= 0 /\ y.offset >= 0 /\ x.type # "int_additive"
    BY AbsorberFacts
  <2>3. /\ i \in i .. Len(blocks) /\ j \in i .. Len(blocks)
        /\ ItemGood(x, clusters[i]) /\ ItemGood(y, clusters[j])
        /\ x.offset <= y.offset /\ y.offset < End(x)
    BY ScannedMeets
  <2>4. j \in i + 1 .. Len(blocks) /\ i \in Nat
    BY ScannedFacts, ListTypes
  <2>5. x \in BlockType /\ y \in BlockType
    BY <2>3 DEF ItemGood
  <2>6. /\ x.offset \in Int /\ y.offset \in Int /\ End(x) \in Int /\ End(y) \in Int
        /\ x.type \in Types
    BY <2>3, ItemTypes
  <2>7. x.type \in {"writable", "read_only"}
    BY <2>1, <2>2, <2>6 DEF Skipped, Types
  <2> QED
    BY <2>1, <2>2, <2>3, <2>4, <2>5, <2>6, <2>7
<1> HIDE DEF x, y
<1>2. SplitOnce(x) /\ SplitOnce(y)
  BY <1>1 DEF PiecesGood, x, y
<1>3. PICK e \in Blocks : /\ e.offset >= 0 /\ e.type = x.type /\ End(e) = End(x)
                          /\ e.offset <= x.offset
                          /\ e.offset = x.offset => ~Remains(x)
  <2>1. x.offset < End(x)
    BY <1>1
  <2> QED
    BY <1>1, <1>2, <2>1, EndsWith
<1>4. PICK o \in Blocks : PieceOf(y, o) /\ (y = o \/ IsFront(y, o) \/ IsRest(y, o))
  BY <1>2 DEF SplitOnce
<1>5. /\ o.type = y.type /\ o.offset <= y.offset /\ End(y) <= End(o)
      /\ o.offset \in Int /\ End(o) \in Int /\ o.offset >= 0
      /\ e.offset \in Int
      /\ o # e
  <2>1. o.type = y.type /\ o.offset <= y.offset /\ End(y) <= End(o) /\ o.offset # -3
    BY <1>4 DEF PieceOf
  <2>2. /\ e.offset \in Int /\ o.offset \in Int /\ o.size \in Int
        /\ End(e) \in Int /\ End(o) \in Int
    BY BlockItem
  <2>3. o.offset >= 0
    <3>1. End(o) # 0
      BY <1>1, <2>1, <2>2
    <3> QED
      BY <2>1, <2>2, <3>1, BlockItem
  <2>4. End(e) # End(o)
    BY <1>1, <1>3, <2>1, <2>2
  <2> QED
    BY <2>1, <2>2, <2>3, <2>4
<1>6. y = o
  <2>1. ASSUME IsFront(y, o), y # o PROVE FALSE
    <3>1. PICK d \in Blocks : d.offset >= 0 /\ d.type = y.type /\ End(d) = End(y) /\ d.offset <= y.offset
      BY <2>1 DEF IsFront, CutAt
    <3>2. y.offset = o.offset
      BY <2>1 DEF IsFront
    <3>3. d # o
      BY <1>1, <1>4, <2>1, <3>1, <3>2, WholePiece
    <3>4. d.offset \in Int
      BY <3>1, BlockItem
    <3>5. /\ e.type = o.type /\ d.type = o.type /\ o.type \in {"writable", "read_only"}
          /\ e # o /\ d # o
      <4>1. o.type = y.type /\ y.type = x.type /\ e.type = x.type /\ d.type = y.type
        BY <1>1, <1>3, <1>5, <3>1
      <4>2. x.type \in {"writable", "read_only"} /\ o # e
        BY <1>1, <1>5
      <4> QED
        BY <3>3, <4>1, <4>2
    <3>6. e.offset >= 0 /\ d.offset >= 0 /\ o.offset >= 0
      BY <1>3, <1>5, <3>1
    <3>7. e.offset <= o.offset /\ d.offset <= o.offset
      BY <1>1, <1>3, <1>5, <3>1, <3>2, <3>4
    <3>8. o.offset < End(e) /\ o.offset < End(d)
      BY <1>1, <1>3, <3>1, <3>2
    <3>9. End(e) = End(d)
      BY <3>5, <3>6, <3>7, <3>8, ThreeAtOnce
    <3> QED
      BY <1>1, <1>3, <3>1, <3>9
  <2>2. ASSUME IsRest(y, o) PROVE FALSE
    <3>1. PICK d \in Blocks : d.offset >= 0 /\ d.type = y.type /\ End(d) = y.offset /\ d.offset <= o.offset
      BY <2>2 DEF IsRest, CutAt
    <3>2. o.offset < y.offset /\ End(y) = End(o)
      BY <2>2 DEF IsRest
    <3>3. d.offset \in Int
      BY <3>1, BlockItem
    <3>4. e.offset < y.offset
      <4>1. Remains(y)
        BY <1>4, <2>2 DEF Remains
      <4>2. x.offset = y.offset => Remains(x)
        BY <1>1, <4>1 DEF PiecesGood, x, y
      <4>3. e.offset <= x.offset /\ x.offset <= y.offset
        BY <1>1, <1>3
      <4>4. ~(e.offset = x.offset /\ x.offset = y.offset)
        BY <1>3, <4>2
      <4>5. e.offset \in Int /\ x.offset \in Int /\ y.offset \in Int
        BY <1>1, <1>5
      <4> QED
        BY <4>3, <4>4, <4>5
    <3>5. CASE e.offset <= o.offset
      <4>1. d # o /\ o.offset < End(d) /\ o.offset < End(e)
        BY <1>1, <1>3, <1>5, <3>1, <3>2
      <4>2. End(d) = End(e)
        BY <1>1, <1>3, <1>5, <3>1, <3>5, <4>1, ThreeAtOnce
      <4> QED
        BY <1>1, <1>3, <3>1, <4>2
    <3>6. CASE o.offset < e.offset
      <4>1. d # e /\ e.offset < End(d) /\ e.offset < End(o) /\ d.offset <= e.offset
        BY <1>1, <1>3, <1>5, <3>1, <3>2, <3>3, <3>4, <3>6
      <4>2. End(d) = End(o)
        BY <1>1, <1>3, <1>5, <3>1, <3>6, <4>1, ThreeAtOnce
      <4> QED
        BY <1>1, <1>5, <3>1, <3>2, <4>2
    <3> QED
      BY <1>5, <3>5, <3>6
  <2> QED
    BY <1>4, <2>1, <2>2
<1>7. e # y /\ e.offset <= y.offset
  BY <1>1, <1>3, <1>5, <1>6
<1>8. y \in Blocks /\ CutAt(y.type, End(x), y.offset)
  BY <1>1, <1>3, <1>6, <1>7 DEF CutAt
<1>9. ASSUME NEW a \in Blocks, a.type = y.type, a.offset >= 0, a # y,
             a.offset <= y.offset, y.offset < End(a)
      PROVE  End(a) = End(x)
  BY <1>1, <1>3, <1>7, <1>8, <1>9, ThreeAtOnce
<1>10. \A a \in Blocks :
          a.type = y.type /\ a.offset >= 0 /\ a # y
          /\ a.offset <= y.offset /\ y.offset < End(a)
             => End(a) = End(x)
  BY <1>9
<1>11. y.offset >= 0 /\ y.type \in {"writable", "read_only"}
  BY <1>1
<1> QED
  BY <1>8, <1>10, <1>11 DEF x, y

\* Where the items go when absorber j of block i is split: to their places in the new list,
\* in their order; the remainder comes to the free place, behind those that begin before
\* the cut.
SplitTo(j, to, free) ==
    /\ Len(blocks') = Len(blocks)
    /\ free \in i .. Len(blocks) /\ blocks'[free] = Remainder(j) /\ clusters'[free] = Fresh
    /\ \A n \in i + 1 .. Len(blocks) :
          /\ to[n] \in i .. Len(blocks) /\ to[n] # free
          /\ n = j => blocks'[to[n]] = Front(j) /\ clusters'[to[n]] = Merge(clusters[j], Current)
          /\ n # j => blocks'[to[n]] = blocks[n] /\ clusters'[to[n]] = clusters[n]
          /\ to[n] < free => blocks[n].offset < End(blocks[i])
          /\ free < to[n] => End(blocks[i]) <= blocks[n].offset
    /\ \A m, n \in i + 1 .. Len(blocks) : m < n => to[m] < to[n]
    /\ \A m \in i .. Len(blocks) : m = free \/ \E n \in i + 1 .. Len(blocks) : m = to[n]

LEMMA SplitPlaces ==
    ASSUME ListInv, Scanning, NEW j \in Scanned, NeedsSplit(j),
           blocks' = Shift(blocks, j, LowerBound(End(blocks[i])), Front(j), Remainder(j)),
           clusters' = Shift(clusters, j, LowerBound(End(blocks[i])),
                             Merge(clusters[j], Current), Fresh)
    PROVE  \E to, free : SplitTo(j, to, free)
<1> DEFINE k == LowerBound(End(blocks[i]))
           L == Len(blocks)
           to == [n \in i + 1 .. L |-> IF n < k THEN n - 1 ELSE n]
<1>1. /\ i \in Nat /\ i >= 1 /\ L \in Nat
      /\ j \in i + 1 .. L /\ k \in j + 1 .. L
      /\ Len(blocks') = L
      /\ blocks'[k - 1] = Remainder(j) /\ clusters'[k - 1] = Fresh
      /\ blocks'[j - 1] = Front(j) /\ clusters'[j - 1] = Merge(clusters[j], Current)
      /\ \A n \in i .. k - 2 : n # j - 1 => /\ blocks'[n] = blocks[n + 1]
                                            /\ clusters'[n] = clusters[n + 1]
      /\ \A n \in k .. L : blocks'[n] = blocks[n] /\ clusters'[n] = clusters[n]
  BY SplitList
<1>2. /\ blocks[k].offset >= End(blocks[i])
      /\ \A n \in i + 1 .. k - 1 : blocks[n].offset < End(blocks[i])
  BY SplitPlace
<1>3. \A n \in i .. L : blocks[n].offset \in Int /\ End(blocks[n]) \in Int
  BY <1>1, ListTypes
<1>4. SortedFrom(blocks, i)
  BY DEF ListInv
<1> HIDE DEF k, L, to
<1>5. \A n \in i + 1 .. L : to[n] = IF n < k THEN n - 1 ELSE n
  BY DEF to
<1>6. k - 1 \in i .. L
  BY <1>1
<1>7. ASSUME NEW n \in i + 1 .. L
      PROVE  /\ to[n] \in i .. L /\ to[n] # k - 1
             /\ n = j => blocks'[to[n]] = Front(j) /\ clusters'[to[n]] = Merge(clusters[j], Current)
             /\ n # j => blocks'[to[n]] = blocks[n] /\ clusters'[to[n]] = clusters[n]
             /\ to[n] < k - 1 => blocks[n].offset < End(blocks[i])
             /\ k - 1 < to[n] => End(blocks[i]) <= blocks[n].offset
  <2>1. CASE n < k
    <3>1. to[n] = n - 1 /\ n - 1 \in i .. k - 2 /\ (n = j <=> n - 1 = j - 1) /\ n - 1 + 1 = n
      BY <1>1, <1>5, <2>1
    <3>2. n \in i + 1 .. k - 1
      BY <1>1, <2>1
    <3>3. n # j => blocks'[n - 1] = blocks[n - 1 + 1] /\ clusters'[n - 1] = clusters[n - 1 + 1]
      BY <1>1, <3>1
    <3>4. n - 1 \in i .. L /\ n - 1 # k - 1 /\ ~(k - 1 < n - 1)
      BY <1>1, <2>1
    <3> QED
      BY <1>1, <1>2, <3>1, <3>2, <3>3, <3>4
  <2>2. CASE n >= k
    <3>1. to[n] = n /\ n \in k .. L /\ n # j /\ n \in i .. L /\ n # k - 1 /\ ~(n < k - 1)
      BY <1>1, <1>5, <2>2
    <3>2. blocks[k].offset <= blocks[n].offset
      <4>1. CASE n = k
        <5>1. blocks[n].offset \in Int
          BY <1>3, <3>1
        <5> QED
          BY <4>1, <5>1
      <4>2. CASE k < n
        <5>1. k \in i .. Len(blocks) /\ n \in i .. Len(blocks)
          BY <1>1, <3>1 DEF L
        <5> QED
          BY <1>4, <4>2, <5>1 DEF SortedFrom
      <4> QED
        BY <1>1, <2>2, <4>1, <4>2
    <3>3. k \in i .. L /\ i \in i .. L
      BY <1>1
    <3>4. End(blocks[i]) <= blocks[n].offset
      BY <1>2, <1>3, <3>1, <3>2, <3>3
    <3> QED
      BY <1>1, <3>1, <3>4
  <2> QED
    BY <1>1, <2>1, <2>2
<1>8. \A m, n \in i + 1 .. L : m < n => to[m] < to[n]
  BY <1>1, <1>5
<1>9. ASSUME NEW m \in i .. L, m # k - 1 PROVE \E n \in i + 1 .. L : m = to[n]
  <2>1. CASE m < k - 1
    <3>1. m + 1 \in i + 1 .. L /\ m + 1 < k /\ m = m + 1 - 1
      BY <1>1, <2>1
    <3> QED
      BY <1>5, <3>1
  <2>2. CASE m >= k
    <3>1. m \in i + 1 .. L /\ ~(m < k)
      BY <1>1, <2>2
    <3> QED
      BY <1>5, <3>1
  <2> QED
    BY <1>1, <1>9, <2>1, <2>2
<1>10. SplitTo(j, to, k - 1)
  BY <1>1, <1>6, <1>7, <1>8, <1>9 DEF SplitTo, L
<1> QED
  BY <1>10

LEMMA WholeNeverRemains ==
    ASSUME GivenInv, NEW b \in Blocks, b.offset # -3
    PROVE  ~Remains(b)
<1> SUFFICES ASSUME NEW o \in Blocks, PieceOf(b, o), IsRest(b, o) PROVE FALSE
  BY DEF Remains
<1>1. b \in BlockType /\ b.offset < End(b) /\ End(b) \in Int
  BY BlockItem
<1>2. PieceOf(b, b)
  BY <1>1 DEF PieceOf, BlockType
<1>3. o = b
  BY <1>1, <1>2, OneOrigin
<1> QED
  BY <1>1, <1>3 DEF IsRest, BlockType

\* The pieces of a block that is split.
LEMMA SplitPieces ==
    ASSUME GivenInv, NEW b \in Blocks, b.offset >= 0, b.type # "int_additive",
           NEW f \in BlockType, NEW g \in BlockType, NEW cut \in Int,
           b.offset < cut, cut < End(b), CutAt(b.type, cut, b.offset),
           f.offset = b.offset, End(f) = cut, f.type = b.type, f.req = b.req,
           g.offset = cut, End(g) = End(b), g.type = b.type, g.req = b.req
    PROVE  /\ PieceOf(f, b) /\ PieceOf(g, b)
           /\ SplitOnce(f) /\ SplitOnce(g)
           /\ ~Remains(f) /\ Remains(g)
<1>1. b.offset \in Int /\ End(b) \in Int /\ b.offset # -3
  BY BlockItem
<1>2. PieceOf(f, b) /\ PieceOf(g, b)
  BY <1>1 DEF PieceOf
<1>3. IsFront(f, b)
  BY DEF IsFront
<1>4. IsRest(g, b)
  BY DEF IsRest
<1>5. ~Remains(f)
  <2> SUFFICES ASSUME NEW o \in Blocks, PieceOf(f, o), IsRest(f, o) PROVE FALSE
    BY DEF Remains
  <2>1. o = b
    BY <1>2, OneOrigin
  <2> QED
    BY <1>1, <2>1 DEF IsRest
<1> QED
  BY <1>2, <1>3, <1>4, <1>5 DEF SplitOnce, Remains

LEMMA SplitKeepsPieces ==
    ASSUME GivenInv, NarrowBlocks, ~Crowded, ListInv, ListGood(blocks, clusters, i),
           PiecesGood(blocks, i), SplitBlock
    PROVE  PiecesGood(blocks', i')
<1>1. PICK j \in Scanned :
         /\ Scanning /\ ~Skipped(blocks[i]) /\ IsAbsorber(j) /\ NeedsSplit(j) /\ i' = i
         /\ blocks' = Shift(blocks, j, LowerBound(End(blocks[i])), Front(j), Remainder(j))
         /\ clusters' = Shift(clusters, j, LowerBound(End(blocks[i])), Merge(clusters[j], Current), Fresh)
  BY DEF SplitBlock
<1> DEFINE L == Len(blocks)
           b == blocks[j]
           f == Front(j)
           g == Remainder(j)
           cut == End(blocks[i])
<1>2. /\ i \in Nat /\ L \in Nat /\ j \in i + 1 .. L /\ j \in 1 .. L
      /\ \A n \in i + 1 .. L : /\ n \in i .. L /\ blocks[n] \in BlockType
                               /\ blocks[n].offset \in Int /\ End(blocks[n]) \in Int
  BY <1>1, ScannedFacts, ListTypes
<1>3. /\ b \in Blocks /\ b.offset >= 0 /\ b.type \in {"writable", "read_only"}
      /\ CutAt(b.type, cut, b.offset)
  BY <1>1, SplitsWhole
<1>4. /\ f \in BlockType /\ g \in BlockType
      /\ f.offset = b.offset /\ f.size = cut - b.offset /\ f.type = b.type /\ f.req = b.req
      /\ g.offset = cut /\ g.size = CollidingEnd(b) - cut /\ g.type = b.type /\ g.req = b.req
  BY <1>1, <1>2, PieceFacts
<1>5. /\ cut \in Int /\ b.offset \in Int /\ End(b) \in Int /\ b.offset < cut /\ cut < End(b)
      /\ End(b) = CollidingEnd(b)
  <2>1. b.offset < cut
    BY <1>1, ScannedFacts
  <2>2. cut < CollidingEnd(b)
    BY <1>1, SplitPlace
  <2>3. End(b) = CollidingEnd(b)
    BY <1>1, AbsorberFacts
  <2>4. i \in 1 .. Len(blocks)
    BY <1>1, CurrentType
  <2> QED
    BY <1>2, <2>1, <2>2, <2>3, <2>4, ListTypes
<1>6. PICK to, free : SplitTo(j, to, free)
  BY <1>1, SplitPlaces
<1> HIDE DEF L, b, f, g, cut
<1>7. End(f) = cut /\ End(g) = End(b)
  <2>1. f.offset >= 0 /\ g.offset >= 0 /\ f.offset + f.size = cut /\ g.offset + g.size = End(b)
        /\ f.offset \in Int /\ g.offset \in Int
    BY <1>3, <1>4, <1>5
  <2>2. \A x : x.offset \in Int /\ x.offset >= 0 => End(x) = x.offset + x.size
    BY DEF End
  <2> QED
    BY <2>1, <2>2
<1>8. SplitOnce(f) /\ SplitOnce(g) /\ ~Remains(f) /\ Remains(g)
  BY <1>3, <1>4, <1>5, <1>7, SplitPieces
<1>9. ~Remains(b)
  BY <1>3, <1>5, WholeNeverRemains
<1>10. /\ Len(blocks') = L
       /\ free \in i .. L /\ blocks'[free] = g
       /\ \A n \in i + 1 .. L : /\ to[n] \in i .. L /\ to[n] # free
                                /\ n = j => blocks'[to[n]] = f
                                /\ n # j => blocks'[to[n]] = blocks[n]
                                /\ to[n] < free => blocks[n].offset < cut
       /\ \A m, n \in i + 1 .. L : m < n => to[m] < to[n]
       /\ \A m \in i .. L : m = free \/ \E n \in i + 1 .. L : m = to[n]
  BY <1>6 DEF SplitTo, L, f, g, cut
<1>11. /\ \A n \in i + 1 .. L : blocks[n].offset # -3 => SplitOnce(blocks[n])
       /\ \A p, q \in i + 1 .. L :
             p # q /\ blocks[p].req = blocks[q].req /\ blocks[p].offset # -3 /\ blocks[q].offset # -3
                => Apart(blocks[p], blocks[q])
       /\ \A p, q \in i + 1 .. L :
             p < q /\ blocks[p].offset = blocks[q].offset /\ Remains(blocks[q]) => Remains(blocks[p])
  BY <1>2 DEF PiecesGood, L
<1>12. ASSUME NEW m \in i .. L, blocks'[m].offset # -3 PROVE SplitOnce(blocks'[m])
  BY <1>8, <1>10, <1>11, <1>12
<1>13. ASSUME NEW n \in i + 1 .. L, n # j, blocks[n].req = b.req, blocks[n].offset # -3
       PROVE  /\ Apart(f, blocks[n]) /\ Apart(blocks[n], f)
              /\ Apart(g, blocks[n]) /\ Apart(blocks[n], g)
  <2>1. Apart(b, blocks[n])
    <3>1. b.offset # -3
      BY <1>3, <1>5
    <3> QED
      BY <1>2, <1>11, <1>13, <3>1 DEF b
  <2>2. blocks[n].offset \in Int /\ End(blocks[n]) \in Int
    BY <1>2
  <2> QED
    BY <1>4, <1>5, <1>7, <2>1, <2>2 DEF Apart
<1>14. Apart(f, g) /\ Apart(g, f)
  BY <1>4, <1>5, <1>7 DEF Apart
<1>15. ASSUME NEW p \in i .. L, NEW q \in i .. L, p # q, blocks'[p].req = blocks'[q].req,
              blocks'[p].offset # -3, blocks'[q].offset # -3
       PROVE  Apart(blocks'[p], blocks'[q])
  <2>1. CASE p = free
    <3>1. PICK n \in i + 1 .. L : q = to[n]
      BY <1>10, <1>15, <2>1
    <3> QED
      BY <1>4, <1>10, <1>13, <1>14, <1>15, <2>1, <3>1
  <2>2. CASE q = free
    <3>1. PICK n \in i + 1 .. L : p = to[n]
      BY <1>10, <1>15, <2>2
    <3> QED
      BY <1>4, <1>10, <1>13, <1>14, <1>15, <2>2, <3>1
  <2>3. CASE p # free /\ q # free
    <3>1. PICK n \in i + 1 .. L : p = to[n]
      BY <1>10, <2>3
    <3>2. PICK m \in i + 1 .. L : q = to[m]
      BY <1>10, <2>3
    <3>3. n # m
      BY <1>15, <3>1, <3>2
    <3>4. CASE n = j
      <4>1. m # j /\ blocks'[p] = f /\ blocks'[q] = blocks[m]
        BY <1>10, <3>1, <3>2, <3>3, <3>4
      <4>2. blocks[m].req = b.req /\ blocks[m].offset # -3
        BY <1>4, <1>15, <4>1
      <4> QED
        BY <1>13, <4>1, <4>2
    <3>5. CASE m = j
      <4>1. n # j /\ blocks'[q] = f /\ blocks'[p] = blocks[n]
        BY <1>10, <3>1, <3>2, <3>3, <3>5
      <4>2. blocks[n].req = b.req /\ blocks[n].offset # -3
        BY <1>4, <1>15, <4>1
      <4> QED
        BY <1>13, <4>1, <4>2
    <3>6. CASE n # j /\ m # j
      <4>1. blocks'[q] = blocks[m] /\ blocks'[p] = blocks[n]
        BY <1>10, <3>1, <3>2, <3>6
      <4> QED
        BY <1>11, <1>15, <3>3, <4>1
    <3> QED
      BY <3>4, <3>5, <3>6
  <2> QED
    BY <2>1, <2>2, <2>3
<1>16. ASSUME NEW p \in i .. L, NEW q \in i .. L, p < q,
              blocks'[p].offset = blocks'[q].offset, Remains(blocks'[q])
       PROVE  Remains(blocks'[p])
  <2>1. CASE p = free
    BY <1>8, <1>10, <2>1
  <2>2. CASE q = free
    <3>0. p \in Int /\ free \in Int /\ p < free
      BY <1>2, <1>16, <2>2
    <3>1. PICK n \in i + 1 .. L : p = to[n]
      BY <1>10, <3>0
    <3>2. blocks[n].offset < cut /\ blocks'[p].offset = blocks[n].offset
      BY <1>4, <1>10, <3>0, <3>1 DEF b
    <3>3. blocks'[q].offset = cut /\ blocks[n].offset \in Int
      BY <1>2, <1>4, <1>10, <2>2
    <3>4. blocks'[p].offset = blocks'[q].offset
      BY <1>16
    <3> QED
      BY <1>5, <3>2, <3>3, <3>4
  <2>3. CASE p # free /\ q # free
    <3>1. PICK n \in i + 1 .. L : p = to[n]
      BY <1>10, <2>3
    <3>2. PICK m \in i + 1 .. L : q = to[m]
      BY <1>10, <2>3
    <3>3. n < m
      <4>1. m # n
        BY <1>2, <1>16, <3>1, <3>2
      <4>2. m < n => to[m] < to[n]
        BY <1>10, <3>1, <3>2
      <4>3. ~(m < n)
        BY <1>2, <1>16, <3>1, <3>2, <4>2
      <4> QED
        BY <1>2, <4>1, <4>3
    <3>4. blocks'[p].offset = blocks[n].offset /\ blocks'[q].offset = blocks[m].offset
      BY <1>4, <1>10, <3>1, <3>2 DEF b
    <3>5. m # j
      BY <1>8, <1>10, <1>16, <3>2
    <3>6. Remains(blocks[n])
      BY <1>10, <1>11, <1>16, <3>2, <3>3, <3>4, <3>5
    <3>7. n # j
      BY <1>9, <3>6 DEF b
    <3> QED
      BY <1>10, <3>1, <3>6, <3>7
  <2> QED
    BY <2>1, <2>2, <2>3
<1>17. i' = i /\ Len(blocks') = L
  BY <1>1, <1>10
<1> QED
  BY <1>12, <1>15, <1>16, <1>17 DEF PiecesGood

\* What the list is when it was just sorted.
LEMMA ListedOnce ==
    ASSUME GivenInv, ListInv, SortBlocks
    PROVE  /\ i' = 1 /\ Len(blocks') \in Nat
           /\ \A n \in 1 .. Len(blocks') : blocks'[n] \in Blocks
           /\ \A p, q \in 1 .. Len(blocks') : p # q => blocks'[p] # blocks'[q]
           /\ \A b \in Blocks : \E n \in 1 .. Len(blocks') : blocks'[n] = b
<1>1. Lists(blocks', Blocks, Precedes) /\ i' = 1
  BY SortedAfterSort
<1> DEFINE bs == blocks'
<1>2. /\ Len(bs) \in Nat
      /\ \A k \in 1 .. Len(bs) : bs[k] \in Blocks
  BY <1>1, LenProperties, ElementOfSeq DEF Lists
<1> HIDE DEF bs
<1>3. ASSUME NEW k \in 1 .. Len(bs), NEW n \in 1 .. Len(bs), k # n
      PROVE  bs[k] # bs[n]
  <2>1. k < n \/ n < k
    BY <1>2, <1>3
  <2>2. <<bs[k], bs[n]>> \in Precedes \/ <<bs[n], bs[k]>> \in Precedes
    BY <1>1, <2>1 DEF Lists, bs
  <2> QED
    BY <1>2, <2>2, BeforeOrders DEF Orders
<1>4. \A b \in Blocks : \E n \in 1 .. Len(bs) : bs[n] = b
  BY <1>1 DEF Lists, bs
<1> QED
  BY <1>1, <1>2, <1>3, <1>4 DEF bs

LEMMA DeclaredPieces ==
    ASSUME GivenInv, ListInv, SortBlocks
    PROVE  PiecesGood(blocks', i')
<1> DEFINE bs == blocks'
<1>1. /\ i' = 1
      /\ \A n \in 1 .. Len(bs) : bs[n] \in Blocks
      /\ \A p, q \in 1 .. Len(bs) : p # q => bs[p] # bs[q]
  BY ListedOnce
<1> HIDE DEF bs
<1>2. ASSUME NEW n \in 1 .. Len(bs), bs[n].offset # -3 PROVE SplitOnce(bs[n])
  <2>1. bs[n] \in Blocks /\ bs[n].offset \in Int /\ End(bs[n]) \in Int
    BY <1>1, BlockItem
  <2>2. PieceOf(bs[n], bs[n])
    BY <1>2, <2>1 DEF PieceOf
  <2> QED
    BY <2>1, <2>2 DEF SplitOnce
<1>3. ASSUME NEW p \in 1 .. Len(bs), NEW q \in 1 .. Len(bs), p # q,
             bs[p].req = bs[q].req, bs[p].offset # -3, bs[q].offset # -3
      PROVE  Apart(bs[p], bs[q])
  BY <1>1, <1>3, OneBlock
<1>4. ASSUME NEW p \in 1 .. Len(bs), NEW q \in 1 .. Len(bs), Remains(bs[q]),
             bs[p].offset = bs[q].offset
      PROVE  Remains(bs[p])
  <2>1. bs[q].offset = -3
    BY <1>1, <1>4, WholeNeverRemains
  <2>2. PICK o \in Blocks : PieceOf(bs[q], o)
    BY <1>4 DEF Remains
  <2>3. o.offset # -3 /\ o.offset <= bs[q].offset
    BY <2>2 DEF PieceOf
  <2> QED
    BY <2>1, <2>3, BlockItem
<1>5. PiecesGood(bs, 1)
  BY <1>2, <1>3, <1>4 DEF PiecesGood
<1> QED
  BY <1>1, <1>5 DEF bs

LEMMA PiecesKept ==
    ASSUME UNCHANGED input, PiecesGood(blocks', i')
    PROVE  PiecesGood(blocks, i)'
<1>1. Blocks' = Blocks
  BY DEF Blocks, BlocksOf, input
<1>2. \A type, at, from : CutAt(type, at, from)' <=> CutAt(type, at, from)
  BY <1>1 DEF CutAt
<1>3. \A b : (SplitOnce(b)' <=> SplitOnce(b)) /\ (Remains(b)' <=> Remains(b))
  BY <1>1, <1>2 DEF SplitOnce, Remains, IsFront, IsRest
<1> QED
  BY <1>3 DEF PiecesGood

PiecesInv == ~Crowded /\ stage \in {"resizing", "cliques"} => PiecesGood(blocks, i)

LEMMA CrowdedKept ==
    ASSUME UNCHANGED input
    PROVE  Crowded' = Crowded
<1>1. Blocks' = Blocks
  BY DEF Blocks, BlocksOf, input
<1> QED
  BY <1>1 DEF Crowded

LEMMA PiecesStep ==
    ASSUME NarrowSizes
    PROVE  GivenInv /\ ListInv /\ GoodInv /\ PiecesInv /\ [Next]_vars => PiecesInv'
<1> SUFFICES ASSUME GivenInv, ListInv, GoodInv, PiecesInv, [Next]_vars,
                    ~Crowded', stage' \in {"resizing", "cliques"}
             PROVE  PiecesGood(blocks, i)'
  BY DEF PiecesInv
<1>1. UNCHANGED input /\ NarrowBlocks /\ ~Crowded
  BY InputKept, Narrow, CrowdedKept
<1> SUFFICES PiecesGood(blocks', i')
  BY <1>1, PiecesKept
<1>2. ASSUME UNCHANGED <<blocks, i>>, stage \in {"resizing", "cliques"}
      PROVE  PiecesGood(blocks', i')
  BY <1>1, <1>2 DEF PiecesInv
<1>3. ASSUME Scanning PROVE ListGood(blocks, clusters, i) /\ PiecesGood(blocks, i)
  BY <1>1, <1>3 DEF GoodInv, PiecesInv, Scanning
<1>4. ASSUME Scanning, blocks' = blocks, i' = i + 1 PROVE PiecesGood(blocks', i')
  <2>1. \A n \in i + 1 .. Len(blocks) : n \in i .. Len(blocks)
    BY <1>4, CurrentType, ListTypes
  <2> QED
    BY <1>3, <1>4, <2>1 DEF PiecesGood
<1>5. CASE UNCHANGED vars
  BY <1>2, <1>5 DEF vars
<1>6. CASE CheckBounds
  BY <1>6 DEF CheckBounds
<1>7. CASE SortBlocks
  BY <1>7, DeclaredPieces
<1>8. CASE FindResizingCollisions
  BY <1>2, <1>8 DEF FindResizingCollisions
<1>9. CASE ResizingFails \/ CliqueFails \/ Accept
  BY <1>9 DEF ResizingFails, CliqueFails, Accept, MissingEdge
<1>10. CASE SkipBlock \/ FinalizeCluster \/ MergeBlock
  BY <1>4, <1>10 DEF SkipBlock, FinalizeCluster, MergeBlock
<1>11. CASE SplitBlock
  <2>1. Scanning
    BY <1>11 DEF SplitBlock
  <2> QED
    BY <1>1, <1>3, <1>11, <2>1, SplitKeepsPieces
<1> QED
  BY <1>5, <1>6, <1>7, <1>8, <1>9, <1>10, <1>11 DEF Next

-----------------------------------------------------------------------------
(* What is connected stays connected *)

LEMMA LaterInPart ==
    ASSUME NEW S, NEW C, NEW D, C \subseteq D, HoldsLater(S, D)
    PROVE  HoldsLater(S, C)
BY DEF HoldsLater

LEMMA LinkedKept ==
    ASSUME \A S \in SUBSET Request : Closed(S)' => Closed(S),
           NEW r, NEW s, Linked(r, s)
    PROVE  Linked(r, s)'
<1>1. Follows(r, s) => Follows(r, s)'
  BY DEF Follows
<1>2. Follows(s, r) => Follows(s, r)'
  BY DEF Follows
<1> QED
  BY <1>1, <1>2 DEF Linked

\* A turn keeps the edges, and takes every clique into another or checks its path.
LEMMA ClosedBack ==
    ASSUME NEW S, Closed(S)', checked \subseteq checked',
           \A n \in i .. Len(blocks) :
              \/ HoldsLater(S, Clique(blocks[n], clusters[n]))
              \/ \E m \in i' .. Len(blocks') :
                    Clique(blocks[n], clusters[n]) \subseteq Clique(blocks'[m], clusters'[m])
    PROVE  Closed(S)
<1>1. \A e \in checked : e[1] \in S => e[2] \in S
  BY DEF Closed
<1>2. \A m \in i' .. Len(blocks') : HoldsLater(S, Clique(blocks'[m], clusters'[m]))
  BY DEF Closed
<1> QED
  BY <1>1, <1>2, LaterInPart DEF Closed

\* The path through a clique.
LEMMA PathHolds ==
    ASSUME NEW c \in ClusterType, c.type = "writable", Ascends(c.members),
           NEW S, \A e \in FinalizeEdges(c) : e[1] \in S => e[2] \in S
    PROVE  HoldsLater(S, MembersOf(c))
<1> DEFINE m == c.members
<1>1. m \in Seq(Request) /\ Len(m) \in Nat
  BY LenProperties DEF ClusterType
<1>2. \A k \in 1 .. Len(m) : m[k] \in Int
  BY <1>1, ElementOfSeq, RequestsInt
<1>3. ASSUME NEW k \in 1 .. Len(m) - 1, m[k] \in S PROVE m[k + 1] \in S
  <2>1. <<m[k], m[k + 1]>> \in FinalizeEdges(c)
    BY DEF FinalizeEdges
  <2> QED
    BY <1>3, <2>1
<1> SUFFICES ASSUME NEW k \in 1 .. Len(m), NEW n \in 1 .. Len(m), m[k] < m[n], m[k] \in S, m[n] \notin S
             PROVE  FALSE
  BY DEF HoldsLater, MembersOf
<1> HIDE DEF m
<1>4. k < n
  <2>1. n < k => m[n] < m[k]
    BY DEF Ascends, m
  <2>2. k # n
    BY <1>2
  <2> QED
    BY <1>1, <1>2, <2>1, <2>2
<1> DEFINE T == {q \in Nat : k <= q /\ q <= n /\ m[q] \notin S}
<1>5. n \in T
  BY <1>1, <1>4
<1>6. PICK q \in T : \A p \in T : q <= p
  BY <1>5, Least
<1>7. q \in Nat /\ k <= q /\ q <= n /\ m[q] \notin S
  BY <1>6
<1>8. q # k
  BY <1>7
<1>9. q - 1 \in Nat /\ k <= q - 1 /\ q - 1 <= n /\ q - 1 \in 1 .. Len(m) - 1 /\ q - 1 + 1 = q
      /\ ~(q <= q - 1)
  BY <1>1, <1>7, <1>8
<1>10. m[q - 1] \in S
  BY <1>6, <1>9
<1> QED
  BY <1>3, <1>7, <1>9, <1>10

LEMMA SkipCloses ==
    ASSUME ListInv, SkipBlock, NEW S, Closed(S)'
    PROVE  Closed(S)
<1>1. /\ Scanning /\ Skipped(blocks[i]) /\ i' = i + 1
      /\ blocks' = blocks /\ clusters' = clusters /\ checked' = checked
  BY DEF SkipBlock
<1>2. i \in Nat /\ Len(blocks) \in Nat
  BY ListTypes
<1>3. Clique(blocks[i], clusters[i]) = {}
  BY <1>1 DEF Clique, Skipped
<1>4. HoldsLater(S, Clique(blocks[i], clusters[i]))
  BY <1>3 DEF HoldsLater
<1>5. \A n \in i .. Len(blocks) : n = i \/ n \in i + 1 .. Len(blocks)
  BY <1>2
<1> QED
  BY <1>1, <1>4, <1>5, ClosedBack

LEMMA FinalizeCloses ==
    ASSUME ListInv, ListGood(blocks, clusters, i), FinalizeCluster, NEW S, Closed(S)'
    PROVE  Closed(S)
<1>1. /\ Scanning /\ i' = i + 1 /\ blocks' = blocks
      /\ clusters' = [clusters EXCEPT ![i] = Current]
      /\ checked' = checked \cup (ScanEdges \cup FinalizeEdges(Current))
  BY DEF FinalizeCluster
<1>2. /\ i \in Nat /\ i >= 1 /\ Len(blocks) \in Nat /\ DOMAIN clusters = 1 .. Len(blocks)
      /\ i \in i .. Len(blocks)
  BY <1>1, ListTypes, CurrentType DEF ListInv
<1>3. \A n \in i .. Len(blocks) : n = i \/ (n \in i + 1 .. Len(blocks) /\ clusters'[n] = clusters[n])
  <2>1. \A n \in i + 1 .. Len(blocks) : n \in 1 .. Len(blocks) /\ n # i
    BY <1>2
  <2>2. \A n \in i + 1 .. Len(blocks) : clusters'[n] = clusters[n]
    BY <1>1, <1>2, <2>1
  <2>3. \A n \in i .. Len(blocks) : n = i \/ n \in i + 1 .. Len(blocks)
    BY <1>2
  <2> QED
    BY <2>2, <2>3
<1>4. HoldsLater(S, Clique(blocks[i], clusters[i]))
  <2>1. CASE blocks[i].type = "writable"
    <3>1. ItemGood(blocks[i], clusters[i])
      BY <1>2 DEF ListGood
    <3>2. /\ Current \in ClusterType /\ Current.type = "writable" /\ Ascends(Current.members)
          /\ MembersOf(Current) = Reqs(blocks[i], clusters[i])
      BY <1>1, <2>1, <3>1, CurrentGood
    <3>3. \A e \in FinalizeEdges(Current) : e[1] \in S => e[2] \in S
      BY <1>1 DEF Closed
    <3>4. HoldsLater(S, MembersOf(Current))
      BY <3>2, <3>3, PathHolds
    <3>5. Clique(blocks[i], clusters[i]) \subseteq MembersOf(Current)
      BY <3>2 DEF Clique
    <3> QED
      BY <3>4, <3>5, LaterInPart
  <2>2. CASE blocks[i].type # "writable"
    BY <2>2 DEF Clique, HoldsLater
  <2> QED
    BY <2>1, <2>2
<1>5. checked \subseteq checked'
  BY <1>1
<1> QED
  BY <1>1, <1>3, <1>4, <1>5, ClosedBack

\* Block i goes into its absorber: the clique that this makes holds both.
LEMMA CliqueGrows ==
    ASSUME GivenInv, NarrowBlocks, ListInv, ListGood(blocks, clusters, i), Scanning,
           ~Skipped(blocks[i]), NEW j \in Scanned, IsAbsorber(j),
           NEW b, b.type = blocks[j].type, b.req = blocks[j].req, b.offset # -3,
           NEW c, c = Merge(clusters[j], Current)
    PROVE  /\ Reqs(b, c) = Reqs(blocks[j], clusters[j]) \cup Reqs(blocks[i], clusters[i])
           /\ Clique(blocks[i], clusters[i]) \subseteq Clique(b, c)
           /\ Clique(blocks[j], clusters[j]) \subseteq Clique(b, c)
           /\ b.type = "writable" => Clique(b, c) = Reqs(b, c)
<1>1. Reqs(blocks[j], c) = Reqs(blocks[j], clusters[j]) \cup Reqs(blocks[i], clusters[i])
  BY AbsorberCluster
<1>2. Reqs(b, c) = Reqs(blocks[j], c)
  BY DEF Reqs
<1>3. blocks[i].type = blocks[j].type
  BY AbsorberFacts
<1> QED
  BY <1>1, <1>2, <1>3 DEF Clique

LEMMA MergeCloses ==
    ASSUME GivenInv, NarrowBlocks, ListInv, ListGood(blocks, clusters, i), MergeBlock,
           NEW S, Closed(S)'
    PROVE  Closed(S)
<1>1. PICK j \in Scanned :
         /\ Scanning /\ ~Skipped(blocks[i]) /\ IsAbsorber(j)
         /\ blocks' = blocks /\ i' = i + 1 /\ checked' = checked \cup ScanEdges
         /\ clusters' = [clusters EXCEPT ![i] = Current, ![j] = Merge(clusters[j], Current)]
  BY DEF MergeBlock
<1> DEFINE L == Len(blocks)
           e == Merge(clusters[j], Current)
<1>2. /\ i \in 1 .. L /\ i \in Nat /\ L \in Nat /\ j \in i + 1 .. L
      /\ DOMAIN clusters = 1 .. L /\ blocks[j].offset # -3
  BY <1>1, CurrentType, ScannedFacts, ScannedMeets, ListTypes DEF ListInv
<1>3. /\ Clique(blocks[i], clusters[i]) \subseteq Clique(blocks[j], e)
      /\ Clique(blocks[j], clusters[j]) \subseteq Clique(blocks[j], e)
  BY <1>1, <1>2, CliqueGrows
<1>4. clusters'[j] = e /\ \A n \in i + 1 .. L : n # j => clusters'[n] = clusters[n]
  <2> HIDE DEF e
  <2>1. clusters' = [clusters EXCEPT ![i] = Current, ![j] = e]
    BY <1>1 DEF e
  <2>2. \A n \in i + 1 .. L : n \in 1 .. L /\ n # i
    BY <1>2
  <2> QED
    BY <1>2, <2>1, <2>2
<1> HIDE DEF e, L
<1>5. ASSUME NEW n \in i .. L
      PROVE  \E m \in i' .. L : Clique(blocks[n], clusters[n]) \subseteq Clique(blocks'[m], clusters'[m])
  <2>1. j \in i' .. L
    BY <1>1, <1>2
  <2>2. CASE n = i \/ n = j
    BY <1>1, <1>3, <1>4, <2>1, <2>2
  <2>3. CASE n # i /\ n # j
    <3>1. n \in i + 1 .. L
      BY <1>2, <2>3
    <3>2. clusters'[n] = clusters[n]
      BY <1>4, <2>3, <3>1
    <3> QED
      BY <1>1, <3>1, <3>2
  <2> QED
    BY <2>2, <2>3
<1>6. checked \subseteq checked' /\ Len(blocks') = L /\ Len(blocks) = L
  BY <1>1 DEF L
<1> QED
  BY <1>5, <1>6, ClosedBack

LEMMA SplitCloses ==
    ASSUME GivenInv, NarrowBlocks, ListInv, ListGood(blocks, clusters, i), SplitBlock,
           NEW S, Closed(S)'
    PROVE  Closed(S)
<1>1. PICK j \in Scanned :
         /\ Scanning /\ ~Skipped(blocks[i]) /\ IsAbsorber(j) /\ NeedsSplit(j) /\ i' = i
         /\ checked' = checked \cup ScanEdges
         /\ blocks' = Shift(blocks, j, LowerBound(End(blocks[i])), Front(j), Remainder(j))
         /\ clusters' = Shift(clusters, j, LowerBound(End(blocks[i])), Merge(clusters[j], Current), Fresh)
  BY DEF SplitBlock
<1> DEFINE L == Len(blocks)
           e == Merge(clusters[j], Current)
           f == Front(j)
<1>2. /\ i \in 1 .. L /\ i \in Nat /\ L \in Nat /\ j \in i + 1 .. L /\ j \in 1 .. L
      /\ blocks[j].offset # -3
  BY <1>1, CurrentType, ScannedFacts, ScannedMeets, ListTypes DEF ListInv
<1>3. f.type = blocks[j].type /\ f.req = blocks[j].req /\ f.offset = blocks[j].offset
  BY <1>1, <1>2, PieceFacts
<1> HIDE DEF f
<1>4. /\ Clique(blocks[i], clusters[i]) \subseteq Clique(f, e)
      /\ Clique(blocks[j], clusters[j]) \subseteq Clique(f, e)
  BY <1>1, <1>2, <1>3, CliqueGrows
<1>5. PICK to, free : SplitTo(j, to, free)
  BY <1>1, SplitPlaces
<1>6. \A n \in i + 1 .. L : /\ to[n] \in i .. L
                            /\ n = j => blocks'[to[n]] = f /\ clusters'[to[n]] = e
                            /\ n # j => blocks'[to[n]] = blocks[n] /\ clusters'[to[n]] = clusters[n]
  BY <1>5 DEF SplitTo, f
<1> HIDE DEF e, L
<1>7. ASSUME NEW n \in i .. L
      PROVE  \E m \in i .. L : Clique(blocks[n], clusters[n]) \subseteq Clique(blocks'[m], clusters'[m])
  <2>1. CASE n = i \/ n = j
    <3>1. to[j] \in i .. L /\ blocks'[to[j]] = f /\ clusters'[to[j]] = e
      BY <1>2, <1>6
    <3> QED
      BY <1>4, <2>1, <3>1
  <2>2. CASE n # i /\ n # j
    <3>1. n \in i + 1 .. L
      BY <1>2, <2>2
    <3>2. to[n] \in i .. L /\ blocks'[to[n]] = blocks[n] /\ clusters'[to[n]] = clusters[n]
      BY <1>6, <2>2, <3>1
    <3> QED
      BY <3>2
  <2> QED
    BY <2>1, <2>2
<1>8. checked \subseteq checked' /\ Len(blocks') = L /\ Len(blocks) = L
  BY <1>1, <1>5 DEF SplitTo, L
<1> QED
  BY <1>1, <1>7, <1>8, ClosedBack

-----------------------------------------------------------------------------
(* What a turn compares is connected *)

LEMMA Greatest ==
    ASSUME NEW S, S \subseteq Nat, S # {}, NEW u \in Nat, \A n \in S : n <= u
    PROVE  \E n \in S : \A m \in S : m <= n
<1> DEFINE T == {k \in Nat : u - k \in S}
<1>1. PICK n \in S : n \in Nat /\ n <= u
  OBVIOUS
<1>2. u - n \in Nat /\ u - (u - n) = n
  BY <1>1
<1>3. u - n \in T
  BY <1>1, <1>2
<1>4. PICK k \in T : \A l \in T : k <= l
  BY <1>3, Least
<1>5. k \in Nat /\ u - k \in S
  BY <1>4
<1>6. ASSUME NEW m \in S PROVE m <= u - k
  <2>1. m \in Nat /\ m <= u
    BY <1>6
  <2>2. u - m \in Nat /\ u - (u - m) = m
    BY <2>1
  <2>3. u - m \in T
    BY <1>6, <2>2
  <2>4. k <= u - m
    BY <1>4, <2>3
  <2> QED
    BY <1>5, <2>1, <2>4
<1> QED
  BY <1>5, <1>6

LEMMA RequestsNat == Request \subseteq Nat
<1>1. IsFiniteSet(Request) /\ Request = 0 .. Cardinality(Request) - 1
  BY ClusterProductAssumption
<1>2. Cardinality(Request) \in Nat
  BY <1>1, FS_CardinalityType
<1>3. \A n \in Nat : 0 .. n - 1 \subseteq Nat
  OBVIOUS
<1> QED
  BY <1>1, <1>2, <1>3

\* A request is compared with its neighbours in the clique of block i, and so with all.
LEMMA ComparedLinked ==
    ASSUME ListInv, ListGood(blocks, clusters, i), Scanning, ~Skipped(blocks[i]),
           ScanEdges \subseteq checked', \A S \in SUBSET Request : Closed(S)' => Closed(S),
           NEW q \in Compared, Collides(blocks[i].type, blocks[q].type),
           NEW u, u = blocks[q].req, NEW m \in Reqs(blocks[i], clusters[i])
    PROVE  Linked(m, u)'
<1> DEFINE M == MembersOf(Current)
<1>1. /\ q \in Scanned /\ i \in 1 .. Len(blocks) /\ i \in i .. Len(blocks)
  BY CurrentType, ListTypes DEF Compared
<1>2. ItemGood(blocks[i], clusters[i])
  BY <1>1 DEF ListGood
<1>3. /\ Current \in ClusterType /\ Current.type = blocks[i].type
      /\ M = Reqs(blocks[i], clusters[i])
  BY <1>2, CurrentGood
<1>4. M \subseteq Request
  <2>1. Current.members \in Seq(Request)
    BY <1>3 DEF ClusterType
  <2> QED
    BY <2>1, ElementOfSeq DEF MembersOf
<1>5. u \in Request /\ m \in Request /\ m \in M
  BY <1>1, <1>3, <1>4, ScannedFacts, ListTypes
<1>6. u \in Nat /\ M \subseteq Nat
  BY <1>4, <1>5, RequestsNat
<1>7. DependencyEdges(Current, u) \subseteq checked'
  BY DEF ScanEdges
<1>8. \A S \in SUBSET Request : Closed(S)' =>
         /\ \A e \in DependencyEdges(Current, u) : e[1] \in S => e[2] \in S
         /\ HoldsLater(S, Clique(blocks[i], clusters[i]))
  <2>1. \A S : Closed(S)' => \A e \in checked' : e[1] \in S => e[2] \in S
    BY DEF Closed
  <2>2. \A S : Closed(S) => HoldsLater(S, Clique(blocks[i], clusters[i]))
    BY <1>1 DEF Closed
  <2> QED
    BY <1>7, <2>1, <2>2
<1>9. CASE blocks[i].type # "writable"
  <2>1. Ordered(m, u) \in DependencyEdges(Current, u)
    BY <1>3, <1>5, <1>9 DEF DependencyEdges
  <2>2. m < u => Ordered(m, u) = <<m, u>>
    BY DEF Ordered
  <2>3. u < m => Ordered(m, u) = <<u, m>>
    BY <1>5, <1>6 DEF Ordered
  <2>4. \A S \in SUBSET Request : Closed(S)' /\ Ordered(m, u)[1] \in S => Ordered(m, u)[2] \in S
    BY <1>8, <2>1
  <2> QED
    BY <2>2, <2>3, <2>4 DEF Linked, Follows
<1>10. CASE blocks[i].type = "writable"
  <2>1. Clique(blocks[i], clusters[i]) = M
    BY <1>3, <1>10 DEF Clique, Skipped
  <2>2. ASSUME NEW S \in SUBSET Request, Closed(S)', m \in S, m < u PROVE u \in S
    <3> DEFINE le == {n \in M : n <= u}
    <3>1. m \in le
      BY <1>5, <1>6, <2>2
    <3>2. PICK p \in le : \A n \in le : n <= p
      BY <1>6, <3>1, Greatest
    <3>3. <<p, u>> \in DependencyEdges(Current, u)
      BY <1>3, <1>10, <3>2 DEF DependencyEdges
    <3>4. p \in S => u \in S
      BY <1>8, <2>2, <3>3
    <3>5. p \in M /\ p \in Nat /\ m \in Nat /\ m <= p
      BY <1>5, <1>6, <3>1, <3>2
    <3>6. m < p => p \in S
      <4>1. HoldsLater(S, M)
        BY <1>8, <2>1, <2>2
      <4> QED
        BY <1>5, <2>2, <3>5, <4>1 DEF HoldsLater
    <3>7. m = p \/ m < p
      BY <3>5
    <3> QED
      BY <2>2, <3>4, <3>6, <3>7
  <2>3. ASSUME NEW S \in SUBSET Request, Closed(S)', u \in S, u < m PROVE m \in S
    <3> DEFINE gt == M \ {n \in M : n <= u}
    <3>1. m \in gt
      BY <1>5, <1>6, <2>3
    <3>2. PICK p \in gt : \A n \in gt : p <= n
      BY <1>6, <3>1, Least
    <3>3. <<u, p>> \in DependencyEdges(Current, u)
      BY <1>3, <1>10, <3>2 DEF DependencyEdges
    <3>4. p \in S
      BY <1>8, <2>3, <3>3
    <3>5. p \in M /\ p \in Nat /\ m \in Nat /\ p <= m
      BY <1>5, <1>6, <3>1, <3>2
    <3>6. p < m => m \in S
      BY <1>5, <1>8, <2>1, <2>3, <3>4, <3>5 DEF HoldsLater
    <3>7. m = p \/ p < m
      BY <3>5
    <3> QED
      BY <3>4, <3>6, <3>7
  <2> QED
    BY <2>2, <2>3 DEF Linked, Follows
<1> QED
  BY <1>9, <1>10

LEMMA CliqueLinked ==
    ASSUME NEW n \in i' .. Len(blocks'), NEW C, C = Clique(blocks'[n], clusters'[n]),
           NEW r \in C, NEW s \in C
    PROVE  Linked(r, s)'
<1>1. \A S : Closed(S)' => HoldsLater(S, C)
  BY DEF Closed
<1> QED
  BY <1>1 DEF HoldsLater, Linked, Follows

-----------------------------------------------------------------------------
(* What a turn does not compare is still to be compared *)

\* What clashes with item j clashes with y or with the rest of it.
StaysMet(j, to, y) ==
    \A q \in i + 1 .. Len(blocks) :
        q # j /\ Clash(blocks[j], blocks[q]) =>
            \/ Clash(y, blocks[q])
            \/ \E free \in i' .. Len(blocks) :
                  /\ free # to[q] /\ Clash(blocks'[free], blocks[q])
                  /\ \A o \in Blocks : PieceOf(blocks[j], o) => PieceOf(blocks'[free], o)

\* What also clashes with a block that item j has taken in clashes with y.
StaysAhead(j, y) ==
    \A q \in i + 1 .. Len(blocks) : \A a \in Blocks :
        j < q /\ Clash(blocks[j], blocks[q])
        /\ Took(blocks[j], clusters[j], a) /\ Clash(a, blocks[q])
           => Clash(y, blocks[q])

\* The items behind i are at new places, in their order.
Moved(j, to, y) ==
    /\ Len(blocks') = Len(blocks)
    /\ \A n \in i + 1 .. Len(blocks) :
          /\ to[n] \in i' .. Len(blocks)
          /\ n = j => blocks'[to[n]] = y /\ clusters'[to[n]] = Merge(clusters[j], Current)
          /\ n # j => blocks'[to[n]] = blocks[n] /\ clusters'[to[n]] = clusters[n]
    /\ \A m, n \in i + 1 .. Len(blocks) : m < n => to[m] < to[n]

\* Block i has gone into item j, which is now y.
Absorbed(j, to, y) ==
    /\ Moved(j, to, y)
    /\ y.type = blocks[j].type /\ y.req = blocks[j].req /\ y.offset = blocks[j].offset
    /\ End(y) \in Int /\ End(blocks[i]) <= End(y)
    /\ y.type = "int_additive" => y = blocks[j]
    /\ \A o \in Blocks : PieceOf(blocks[j], o) => PieceOf(y, o)
    /\ StaysMet(j, to, y) /\ StaysAhead(j, y)

\* Of two items that clash, the later begins in the earlier.
LEMMA ClashAhead ==
    ASSUME GivenInv, ListInv, ListGood(blocks, clusters, i),
           NEW p \in i .. Len(blocks), NEW q \in i .. Len(blocks), p < q,
           Clash(blocks[p], blocks[q])
    PROVE  /\ blocks[p].offset <= blocks[q].offset /\ blocks[q].offset < End(blocks[p])
           /\ blocks[q].offset < End(blocks[q])
           /\ blocks[p].offset \in Int /\ blocks[q].offset \in Int
           /\ End(blocks[p]) \in Int /\ End(blocks[q]) \in Int
<1>1. ItemGood(blocks[p], clusters[p]) /\ ItemGood(blocks[q], clusters[q])
  BY DEF ListGood
<1>2. blocks[p].offset # -3 /\ blocks[q].offset # -3 /\ ~Apart(blocks[p], blocks[q])
  BY DEF Clash
<1>3. blocks[p].offset <= blocks[q].offset
  BY DEF ListInv, SortedFrom
<1>4. /\ blocks[p].offset \in Int /\ blocks[q].offset \in Int
      /\ End(blocks[p]) \in Int /\ End(blocks[q]) \in Int
      /\ blocks[q].offset < End(blocks[q])
  BY <1>1, <1>2, ItemTypes
<1> QED
  BY <1>2, <1>3, <1>4 DEF Apart

\* Two blocks of which one begins in the other.
LEMMA ClashWithin ==
    ASSUME NEW a, NEW b, a.offset \in Int, b.offset \in Int, End(a) \in Int, End(b) \in Int,
           a.offset # -3, b.offset # -3,
           a.offset <= b.offset, b.offset < End(a), b.offset < End(b),
           Collides(a.type, b.type), ~AdditiveSameBlock(a, b)
    PROVE  Clash(a, b)
BY DEF Clash, Apart

LEMMA PendingSymmetric ==
    ASSUME NEW a, NEW b
    PROVE  /\ Pending(a, b) => Pending(b, a)
           /\ Linked(a.req, b.req) => Linked(b.req, a.req)
<1>1. AwaitsPieces(a, b) => AwaitsPieces(b, a)
  BY ClashSymmetric DEF AwaitsPieces
<1> QED
  BY <1>1 DEF Pending, Linked

\* The scan of block i visits every later item that clashes with it.
LEMMA ClashScanned ==
    ASSUME GivenInv, ListInv, ListGood(blocks, clusters, i), Scanning,
           NEW q \in i + 1 .. Len(blocks), Clash(blocks[i], blocks[q])
    PROVE  q \in Scanned /\ ~Skipped(blocks[i])
<1>1. /\ i \in Nat /\ Len(blocks) \in Nat /\ i \in i .. Len(blocks) /\ q \in i .. Len(blocks) /\ i < q
  BY ListTypes DEF Scanning
<1>2. blocks[q].offset < End(blocks[i]) /\ blocks[q].offset \in Int /\ End(blocks[i]) \in Int
  BY <1>1, ClashAhead
<1>3. ASSUME NEW k \in i + 1 .. q PROVE blocks[k].offset < End(blocks[i])
  <2>1. k \in i .. Len(blocks) /\ (k = q \/ k < q)
    BY <1>1
  <2>2. k < q => blocks[k].offset <= blocks[q].offset
    BY <1>1, <2>1 DEF ListInv, SortedFrom
  <2>3. k \in 1 .. Len(blocks)
    BY <1>1, <2>1, ListTypes
  <2>4. blocks[k].offset \in Int
    BY <2>3, ListTypes
  <2> QED
    BY <1>2, <2>1, <2>2, <2>4
<1>4. ~Skipped(blocks[i])
  BY DEF Clash, Skipped, Collides
<1> QED
  BY <1>3, <1>4 DEF Scanned

LEMMA PiecesMoved ==
    ASSUME NEW j, NEW to, NEW y, Absorbed(j, to, y), j \in i + 1 .. Len(blocks), i \in Nat,
           NEW a \in Blocks, NEW b \in Blocks,
           NEW p \in i + 1 .. Len(blocks), NEW q \in i + 1 .. Len(blocks), p # q,
           PieceOf(blocks[p], a), PieceOf(blocks[q], b), Clash(blocks[p], blocks[q]),
           Len(blocks) \in Nat, i' \in Nat
    PROVE  AwaitsPieces(a, b)'
<1> DEFINE Awaits(m, n) == /\ m # n /\ PieceOf(blocks'[m], a) /\ PieceOf(blocks'[n], b)
                           /\ Clash(blocks'[m], blocks'[n])
<1> SUFFICES \E m, n \in i' .. Len(blocks') : Awaits(m, n)
  BY DEF AwaitsPieces
<1>1. /\ Len(blocks') = Len(blocks)
      /\ \A n \in i + 1 .. Len(blocks) :
            /\ to[n] \in i' .. Len(blocks)
            /\ n = j => blocks'[to[n]] = y
            /\ n # j => blocks'[to[n]] = blocks[n]
      /\ \A o \in Blocks : PieceOf(blocks[j], o) => PieceOf(y, o)
      /\ \A n \in i + 1 .. Len(blocks) : n # j /\ Clash(blocks[j], blocks[n]) =>
            \/ Clash(y, blocks[n])
            \/ \E free \in i' .. Len(blocks) :
                  /\ free # to[n] /\ Clash(blocks'[free], blocks[n])
                  /\ \A o \in Blocks : PieceOf(blocks[j], o) => PieceOf(blocks'[free], o)
  BY DEF Absorbed, Moved, StaysMet
<1>2. to[p] # to[q]
  <2>1. \A m, n \in i + 1 .. Len(blocks) : m < n => to[m] < to[n]
    BY DEF Absorbed, Moved
  <2>2. p < q \/ q < p
    OBVIOUS
  <2>3. to[p] \in Int /\ to[q] \in Int
    BY <1>1
  <2> QED
    BY <2>1, <2>2, <2>3
<1>3. CASE p = j
  <2>1. /\ q # j /\ Clash(blocks[j], blocks[q]) /\ PieceOf(blocks[j], a)
        /\ blocks'[to[q]] = blocks[q] /\ to[q] \in i' .. Len(blocks)
        /\ blocks'[to[p]] = y /\ to[p] \in i' .. Len(blocks)
    BY <1>1, <1>3
  <2>2. CASE Clash(y, blocks[q])
    <3>1. Awaits(to[p], to[q])
      BY <1>1, <1>2, <2>1, <2>2
    <3> QED
      BY <1>1, <2>1, <3>1
  <2>3. CASE \E free \in i' .. Len(blocks) :
                  /\ free # to[q] /\ Clash(blocks'[free], blocks[q])
                  /\ \A o \in Blocks : PieceOf(blocks[j], o) => PieceOf(blocks'[free], o)
    <3>1. PICK free \in i' .. Len(blocks) :
                  /\ free # to[q] /\ Clash(blocks'[free], blocks[q])
                  /\ \A o \in Blocks : PieceOf(blocks[j], o) => PieceOf(blocks'[free], o)
      BY <2>3
    <3>2. Awaits(free, to[q])
      BY <1>1, <2>1, <3>1
    <3> QED
      BY <1>1, <2>1, <3>2
  <2> QED
    BY <1>1, <2>1, <2>2, <2>3
<1>4. CASE q = j
  <2>1. /\ p # j /\ Clash(blocks[j], blocks[p]) /\ PieceOf(blocks[j], b)
        /\ blocks'[to[p]] = blocks[p] /\ to[p] \in i' .. Len(blocks)
        /\ blocks'[to[q]] = y /\ to[q] \in i' .. Len(blocks)
    BY <1>1, <1>4, ClashSymmetric
  <2>2. CASE Clash(y, blocks[p])
    <3>1. Awaits(to[p], to[q])
      BY <1>1, <1>2, <2>1, <2>2, ClashSymmetric
    <3> QED
      BY <1>1, <2>1, <3>1
  <2>3. CASE \E free \in i' .. Len(blocks) :
                  /\ free # to[p] /\ Clash(blocks'[free], blocks[p])
                  /\ \A o \in Blocks : PieceOf(blocks[j], o) => PieceOf(blocks'[free], o)
    <3>1. PICK free \in i' .. Len(blocks) :
                  /\ free # to[p] /\ Clash(blocks'[free], blocks[p])
                  /\ \A o \in Blocks : PieceOf(blocks[j], o) => PieceOf(blocks'[free], o)
      BY <2>3
    <3>2. Awaits(to[p], free)
      BY <1>1, <2>1, <3>1, ClashSymmetric
    <3> QED
      BY <1>1, <2>1, <3>2
  <2> QED
    BY <1>1, <2>1, <2>2, <2>3
<1>5. CASE p # j /\ q # j
  <2>1. Awaits(to[p], to[q])
    BY <1>1, <1>2, <1>5
  <2> QED
    BY <1>1, <2>1
<1> QED
  BY <1>3, <1>4, <1>5

\* What holds at every turn in which block i goes into item j.
Absorbing(j) ==
    /\ GivenInv /\ NarrowBlocks /\ ListInv /\ ListGood(blocks, clusters, i) /\ PiecesGood(blocks, i)
    /\ Scanning /\ ~Skipped(blocks[i]) /\ j \in Scanned /\ IsAbsorber(j)
    /\ i' \in Nat
    /\ ScanEdges \subseteq checked'
    /\ \A S \in SUBSET Request : Closed(S)' => Closed(S)

LEMMA AbsorbingFacts ==
    ASSUME NEW j, NEW to, NEW y, Absorbing(j), Absorbed(j, to, y)
    PROVE  /\ i \in Nat /\ Len(blocks) \in Nat /\ j \in i + 1 .. Len(blocks)
           /\ i \in i .. Len(blocks) /\ j \in i .. Len(blocks) /\ i < j
           /\ blocks[i].offset \in Int /\ y.offset \in Int /\ End(y) \in Int /\ End(blocks[i]) \in Int
           /\ blocks[i].offset <= y.offset /\ y.offset < End(blocks[i]) /\ End(blocks[i]) <= End(y)
           /\ blocks[i].offset # -3 /\ y.offset # -3
           /\ blocks[i].type = y.type /\ blocks[i].req # y.req
           /\ y.type = "int_additive" =>
                 y = blocks[j] /\ y.offset = blocks[i].offset /\ y.size = blocks[i].size
           /\ Reqs(y, Merge(clusters[j], Current))
                 = Reqs(blocks[j], clusters[j]) \cup Reqs(blocks[i], clusters[i])
<1>1. /\ y.type = blocks[j].type /\ y.req = blocks[j].req /\ y.offset = blocks[j].offset
      /\ End(y) \in Int /\ End(blocks[i]) <= End(y)
      /\ y.type = "int_additive" => y = blocks[j]
  BY DEF Absorbed, Moved
<1>2. /\ i \in Nat /\ Len(blocks) \in Nat /\ j \in i + 1 .. Len(blocks)
      /\ i \in i .. Len(blocks) /\ j \in i .. Len(blocks) /\ i < j
      /\ i \in 1 .. Len(blocks) /\ j \in 1 .. Len(blocks)
      /\ blocks[i].offset <= blocks[j].offset /\ blocks[j].offset < End(blocks[i])
      /\ blocks[i].offset # -3 /\ blocks[j].offset # -3 /\ ~Apart(blocks[i], blocks[j])
  BY ScannedMeets, ScannedFacts, ListTypes DEF Absorbing
<1>3. /\ blocks[i].type = blocks[j].type
      /\ blocks[i].type = "int_additive" =>
            blocks[i].offset = blocks[j].offset /\ blocks[i].size = blocks[j].size
  BY AbsorberFacts DEF Absorbing
<1>4. blocks[i].offset \in Int /\ blocks[j].offset \in Int /\ End(blocks[i]) \in Int
  BY <1>2, ListTypes DEF Absorbing
<1>5. blocks[i].req # blocks[j].req
  <2>1. PiecesGood(blocks, i) /\ i # j
    BY <1>2 DEF Absorbing
  <2> QED
    BY <1>2, <2>1 DEF PiecesGood
<1>6. Reqs(blocks[j], Merge(clusters[j], Current))
         = Reqs(blocks[j], clusters[j]) \cup Reqs(blocks[i], clusters[i])
  BY AbsorberCluster DEF Absorbing
<1>7. Reqs(y, Merge(clusters[j], Current)) = Reqs(blocks[j], Merge(clusters[j], Current))
  BY <1>1 DEF Reqs
<1> QED
  BY <1>1, <1>2, <1>3, <1>4, <1>5, <1>6, <1>7

\* The cluster of item j, with that of block i, is compared with the items behind it.
LEMMA StillTook ==
    ASSUME NEW j, NEW to, NEW y, Absorbing(j), Absorbed(j, to, y), NEW a,
           \/ Took(blocks[j], clusters[j], a)
           \/ /\ a.req \in Reqs(blocks[i], clusters[i]) /\ a.req # y.req
              /\ a.type = blocks[i].type /\ a.offset \in Int /\ a.offset <= blocks[i].offset
              /\ a.type = "int_additive" => a.offset = blocks[i].offset /\ a.size = blocks[i].size
    PROVE  Took(y, Merge(clusters[j], Current), a)
<1>1. /\ y.type = blocks[j].type /\ y.req = blocks[j].req /\ y.offset = blocks[j].offset
      /\ y.type = "int_additive" => y = blocks[j]
  BY DEF Absorbed, Moved
<1>2. /\ blocks[i].offset \in Int /\ y.offset \in Int /\ blocks[i].offset <= y.offset
      /\ blocks[i].type = y.type
      /\ y.type = "int_additive" => y.offset = blocks[i].offset /\ y.size = blocks[i].size
      /\ Reqs(y, Merge(clusters[j], Current))
            = Reqs(blocks[j], clusters[j]) \cup Reqs(blocks[i], clusters[i])
  BY AbsorbingFacts
<1>3. \A r : r \in Reqs(y, Merge(clusters[j], Current)) /\ r # y.req
                => r \in MembersOf(Merge(clusters[j], Current))
  BY DEF Reqs
<1>4. CASE Took(blocks[j], clusters[j], a)
  <2>1. a.req \in Reqs(blocks[j], clusters[j]) /\ a.req # y.req
    BY <1>1, <1>4 DEF Took, Reqs
  <2>2. a.req \in MembersOf(Merge(clusters[j], Current))
    BY <1>2, <1>3, <2>1
  <2> QED
    BY <1>1, <1>4, <2>1, <2>2 DEF Took
<1>5. CASE /\ a.req \in Reqs(blocks[i], clusters[i]) /\ a.req # y.req
           /\ a.type = blocks[i].type /\ a.offset \in Int /\ a.offset <= blocks[i].offset
           /\ a.type = "int_additive" => a.offset = blocks[i].offset /\ a.size = blocks[i].size
  <2>1. a.req \in MembersOf(Merge(clusters[j], Current))
    BY <1>2, <1>3, <1>5
  <2>2. a.offset <= y.offset
    BY <1>2, <1>5
  <2> QED
    BY <1>2, <1>5, <2>1, <2>2 DEF Took
<1> QED
  BY <1>4, <1>5

LEMMA ClusterMoved ==
    ASSUME NEW j, NEW to, NEW y, Absorbing(j), Absorbed(j, to, y),
           NEW a \in Blocks, NEW b \in Blocks,
           NEW p \in i + 1 .. Len(blocks), NEW q \in i + 1 .. Len(blocks), p < q,
           Took(blocks[p], clusters[p], a), PieceOf(blocks[q], b),
           Clash(blocks[p], blocks[q]), Clash(a, blocks[q])
    PROVE  AwaitsCluster(a, b)'
<1> DEFINE Awaits(m, n) == /\ m < n /\ Took(blocks'[m], clusters'[m], a) /\ PieceOf(blocks'[n], b)
                           /\ Clash(blocks'[m], blocks'[n]) /\ Clash(a, blocks'[n])
<1> SUFFICES \E m, n \in i' .. Len(blocks') : Awaits(m, n)
  BY DEF AwaitsCluster
<1>1. /\ Len(blocks') = Len(blocks)
      /\ \A n \in i + 1 .. Len(blocks) :
            /\ to[n] \in i' .. Len(blocks)
            /\ n = j => blocks'[to[n]] = y /\ clusters'[to[n]] = Merge(clusters[j], Current)
            /\ n # j => blocks'[to[n]] = blocks[n] /\ clusters'[to[n]] = clusters[n]
      /\ \A m, n \in i + 1 .. Len(blocks) : m < n => to[m] < to[n]
      /\ \A o \in Blocks : PieceOf(blocks[j], o) => PieceOf(y, o)
  BY DEF Absorbed, Moved
<1>2. /\ i \in Nat /\ Len(blocks) \in Nat /\ j \in i + 1 .. Len(blocks)
      /\ y.offset \in Int /\ End(y) \in Int /\ y.offset < End(y) /\ y.offset # -3
      /\ y.type = blocks[j].type /\ y.offset = blocks[j].offset
      /\ y.type = "int_additive" => y = blocks[j]
  <2>1. /\ i \in Nat /\ Len(blocks) \in Nat /\ j \in i + 1 .. Len(blocks)
        /\ y.offset \in Int /\ End(y) \in Int /\ End(blocks[i]) \in Int
        /\ y.offset < End(blocks[i]) /\ End(blocks[i]) <= End(y) /\ y.offset # -3
    BY AbsorbingFacts
  <2> QED
    BY <2>1 DEF Absorbed, Moved
<1>3. to[p] < to[q] /\ to[p] \in i' .. Len(blocks') /\ to[q] \in i' .. Len(blocks')
  BY <1>1
<1>4. /\ GivenInv /\ ListInv /\ ListGood(blocks, clusters, i)
      /\ p \in i .. Len(blocks) /\ q \in i .. Len(blocks)
  BY <1>2 DEF Absorbing
<1>5. /\ blocks[p].offset <= blocks[q].offset /\ blocks[q].offset < End(blocks[p])
      /\ blocks[q].offset < End(blocks[q])
      /\ blocks[p].offset \in Int /\ blocks[q].offset \in Int
      /\ End(blocks[p]) \in Int /\ End(blocks[q]) \in Int
  BY <1>4, ClashAhead
<1>6. Awaits(to[p], to[q])
  <2>1. CASE p = j
    <3>1. q # j /\ j < q
      BY <1>2, <2>1
    <3>2. Took(y, Merge(clusters[j], Current), a)
      BY <2>1, StillTook
    <3>3. Clash(y, blocks[q])
      BY <2>1, <3>1 DEF Absorbed, Moved, StaysAhead
    <3>4. blocks'[to[p]] = y /\ clusters'[to[p]] = Merge(clusters[j], Current)
      BY <1>1, <2>1
    <3> QED
      BY <1>1, <1>3, <3>1, <3>2, <3>3, <3>4
  <2>2. CASE q = j
    <3>1. p # j
      BY <1>2, <2>2
    <3>2. PieceOf(y, b)
      BY <1>1, <2>2
    <3>3. CASE y = blocks[j]
      BY <1>1, <1>3, <2>2, <3>1, <3>2, <3>3
    <3>4. CASE y.type # "int_additive"
      <4>1. \A x : ~AdditiveSameBlock(x, y)
        BY <3>4 DEF AdditiveSameBlock
      <4>2. /\ blocks[p].offset # -3 /\ a.offset # -3
            /\ Collides(blocks[p].type, y.type) /\ Collides(a.type, y.type)
            /\ ~Apart(a, blocks[j])
        BY <1>2, <2>2 DEF Clash
      <4>3. Clash(blocks[p], y)
        BY <1>2, <1>5, <2>2, <4>1, <4>2, ClashWithin
      <4>4. a.offset \in Int /\ End(a) \in Int
        BY <1>4, BlockItem
      <4>5. a.offset <= blocks[p].offset
        BY DEF Took
      <4>6. a.offset <= y.offset /\ y.offset < End(a)
        <5>1. a.offset <= blocks[j].offset /\ blocks[j].offset < End(blocks[j])
          BY <1>5, <2>2, <4>4, <4>5
        <5> QED
          BY <1>2, <1>5, <2>2, <4>2, <4>4, <5>1 DEF Apart
      <4>7. Clash(a, y)
        BY <1>2, <4>1, <4>2, <4>4, <4>6, ClashWithin
      <4>8. /\ blocks'[to[q]] = y /\ blocks'[to[p]] = blocks[p] /\ clusters'[to[p]] = clusters[p]
        BY <1>1, <2>2, <3>1
      <4> QED
        BY <1>3, <3>2, <4>3, <4>7, <4>8
    <3> QED
      BY <1>2, <3>3, <3>4
  <2>3. CASE p # j /\ q # j
    BY <1>1, <1>3, <2>3
  <2> QED
    BY <2>1, <2>2, <2>3
<1> QED
  BY <1>3, <1>6

\* What block i meets behind its absorber, the absorber meets as well.
LEMMA Passed ==
    ASSUME NEW j, NEW to, NEW y, Absorbing(j), Absorbed(j, to, y),
           NEW q \in i + 1 .. Len(blocks), j < q, Clash(blocks[i], blocks[q])
    PROVE  /\ Clash(y, blocks[q])
           /\ y.offset <= blocks[q].offset /\ blocks[i].offset <= blocks[q].offset
           /\ blocks[q].offset < End(blocks[i])
           /\ blocks[q].offset \in Int /\ blocks[q].offset < End(blocks[q]) /\ End(blocks[q]) \in Int
<1>1. /\ i \in Nat /\ Len(blocks) \in Nat /\ j \in i + 1 .. Len(blocks)
      /\ i \in i .. Len(blocks) /\ j \in i .. Len(blocks)
      /\ y.offset \in Int /\ End(y) \in Int /\ End(blocks[i]) \in Int
      /\ End(blocks[i]) <= End(y) /\ y.offset # -3
      /\ blocks[i].type = y.type
      /\ y.type = "int_additive" =>
            y = blocks[j] /\ y.offset = blocks[i].offset /\ y.size = blocks[i].size
  BY AbsorbingFacts
<1>2. /\ GivenInv /\ ListInv /\ ListGood(blocks, clusters, i)
      /\ q \in i .. Len(blocks) /\ i < q
  BY <1>1 DEF Absorbing
<1>3. /\ blocks[i].offset <= blocks[q].offset /\ blocks[q].offset < End(blocks[i])
      /\ blocks[q].offset < End(blocks[q])
      /\ blocks[q].offset \in Int /\ End(blocks[q]) \in Int
  BY <1>1, <1>2, ClashAhead
<1>4. y.offset <= blocks[q].offset
  <2>1. blocks[j].offset <= blocks[q].offset
    BY <1>1, <1>2 DEF ListInv, SortedFrom
  <2> QED
    BY <2>1 DEF Absorbed, Moved
<1>5. /\ blocks[q].offset # -3 /\ Collides(y.type, blocks[q].type)
      /\ ~AdditiveSameBlock(blocks[i], blocks[q])
  BY <1>1 DEF Clash
<1>6. ~AdditiveSameBlock(y, blocks[q])
  BY <1>1, <1>5 DEF AdditiveSameBlock
<1>7. blocks[q].offset < End(y)
  BY <1>1, <1>3
<1>8. Clash(y, blocks[q])
  BY <1>1, <1>3, <1>4, <1>5, <1>6, <1>7, ClashWithin
<1> QED
  BY <1>3, <1>4, <1>8

\* What block i meets up to its absorber is compared with it, or goes into the same clique.
LEMMA FirstLinked ==
    ASSUME NEW j, NEW to, NEW y, Absorbing(j), Absorbed(j, to, y),
           NEW q \in i + 1 .. Len(blocks), q <= j, Clash(blocks[i], blocks[q]),
           NEW m \in Reqs(blocks[i], clusters[i]), NEW u, u = blocks[q].req
    PROVE  Linked(m, u)'
<1>1. /\ i \in Nat /\ Len(blocks) \in Nat /\ j \in i + 1 .. Len(blocks)
      /\ y.offset # -3 /\ blocks[i].type = y.type
      /\ y.type = "int_additive" =>
            y = blocks[j] /\ y.offset = blocks[i].offset /\ y.size = blocks[i].size
      /\ Reqs(y, Merge(clusters[j], Current))
            = Reqs(blocks[j], clusters[j]) \cup Reqs(blocks[i], clusters[i])
  BY AbsorbingFacts
<1>2. Collides(blocks[i].type, blocks[q].type) /\ ~AdditiveSameBlock(blocks[i], blocks[q])
  BY DEF Clash
<1>3. /\ GivenInv /\ ListInv /\ ListGood(blocks, clusters, i) /\ Scanning /\ ~Skipped(blocks[i])
      /\ IsAbsorber(j) /\ ScanEdges \subseteq checked'
      /\ \A S \in SUBSET Request : Closed(S)' => Closed(S)
  BY DEF Absorbing
<1>4. CASE q < j
  <2>1. q \in Scanned
    BY <1>3, ClashScanned
  <2>2. ASSUME NEW k \in i + 1 .. q PROVE ~Absorbs(k)
    <3>1. k \in Scanned
      BY <1>1, <2>1 DEF Scanned
    <3>2. k < j
      BY <1>1, <1>4
    <3> QED
      BY <1>1, <1>3, <3>1, <3>2 DEF IsAbsorber
  <2>3. q \in Compared
    BY <2>1, <2>2 DEF Compared
  <2> QED
    BY <1>2, <1>3, <2>3, ComparedLinked
<1>5. CASE q = j
  <2>1. blocks[j].type = y.type /\ blocks[j].req = y.req
    BY DEF Absorbed, Moved
  <2>2. y.type = "writable"
    <3>1. blocks[i].type \in Types
      BY <1>3, CurrentType, ListTypes
    <3>2. y.type # "int_additive"
      BY <1>1, <1>2, <1>5 DEF AdditiveSameBlock
    <3> QED
      BY <1>1, <1>2, <1>5, <2>1, <3>1, <3>2 DEF Collides, Types
  <2>3. Clique(y, Merge(clusters[j], Current)) = Reqs(y, Merge(clusters[j], Current))
    BY <1>1, <2>2 DEF Clique
  <2>4. /\ to[j] \in i' .. Len(blocks')
        /\ blocks'[to[j]] = y /\ clusters'[to[j]] = Merge(clusters[j], Current)
    BY <1>1 DEF Absorbed, Moved
  <2>5. /\ m \in Clique(y, Merge(clusters[j], Current))
        /\ u \in Clique(y, Merge(clusters[j], Current))
    BY <1>1, <1>5, <2>1, <2>3 DEF Reqs
  <2> QED
    BY <2>4, <2>5, CliqueLinked
<1> QED
  BY <1>1, <1>4, <1>5

LEMMA FirstPieces ==
    ASSUME NEW j, NEW to, NEW y, Absorbing(j), Absorbed(j, to, y),
           NEW a \in Blocks, NEW b \in Blocks, NEW q \in i + 1 .. Len(blocks),
           PieceOf(blocks[i], a), PieceOf(blocks[q], b), Clash(blocks[i], blocks[q])
    PROVE  Linked(a.req, b.req)' \/ AwaitsCluster(a, b)'
<1>1. /\ i \in Nat /\ Len(blocks) \in Nat /\ j \in i + 1 .. Len(blocks)
      /\ blocks[i].type = y.type /\ blocks[i].req # y.req
      /\ blocks[i].offset \in Int /\ End(blocks[i]) \in Int
  BY AbsorbingFacts
<1>2. /\ a.type = blocks[i].type /\ a.req = blocks[i].req /\ b.req = blocks[q].req
      /\ a.offset <= blocks[i].offset /\ End(blocks[i]) <= End(a) /\ a.offset # -3
      /\ blocks[i].type = "int_additive" => blocks[i] = a
  BY DEF PieceOf
<1>3. a.offset \in Int /\ End(a) \in Int
  BY BlockItem DEF Absorbing
<1>4. CASE q <= j
  <2>1. a.req \in Reqs(blocks[i], clusters[i])
    BY <1>2 DEF Reqs
  <2> QED
    BY <1>2, <1>4, <2>1, FirstLinked
<1>5. CASE j < q
  <2>1. /\ Clash(y, blocks[q]) /\ blocks[i].offset <= blocks[q].offset
        /\ blocks[q].offset < End(blocks[i])
        /\ blocks[q].offset \in Int /\ blocks[q].offset < End(blocks[q]) /\ End(blocks[q]) \in Int
    BY <1>5, Passed
  <2>2. Clash(a, blocks[q])
    <3>1. /\ blocks[q].offset # -3 /\ Collides(a.type, blocks[q].type)
          /\ ~AdditiveSameBlock(blocks[i], blocks[q])
      BY <1>2 DEF Clash
    <3>2. ~AdditiveSameBlock(a, blocks[q])
      BY <1>2, <3>1 DEF AdditiveSameBlock
    <3>3. a.offset <= blocks[q].offset
      <4>1. a.offset <= blocks[i].offset
        BY <1>2
      <4>2. blocks[i].offset \in Int
        BY <1>1
      <4> QED
        BY <1>3, <2>1, <4>1, <4>2
    <3>4. blocks[q].offset < End(a)
      <4>1. End(blocks[i]) <= End(a)
        BY <1>2
      <4>2. End(blocks[i]) \in Int
        BY <1>1
      <4> QED
        BY <1>3, <2>1, <4>1, <4>2
    <3>5. a.offset # -3 /\ a.offset \in Int /\ End(a) \in Int
      BY <1>2, <1>3
    <3> QED
      BY <2>1, <3>1, <3>2, <3>3, <3>4, <3>5, ClashWithin
  <2>3. Took(y, Merge(clusters[j], Current), a)
    <3>1. /\ a.req \in Reqs(blocks[i], clusters[i]) /\ a.req # y.req
          /\ a.type = blocks[i].type /\ a.offset \in Int /\ a.offset <= blocks[i].offset
          /\ a.type = "int_additive" => a.offset = blocks[i].offset /\ a.size = blocks[i].size
      BY <1>1, <1>2, <1>3 DEF Reqs
    <3> QED
      BY <3>1, StillTook
  <2>4. /\ to[j] \in i' .. Len(blocks') /\ to[q] \in i' .. Len(blocks') /\ to[j] < to[q]
        /\ blocks'[to[j]] = y /\ clusters'[to[j]] = Merge(clusters[j], Current)
        /\ blocks'[to[q]] = blocks[q]
    BY <1>1, <1>5 DEF Absorbed, Moved
  <2>5. AwaitsCluster(a, b)'
    BY <2>1, <2>2, <2>3, <2>4 DEF AwaitsCluster
  <2> QED
    BY <2>5
<1> QED
  BY <1>1, <1>4, <1>5

LEMMA FirstCluster ==
    ASSUME NEW j, NEW to, NEW y, Absorbing(j), Absorbed(j, to, y),
           NEW a \in Blocks, NEW b \in Blocks, NEW q \in i + 1 .. Len(blocks),
           Took(blocks[i], clusters[i], a), PieceOf(blocks[q], b),
           Clash(blocks[i], blocks[q]), Clash(a, blocks[q])
    PROVE  Linked(a.req, b.req)' \/ AwaitsCluster(a, b)' \/ AwaitsPieces(a, b)'
<1>1. /\ i \in Nat /\ Len(blocks) \in Nat /\ j \in i + 1 .. Len(blocks)
      /\ j \in i .. Len(blocks)
      /\ blocks[i].type = y.type /\ blocks[i].req # y.req
      /\ blocks[i].offset \in Int /\ End(blocks[i]) \in Int
      /\ y.offset \in Int /\ End(y) \in Int /\ y.offset < End(blocks[i]) /\ y.offset # -3
      /\ blocks[i].offset <= y.offset
  BY AbsorbingFacts
<1>2. /\ a.req \in Reqs(blocks[i], clusters[i])
      /\ a.type = blocks[i].type /\ a.offset <= blocks[i].offset
      /\ a.type = "int_additive" => a.offset = blocks[i].offset /\ a.size = blocks[i].size
  BY DEF Took, Reqs
<1>3. a.offset \in Int /\ End(a) \in Int
  BY BlockItem DEF Absorbing
<1>4. CASE q <= j
  BY <1>2, <1>4, FirstLinked DEF PieceOf
<1>5. CASE j < q
  <2>1. /\ Clash(y, blocks[q]) /\ y.offset <= blocks[q].offset
        /\ blocks[q].offset \in Int /\ blocks[q].offset < End(blocks[q]) /\ End(blocks[q]) \in Int
    BY <1>5, Passed
  <2>2. /\ to[j] \in i' .. Len(blocks') /\ to[q] \in i' .. Len(blocks') /\ to[j] < to[q]
        /\ blocks'[to[j]] = y /\ clusters'[to[j]] = Merge(clusters[j], Current)
        /\ blocks'[to[q]] = blocks[q]
    BY <1>1, <1>5 DEF Absorbed, Moved
  <2>3. CASE a.req # y.req
    <3>1. Took(y, Merge(clusters[j], Current), a)
      BY <1>2, <1>3, <2>3, StillTook
    <3>2. AwaitsCluster(a, b)'
      BY <2>1, <2>2, <3>1 DEF AwaitsCluster
    <3> QED
      BY <3>2
  <2>4. CASE a.req = y.req
    <3>1. /\ blocks[j].type = y.type /\ blocks[j].req = y.req /\ blocks[j].offset = y.offset
          /\ \A o \in Blocks : PieceOf(blocks[j], o) => PieceOf(y, o)
      BY DEF Absorbed, Moved
    <3>2. GivenInv /\ ListInv /\ ListGood(blocks, clusters, i) /\ PiecesGood(blocks, i)
      BY DEF Absorbing
    <3>3. ItemGood(blocks[j], clusters[j])
      BY <1>1, <3>2 DEF ListGood
    <3>4. blocks[j].offset < End(blocks[j]) /\ End(blocks[j]) \in Int
      BY <1>1, <3>1, <3>2, <3>3, ItemTypes
    <3>5. PICK o \in Blocks : PieceOf(blocks[j], o)
      BY <1>1, <3>1, <3>2 DEF PiecesGood, SplitOnce
    <3>6. /\ o.req = a.req /\ o.offset # -3 /\ o.offset <= y.offset /\ y.offset < End(o)
          /\ o.offset \in Int /\ End(o) \in Int
      <4>1. o.req = blocks[j].req /\ o.offset # -3 /\ o.offset <= y.offset /\ End(blocks[j]) <= End(o)
        BY <3>1, <3>5 DEF PieceOf
      <4>2. o.offset \in Int /\ End(o) \in Int
        BY <3>2, BlockItem
      <4> QED
        BY <1>1, <2>4, <3>1, <3>4, <4>1, <4>2
    <3>7. a.offset # -3 /\ a.offset <= y.offset /\ y.offset < End(a)
      <4>1. a.offset # -3 /\ ~Apart(a, blocks[q])
        BY DEF Clash
      <4>2. ~(End(a) <= blocks[q].offset)
        BY <4>1 DEF Apart
      <4>3. y.offset < End(a)
        BY <1>1, <1>3, <2>1, <4>2
      <4>4. a.offset <= y.offset
        <5>1. blocks[i].offset <= y.offset /\ blocks[i].offset \in Int /\ y.offset \in Int
          BY <1>1
        <5>2. a.offset <= blocks[i].offset /\ a.offset \in Int
          BY <1>2, <1>3
        <5> QED
          BY <5>1, <5>2
      <4> QED
        BY <4>1, <4>3, <4>4
    <3>8. ~Apart(a, o)
      <4>0. y.offset \in Int
        BY <1>1
      <4>1. o.offset < End(a)
        BY <1>3, <3>6, <3>7, <4>0
      <4>2. a.offset < End(o)
        BY <1>3, <3>6, <3>7, <4>0
      <4> QED
        BY <1>3, <3>6, <4>1, <4>2 DEF Apart
    <3>9. a = o
      BY <3>2, <3>6, <3>7, <3>8, OneBlock
    <3>10. PieceOf(y, a)
      BY <3>1, <3>5, <3>9
    <3>11. to[j] # to[q]
      <4>1. to[j] \in Int /\ to[q] \in Int
        BY <2>2
      <4> QED
        BY <2>2, <4>1
    <3>12. AwaitsPieces(a, b)'
      BY <2>1, <2>2, <3>10, <3>11 DEF AwaitsPieces
    <3> QED
      BY <3>12
  <2> QED
    BY <2>3, <2>4
<1> QED
  BY <1>1, <1>4, <1>5

LEMMA AbsorbedKeepsPieces ==
    ASSUME NEW j, NEW to, NEW y, Absorbing(j), Absorbed(j, to, y),
           NEW a \in Blocks, NEW b \in Blocks, AwaitsPieces(a, b)
    PROVE  Linked(a.req, b.req)' \/ Pending(a, b)'
<1>1. PICK p \in i .. Len(blocks), q \in i .. Len(blocks) :
         /\ p # q /\ PieceOf(blocks[p], a) /\ PieceOf(blocks[q], b)
         /\ Clash(blocks[p], blocks[q])
  BY DEF AwaitsPieces
<1>2. i \in Nat /\ Len(blocks) \in Nat /\ j \in i + 1 .. Len(blocks) /\ i' \in Nat
  BY AbsorbingFacts DEF Absorbing
<1>3. (p = i \/ p \in i + 1 .. Len(blocks)) /\ (q = i \/ q \in i + 1 .. Len(blocks))
  BY <1>2
<1>4. CASE p = i
  <2>1. q \in i + 1 .. Len(blocks)
    BY <1>1, <1>3, <1>4
  <2>2. Linked(a.req, b.req)' \/ AwaitsCluster(a, b)'
    BY <1>1, <1>4, <2>1, FirstPieces
  <2> QED
    BY <2>2 DEF Pending
<1>5. CASE q = i
  <2>1. p \in i + 1 .. Len(blocks)
    BY <1>1, <1>3, <1>5
  <2>2. Clash(blocks[q], blocks[p])
    BY <1>1, ClashSymmetric
  <2>3. Linked(b.req, a.req)' \/ AwaitsCluster(b, a)'
    BY <1>1, <1>5, <2>1, <2>2, FirstPieces
  <2> QED
    BY <2>3 DEF Pending, Linked
<1>6. CASE p \in i + 1 .. Len(blocks) /\ q \in i + 1 .. Len(blocks)
  <2>1. AwaitsPieces(a, b)'
    BY <1>1, <1>2, <1>6, PiecesMoved
  <2> QED
    BY <2>1 DEF Pending
<1> QED
  BY <1>3, <1>4, <1>5, <1>6

LEMMA AbsorbedKeepsCluster ==
    ASSUME NEW j, NEW to, NEW y, Absorbing(j), Absorbed(j, to, y),
           NEW a \in Blocks, NEW b \in Blocks, AwaitsCluster(a, b)
    PROVE  Linked(a.req, b.req)' \/ Pending(a, b)'
<1>1. PICK p \in i .. Len(blocks), q \in i .. Len(blocks) :
         /\ p < q /\ Took(blocks[p], clusters[p], a) /\ PieceOf(blocks[q], b)
         /\ Clash(blocks[p], blocks[q]) /\ Clash(a, blocks[q])
  BY DEF AwaitsCluster
<1>2. i \in Nat /\ Len(blocks) \in Nat
  BY AbsorbingFacts
<1>3. (p = i \/ p \in i + 1 .. Len(blocks)) /\ q \in i + 1 .. Len(blocks)
  BY <1>1, <1>2
<1>4. CASE p = i
  <2>1. Linked(a.req, b.req)' \/ AwaitsCluster(a, b)' \/ AwaitsPieces(a, b)'
    BY <1>1, <1>3, <1>4, FirstCluster
  <2> QED
    BY <2>1 DEF Pending
<1>5. CASE p \in i + 1 .. Len(blocks)
  <2>1. AwaitsCluster(a, b)'
    BY <1>1, <1>3, <1>5, ClusterMoved
  <2> QED
    BY <2>1 DEF Pending
<1> QED
  BY <1>3, <1>4, <1>5

LEMMA AbsorbedKeeps ==
    ASSUME NEW j, NEW to, NEW y, Absorbing(j), Absorbed(j, to, y),
           NEW a \in Blocks, NEW b \in Blocks, Linked(a.req, b.req) \/ Pending(a, b)
    PROVE  Linked(a.req, b.req)' \/ Pending(a, b)'
<1>1. CASE Linked(a.req, b.req)
  <2>1. \A S \in SUBSET Request : Closed(S)' => Closed(S)
    BY DEF Absorbing
  <2> QED
    BY <1>1, <2>1, LinkedKept
<1>2. CASE AwaitsPieces(a, b)
  BY <1>2, AbsorbedKeepsPieces
<1>3. CASE AwaitsCluster(a, b)
  BY <1>3, AbsorbedKeepsCluster
<1>4. CASE AwaitsCluster(b, a)
  <2>1. Linked(b.req, a.req)' \/ Pending(b, a)'
    BY <1>4, AbsorbedKeepsCluster
  <2> QED
    BY <2>1 DEF Pending, Linked, AwaitsPieces, Clash, Apart, Collides, AdditiveSameBlock
<1> QED
  BY <1>1, <1>2, <1>3, <1>4 DEF Pending

LEMMA MergeAbsorbs ==
    ASSUME GivenInv, NarrowBlocks, ListInv, ListGood(blocks, clusters, i), PiecesGood(blocks, i),
           MergeBlock
    PROVE  \E j, to, y : Absorbing(j) /\ Absorbed(j, to, y)
<1>1. PICK j \in Scanned :
         /\ Scanning /\ ~Skipped(blocks[i]) /\ IsAbsorber(j)
         /\ blocks' = blocks /\ i' = i + 1 /\ checked' = checked \cup ScanEdges
         /\ clusters' = [clusters EXCEPT ![i] = Current, ![j] = Merge(clusters[j], Current)]
  BY DEF MergeBlock
<1> DEFINE L == Len(blocks)
           e == Merge(clusters[j], Current)
           to == [n \in i + 1 .. L |-> n]
<1>2. /\ i \in 1 .. L /\ i \in Nat /\ L \in Nat /\ j \in i + 1 .. L /\ j \in 1 .. L
      /\ DOMAIN clusters = 1 .. L
  BY <1>1, CurrentType, ScannedFacts, ListTypes DEF ListInv
<1>3. clusters'[j] = e /\ \A n \in i + 1 .. L : n # j => clusters'[n] = clusters[n]
  <2> HIDE DEF e
  <2>1. clusters' = [clusters EXCEPT ![i] = Current, ![j] = e]
    BY <1>1 DEF e
  <2>2. \A n \in i + 1 .. L : n \in 1 .. L /\ n # i
    BY <1>2
  <2> QED
    BY <1>2, <2>1, <2>2
<1>4. Absorbing(j)
  <2>1. \A S \in SUBSET Request : Closed(S)' => Closed(S)
    BY MergeCloses
  <2>2. i' \in Nat /\ ScanEdges \subseteq checked'
    BY <1>1, <1>2
  <2> QED
    BY <1>1, <2>1, <2>2 DEF Absorbing
<1>5. End(blocks[j]) \in Int /\ End(blocks[i]) <= End(blocks[j])
  BY <1>1, <1>2, AbsorberFacts, ListTypes
<1> HIDE DEF e, L
<1>6. /\ Len(blocks') = L
      /\ \A n \in i + 1 .. L :
            /\ to[n] \in i' .. L
            /\ n = j => blocks'[to[n]] = blocks[j] /\ clusters'[to[n]] = e
            /\ n # j => blocks'[to[n]] = blocks[n] /\ clusters'[to[n]] = clusters[n]
      /\ \A m, n \in i + 1 .. L : m < n => to[m] < to[n]
  BY <1>1, <1>3 DEF L
<1> HIDE DEF to
<1>7. StaysMet(j, to, blocks[j]) /\ StaysAhead(j, blocks[j])
  BY DEF StaysMet, StaysAhead
<1>8. Moved(j, to, blocks[j])
  BY <1>6 DEF Moved, e, L
<1>9. Absorbed(j, to, blocks[j])
  BY <1>5, <1>7, <1>8 DEF Absorbed
<1> QED
  BY <1>4, <1>9

LEMMA SplitAbsorbs ==
    ASSUME GivenInv, NarrowBlocks, ~Crowded, ListInv, ListGood(blocks, clusters, i),
           PiecesGood(blocks, i), SplitBlock
    PROVE  \E j, to, y : Absorbing(j) /\ Absorbed(j, to, y)
<1>1. PICK j \in Scanned :
         /\ Scanning /\ ~Skipped(blocks[i]) /\ IsAbsorber(j) /\ NeedsSplit(j) /\ i' = i
         /\ checked' = checked \cup ScanEdges
         /\ blocks' = Shift(blocks, j, LowerBound(End(blocks[i])), Front(j), Remainder(j))
         /\ clusters' = Shift(clusters, j, LowerBound(End(blocks[i])), Merge(clusters[j], Current), Fresh)
  BY DEF SplitBlock
<1> DEFINE L == Len(blocks)
           b == blocks[j]
           f == Front(j)
           g == Remainder(j)
           cut == End(blocks[i])
<1>2. /\ i \in Nat /\ L \in Nat /\ j \in i + 1 .. L /\ j \in 1 .. L
      /\ \A n \in i + 1 .. L : /\ n \in i .. L /\ blocks[n] \in BlockType
                               /\ blocks[n].offset \in Int /\ End(blocks[n]) \in Int
  BY <1>1, ScannedFacts, ListTypes
<1>3. /\ b \in Blocks /\ b.offset >= 0 /\ b.type \in {"writable", "read_only"}
      /\ \A a \in Blocks :
            a.type = b.type /\ a.offset >= 0 /\ a # b
            /\ a.offset <= b.offset /\ b.offset < End(a)
               => End(a) = cut
  BY <1>1, SplitsWhole
<1>4. /\ f \in BlockType /\ g \in BlockType
      /\ f.offset = b.offset /\ f.size = cut - b.offset /\ f.type = b.type /\ f.req = b.req
      /\ g.offset = cut /\ g.size = CollidingEnd(b) - cut /\ g.type = b.type /\ g.req = b.req
  BY <1>1, <1>2, PieceFacts
<1>5. /\ cut \in Int /\ b.offset \in Int /\ End(b) \in Int /\ b.offset < cut /\ cut < End(b)
      /\ End(b) = CollidingEnd(b)
  <2>1. b.offset < cut
    BY <1>1, ScannedFacts
  <2>2. cut < CollidingEnd(b)
    BY <1>1, SplitPlace
  <2>3. End(b) = CollidingEnd(b)
    BY <1>1, AbsorberFacts
  <2>4. i \in 1 .. Len(blocks)
    BY <1>1, CurrentType
  <2> QED
    BY <1>2, <2>1, <2>2, <2>3, <2>4, ListTypes
<1>6. PICK to, free : SplitTo(j, to, free)
  BY <1>1, SplitPlaces
<1>7. Absorbing(j)
  <2>1. \A S \in SUBSET Request : Closed(S)' => Closed(S)
    BY SplitCloses
  <2>2. i' \in Nat /\ ScanEdges \subseteq checked'
    BY <1>1, <1>2
  <2> QED
    BY <1>1, <2>1, <2>2 DEF Absorbing
<1> HIDE DEF L, b, f, g, cut
<1>8. End(f) = cut /\ End(g) = End(b)
  <2>1. f.offset >= 0 /\ g.offset >= 0 /\ f.offset + f.size = cut /\ g.offset + g.size = End(b)
        /\ f.offset \in Int /\ g.offset \in Int
    BY <1>3, <1>4, <1>5
  <2>2. \A x : x.offset \in Int /\ x.offset >= 0 => End(x) = x.offset + x.size
    BY DEF End
  <2> QED
    BY <2>1, <2>2
<1>9. ASSUME NEW o \in Blocks, PieceOf(b, o) PROVE PieceOf(f, o) /\ PieceOf(g, o)
  <2>1. o.offset \in Int /\ End(o) \in Int
    BY BlockItem
  <2>2. b.type = o.type /\ b.req = o.req /\ o.offset # -3 /\ o.offset <= b.offset /\ End(b) <= End(o)
    BY <1>9 DEF PieceOf
  <2>3. f.offset >= 0 /\ g.offset >= 0 /\ b.type # "int_additive"
    BY <1>3, <1>4, <1>5
  <2>4. End(f) <= End(o) /\ End(g) <= End(o) /\ o.offset <= f.offset /\ o.offset <= g.offset
    BY <1>4, <1>5, <1>8, <2>1, <2>2
  <2> QED
    BY <1>3, <1>4, <1>5, <2>2, <2>3, <2>4 DEF PieceOf
<1>10. ASSUME NEW q \in i + 1 .. L, Clash(b, blocks[q])
       PROVE  /\ blocks[q].offset < cut => Clash(f, blocks[q])
              /\ blocks[q].offset >= cut => Clash(g, blocks[q])
  <2>1. /\ blocks[q].offset # -3 /\ ~Apart(b, blocks[q]) /\ Collides(b.type, blocks[q].type)
    BY <1>10 DEF Clash
  <2>2. blocks[q].offset \in Int /\ End(blocks[q]) \in Int /\ q \in i .. L
    BY <1>2
  <2>3. blocks[q].offset < End(blocks[q])
    <3>1. ItemGood(blocks[q], clusters[q])
      BY <2>2 DEF ListGood, L
    <3> QED
      BY <2>1, <3>1, ItemTypes
  <2>4. blocks[q].offset < End(b) /\ b.offset < End(blocks[q])
    BY <1>5, <2>1, <2>2 DEF Apart
  <2>5. f.type # "int_additive" /\ g.type # "int_additive"
    BY <1>3, <1>4
  <2>6. ~AdditiveSameBlock(f, blocks[q]) /\ ~AdditiveSameBlock(g, blocks[q])
    BY <2>5 DEF AdditiveSameBlock
  <2>7. f.offset # -3 /\ g.offset # -3
    BY <1>3, <1>4, <1>5
  <2>8. blocks[q].offset < cut => ~Apart(f, blocks[q])
    BY <1>4, <1>5, <1>8, <2>2, <2>4 DEF Apart
  <2>9. blocks[q].offset >= cut => ~Apart(g, blocks[q])
    BY <1>4, <1>5, <1>8, <2>2, <2>3, <2>4 DEF Apart
  <2> QED
    BY <1>4, <2>1, <2>6, <2>7, <2>8, <2>9 DEF Clash
<1>11. /\ Len(blocks') = L
       /\ free \in i .. L /\ blocks'[free] = g
       /\ \A n \in i + 1 .. L :
             /\ to[n] \in i .. L /\ to[n] # free
             /\ n = j => blocks'[to[n]] = f /\ clusters'[to[n]] = Merge(clusters[j], Current)
             /\ n # j => blocks'[to[n]] = blocks[n] /\ clusters'[to[n]] = clusters[n]
       /\ \A m, n \in i + 1 .. L : m < n => to[m] < to[n]
  BY <1>6 DEF SplitTo, L, f, g
<1>12. ASSUME NEW q \in i + 1 .. L, Clash(b, blocks[q])
       PROVE  \/ Clash(f, blocks[q])
              \/ \E n \in i' .. L :
                    /\ n # to[q] /\ Clash(blocks'[n], blocks[q])
                    /\ \A o \in Blocks : PieceOf(b, o) => PieceOf(blocks'[n], o)
  <2>1. CASE blocks[q].offset < cut
    BY <1>10, <1>12, <2>1
  <2>2. CASE blocks[q].offset >= cut
    <3>1. Clash(g, blocks[q])
      BY <1>10, <1>12, <2>2
    <3>2. free \in i' .. L /\ free # to[q] /\ blocks'[free] = g
      BY <1>1, <1>11
    <3> QED
      BY <1>9, <3>1, <3>2
  <2>3. blocks[q].offset \in Int
    BY <1>2
  <2> QED
    BY <1>5, <2>1, <2>2, <2>3
<1>13. ASSUME NEW q \in i + 1 .. L, NEW a \in Blocks, j < q, Clash(b, blocks[q]),
              Took(b, clusters[j], a), Clash(a, blocks[q])
       PROVE  Clash(f, blocks[q])
  <2>1. a.type = b.type /\ a.offset <= b.offset /\ a.req # b.req
    BY <1>13 DEF Took
  <2>2. b.offset <= blocks[q].offset /\ blocks[q].offset \in Int
    <3>1. j \in i .. L /\ q \in i .. L
      BY <1>2
    <3> QED
      BY <1>2, <1>13, <3>1 DEF ListInv, SortedFrom, b, L
  <2>3. a.offset # -3 /\ ~Apart(a, blocks[q])
    BY <1>13 DEF Clash
  <2>4. a.offset \in Int /\ End(a) \in Int /\ (a.offset < 0 => a.offset \in {-1, -2, -3})
        /\ (a.offset \in {-1, -2} => End(a) = 0)
    BY BlockItem
  <2>5. blocks[q].offset < End(a)
    BY <2>2, <2>3, <2>4 DEF Apart
  <2>6. b.offset < End(a) /\ a.offset >= 0
    BY <1>3, <1>5, <2>2, <2>3, <2>4, <2>5
  <2>7. End(a) = cut
    BY <1>3, <2>1, <2>6
  <2> QED
    BY <1>10, <1>13, <2>5, <2>7
<1>14. Absorbed(j, to, f)
  <2>1. /\ f.type = b.type /\ f.req = b.req /\ f.offset = b.offset
        /\ End(f) \in Int /\ cut <= End(f)
        /\ f.type = "int_additive" => f = b
    BY <1>3, <1>4, <1>5, <1>8
  <2>2. i' = i
    BY <1>1
  <2>3. \A o \in Blocks : PieceOf(b, o) => PieceOf(f, o)
    BY <1>9
  <2>4. StaysMet(j, to, f)
    BY <1>12 DEF StaysMet, b, L
  <2>5. StaysAhead(j, f)
    BY <1>13 DEF StaysAhead, b, L
  <2>6. Moved(j, to, f)
    BY <1>11, <2>2 DEF Moved, L
  <2> QED
    BY <2>1, <2>3, <2>4, <2>5, <2>6 DEF Absorbed, b, cut
<1> QED
  BY <1>7, <1>14

\* A turn after which block i is not visited again, and all that it meets is connected.
Leaving ==
    /\ GivenInv /\ ListInv /\ ListGood(blocks, clusters, i) /\ Scanning
    /\ blocks' = blocks /\ i' = i + 1
    /\ \A n \in i + 1 .. Len(blocks) : clusters'[n] = clusters[n]
    /\ \A S \in SUBSET Request : Closed(S)' => Closed(S)
    /\ \A q \in i + 1 .. Len(blocks) : \A m \in Reqs(blocks[i], clusters[i]) : \A u :
          Clash(blocks[i], blocks[q]) /\ u = blocks[q].req => Linked(m, u)'

LEMMA LeavingKeepsPieces ==
    ASSUME Leaving, NEW a \in Blocks, NEW b \in Blocks, AwaitsPieces(a, b)
    PROVE  Linked(a.req, b.req)' \/ Pending(a, b)'
<1>1. PICK p \in i .. Len(blocks), q \in i .. Len(blocks) :
         /\ p # q /\ PieceOf(blocks[p], a) /\ PieceOf(blocks[q], b)
         /\ Clash(blocks[p], blocks[q])
  BY DEF AwaitsPieces
<1>2. i \in Nat /\ Len(blocks) \in Nat
  BY ListTypes DEF Leaving
<1>3. (p = i \/ p \in i + 1 .. Len(blocks)) /\ (q = i \/ q \in i + 1 .. Len(blocks))
  BY <1>2
<1>4. Clash(blocks[q], blocks[p])
  BY <1>1, ClashSymmetric
<1>5. a.req = blocks[p].req /\ b.req = blocks[q].req
  BY <1>1 DEF PieceOf
<1>6. \A n \in i + 1 .. Len(blocks) : \A m \in Reqs(blocks[i], clusters[i]) : \A u :
         Clash(blocks[i], blocks[n]) /\ u = blocks[n].req => Linked(m, u)'
  BY DEF Leaving
<1>7. CASE p = i
  <2>1. q \in i + 1 .. Len(blocks) /\ a.req \in Reqs(blocks[i], clusters[i])
    BY <1>1, <1>3, <1>5, <1>7 DEF Reqs
  <2>2. Linked(a.req, b.req)'
    BY <1>1, <1>5, <1>6, <1>7, <2>1
  <2> QED
    BY <2>2
<1>8. CASE q = i
  <2>1. p \in i + 1 .. Len(blocks) /\ b.req \in Reqs(blocks[i], clusters[i])
    BY <1>1, <1>3, <1>5, <1>8 DEF Reqs
  <2>2. Linked(b.req, a.req)'
    BY <1>4, <1>5, <1>6, <1>8, <2>1
  <2> QED
    BY <2>2 DEF Linked
<1>9. CASE p \in i + 1 .. Len(blocks) /\ q \in i + 1 .. Len(blocks)
  <2>1. blocks' = blocks /\ i' = i + 1
    BY DEF Leaving
  <2>2. AwaitsPieces(a, b)'
    BY <1>1, <1>9, <2>1 DEF AwaitsPieces
  <2> QED
    BY <2>2 DEF Pending
<1> QED
  BY <1>3, <1>7, <1>8, <1>9

LEMMA LeavingKeepsCluster ==
    ASSUME Leaving, NEW a \in Blocks, NEW b \in Blocks, AwaitsCluster(a, b)
    PROVE  Linked(a.req, b.req)' \/ Pending(a, b)'
<1>1. PICK p \in i .. Len(blocks), q \in i .. Len(blocks) :
         /\ p < q /\ Took(blocks[p], clusters[p], a) /\ PieceOf(blocks[q], b)
         /\ Clash(blocks[p], blocks[q]) /\ Clash(a, blocks[q])
  BY DEF AwaitsCluster
<1>2. i \in Nat /\ Len(blocks) \in Nat
  BY ListTypes DEF Leaving
<1>3. (p = i \/ p \in i + 1 .. Len(blocks)) /\ q \in i + 1 .. Len(blocks)
  BY <1>1, <1>2
<1>4. CASE p = i
  <2>1. a.req \in Reqs(blocks[i], clusters[i]) /\ b.req = blocks[q].req
    BY <1>1, <1>4 DEF Took, PieceOf, Reqs
  <2>2. Linked(a.req, b.req)'
    BY <1>1, <1>3, <1>4, <2>1 DEF Leaving
  <2> QED
    BY <2>2
<1>5. CASE p \in i + 1 .. Len(blocks)
  <2>1. blocks' = blocks /\ i' = i + 1 /\ clusters'[p] = clusters[p]
    BY <1>5 DEF Leaving
  <2>2. AwaitsCluster(a, b)'
    BY <1>1, <1>3, <1>5, <2>1 DEF AwaitsCluster
  <2> QED
    BY <2>2 DEF Pending
<1> QED
  BY <1>3, <1>4, <1>5

LEMMA LeavingKeeps ==
    ASSUME Leaving, NEW a \in Blocks, NEW b \in Blocks, Linked(a.req, b.req) \/ Pending(a, b)
    PROVE  Linked(a.req, b.req)' \/ Pending(a, b)'
<1>1. CASE Linked(a.req, b.req)
  <2>1. \A S \in SUBSET Request : Closed(S)' => Closed(S)
    BY DEF Leaving
  <2> QED
    BY <1>1, <2>1, LinkedKept
<1>2. CASE AwaitsPieces(a, b)
  BY <1>2, LeavingKeepsPieces
<1>3. CASE AwaitsCluster(a, b)
  BY <1>3, LeavingKeepsCluster
<1>4. CASE AwaitsCluster(b, a)
  <2>1. Linked(b.req, a.req)' \/ Pending(b, a)'
    BY <1>4, LeavingKeepsCluster
  <2> QED
    BY <2>1 DEF Pending, Linked, AwaitsPieces, Clash, Apart, Collides, AdditiveSameBlock
<1> QED
  BY <1>1, <1>2, <1>3, <1>4 DEF Pending

LEMMA SkipLeaves ==
    ASSUME GivenInv, ListInv, ListGood(blocks, clusters, i), SkipBlock
    PROVE  Leaving
<1>1. /\ Scanning /\ Skipped(blocks[i]) /\ i' = i + 1 /\ blocks' = blocks /\ clusters' = clusters
  BY DEF SkipBlock
<1>2. \A S \in SUBSET Request : Closed(S)' => Closed(S)
  BY SkipCloses
<1>3. \A q \in i + 1 .. Len(blocks) : ~Clash(blocks[i], blocks[q])
  BY <1>1, ClashScanned
<1> QED
  BY <1>1, <1>2, <1>3 DEF Leaving

LEMMA FinalizeLeaves ==
    ASSUME GivenInv, ListInv, ListGood(blocks, clusters, i), FinalizeCluster
    PROVE  Leaving
<1>1. /\ Scanning /\ ~Skipped(blocks[i]) /\ i' = i + 1 /\ blocks' = blocks
      /\ \A j \in Scanned : ~Absorbs(j)
      /\ clusters' = [clusters EXCEPT ![i] = Current]
      /\ checked' = checked \cup (ScanEdges \cup FinalizeEdges(Current))
  BY DEF FinalizeCluster
<1>2. \A S \in SUBSET Request : Closed(S)' => Closed(S)
  BY FinalizeCloses
<1>3. i \in 1 .. Len(blocks) /\ i \in Nat /\ Len(blocks) \in Nat /\ DOMAIN clusters = 1 .. Len(blocks)
  BY <1>1, CurrentType, ListTypes DEF ListInv
<1>4. \A n \in i + 1 .. Len(blocks) : clusters'[n] = clusters[n]
  <2>1. \A n \in i + 1 .. Len(blocks) : n \in 1 .. Len(blocks) /\ n # i
    BY <1>3
  <2> QED
    BY <1>1, <1>3, <2>1
<1>5. ASSUME NEW q \in i + 1 .. Len(blocks), Clash(blocks[i], blocks[q]),
             NEW m \in Reqs(blocks[i], clusters[i]), NEW u, u = blocks[q].req
      PROVE  Linked(m, u)'
  <2>1. q \in Scanned
    BY <1>1, <1>5, ClashScanned
  <2>2. ASSUME NEW k \in i + 1 .. q PROVE ~Absorbs(k)
    <3>1. k \in Scanned
      BY <1>3, <2>1 DEF Scanned
    <3> QED
      BY <1>1, <3>1
  <2>3. q \in Compared
    BY <2>1, <2>2 DEF Compared
  <2>4. Collides(blocks[i].type, blocks[q].type) /\ ScanEdges \subseteq checked'
    BY <1>1, <1>5 DEF Clash
  <2> QED
    BY <1>1, <1>2, <1>5, <2>3, <2>4, ComparedLinked
<1> QED
  BY <1>1, <1>2, <1>4, <1>5 DEF Leaving

LEMMA ForgottenKept ==
    ASSUME UNCHANGED input,
           \A a, b \in Blocks : a # b /\ Clash(a, b) => Linked(a.req, b.req)' \/ Pending(a, b)'
    PROVE  NothingForgotten'
<1>1. Blocks' = Blocks
  BY DEF Blocks, BlocksOf, input
<1> QED
  BY <1>1 DEF NothingForgotten

\* Nothing is compared when the list is sorted.
LEMMA DeclaredPending ==
    ASSUME GivenInv, ListInv, SortBlocks, NEW a \in Blocks, NEW b \in Blocks, a # b, Clash(a, b)
    PROVE  Pending(a, b)'
<1>1. /\ i' = 1 /\ Len(blocks') \in Nat
      /\ \A c \in Blocks : \E n \in 1 .. Len(blocks') : blocks'[n] = c
  BY ListedOnce
<1>2. PICK p \in 1 .. Len(blocks') : blocks'[p] = a
  BY <1>1
<1>3. PICK q \in 1 .. Len(blocks') : blocks'[q] = b
  BY <1>1
<1>4. ASSUME NEW c \in Blocks, c.offset # -3 PROVE PieceOf(c, c)
  <2>1. c.offset \in Int /\ End(c) \in Int
    BY BlockItem
  <2> QED
    BY <1>4, <2>1 DEF PieceOf
<1>5. p # q /\ PieceOf(blocks'[p], a) /\ PieceOf(blocks'[q], b) /\ Clash(blocks'[p], blocks'[q])
  BY <1>2, <1>3, <1>4 DEF Clash
<1>6. AwaitsPieces(a, b)'
  BY <1>1, <1>5 DEF AwaitsPieces
<1> QED
  BY <1>6 DEF Pending

\* A step that leaves the list alone.
LEMMA PendingKept ==
    ASSUME UNCHANGED <<blocks, clusters, i>>, checked \subseteq checked',
           NEW a, NEW b, Linked(a.req, b.req) \/ Pending(a, b)
    PROVE  Linked(a.req, b.req)' \/ Pending(a, b)'
<1>1. \A S : Closed(S)' => Closed(S)
  BY DEF Closed, HoldsLater, Clique, Reqs, MembersOf
<1>2. Linked(a.req, b.req) => Linked(a.req, b.req)'
  BY <1>1, LinkedKept
<1>3. Pending(a, b) => Pending(a, b)'
  BY DEF Pending, AwaitsPieces, AwaitsCluster, Took, MembersOf
<1> QED
  BY <1>2, <1>3

ForgetInv == ~Crowded /\ stage \in {"resizing", "cliques", "accepted"} => NothingForgotten

LEMMA ForgetStep ==
    ASSUME NarrowSizes
    PROVE  GivenInv /\ ListInv /\ GoodInv /\ PiecesInv /\ ForgetInv /\ [Next]_vars => ForgetInv'
<1> SUFFICES ASSUME GivenInv, ListInv, GoodInv, PiecesInv, ForgetInv, [Next]_vars,
                    ~Crowded', stage' \in {"resizing", "cliques", "accepted"}
             PROVE  NothingForgotten'
  BY DEF ForgetInv
<1>1. UNCHANGED input /\ NarrowBlocks /\ ~Crowded
  BY InputKept, Narrow, CrowdedKept
<1> SUFFICES ASSUME NEW a \in Blocks, NEW b \in Blocks, a # b, Clash(a, b)
             PROVE  Linked(a.req, b.req)' \/ Pending(a, b)'
  BY <1>1, ForgottenKept
<1>2. ASSUME stage \in {"resizing", "cliques", "accepted"}
      PROVE  Linked(a.req, b.req) \/ Pending(a, b)
  BY <1>1, <1>2 DEF ForgetInv, NothingForgotten
<1>3. ASSUME UNCHANGED <<blocks, clusters, i>>, checked \subseteq checked',
             stage \in {"resizing", "cliques", "accepted"}
      PROVE  Linked(a.req, b.req)' \/ Pending(a, b)'
  BY <1>2, <1>3, PendingKept
<1>4. ASSUME Scanning
      PROVE  /\ ListGood(blocks, clusters, i) /\ PiecesGood(blocks, i)
             /\ Linked(a.req, b.req) \/ Pending(a, b)
  BY <1>1, <1>2, <1>4 DEF GoodInv, PiecesInv, Scanning
<1>5. CASE UNCHANGED vars
  BY <1>3, <1>5 DEF vars
<1>6. CASE CheckBounds
  BY <1>6 DEF CheckBounds
<1>7. CASE SortBlocks
  BY <1>7, DeclaredPending
<1>8. CASE FindResizingCollisions \/ Accept
  BY <1>3, <1>8 DEF FindResizingCollisions, Accept
<1>9. CASE ResizingFails \/ CliqueFails
  BY <1>9 DEF ResizingFails, CliqueFails, MissingEdge
<1>10. CASE SkipBlock
  <2>1. Scanning
    BY <1>10 DEF SkipBlock
  <2> QED
    BY <1>4, <1>10, <2>1, SkipLeaves, LeavingKeeps
<1>11. CASE FinalizeCluster
  <2>1. Scanning
    BY <1>11 DEF FinalizeCluster
  <2> QED
    BY <1>4, <1>11, <2>1, FinalizeLeaves, LeavingKeeps
<1>12. CASE MergeBlock
  <2>1. Scanning
    BY <1>12 DEF MergeBlock
  <2>2. PICK j, to, y : Absorbing(j) /\ Absorbed(j, to, y)
    BY <1>1, <1>4, <1>12, <2>1, MergeAbsorbs
  <2> QED
    BY <1>4, <2>1, <2>2, AbsorbedKeeps
<1>13. CASE SplitBlock
  <2>1. Scanning
    BY <1>13 DEF SplitBlock
  <2>2. PICK j, to, y : Absorbing(j) /\ Absorbed(j, to, y)
    BY <1>1, <1>4, <1>13, <2>1, SplitAbsorbs
  <2> QED
    BY <1>4, <2>1, <2>2, AbsorbedKeeps
<1> QED
  BY <1>5, <1>6, <1>7, <1>8, <1>9, <1>10, <1>11, <1>12, <1>13 DEF Next

\* What findResizingCollisions leaves behind, and when the list is done.
ResizedInv ==
    /\ stage \in {"cliques", "accepted"} =>
          \A x, w \in Blocks : SeesSize(x, w) => Ordered(x.req, w.req) \in checked
    /\ stage = "accepted" => i > Len(blocks)

LEMMA ResizedStep ==
    ASSUME ShrinksWithinBounds
    PROVE  GivenInv /\ SortedInv /\ ResizedInv /\ [Next]_vars => ResizedInv'
<1> SUFFICES ASSUME GivenInv, SortedInv, ResizedInv, [Next]_vars
             PROVE  ResizedInv'
  OBVIOUS
<1>1. UNCHANGED input /\ Blocks' = Blocks
  BY InputKept, BlocksKept
<1>2. \A x, w : SeesSize(x, w)' <=> SeesSize(x, w)
  BY <1>1 DEF SeesSize, SizeCollides, input
<1>3. ASSUME checked \subseteq checked', stage' = stage, stage # "accepted" \/ UNCHANGED <<blocks, i>>
      PROVE  ResizedInv'
  BY <1>1, <1>2, <1>3 DEF ResizedInv
<1>4. CASE UNCHANGED vars
  BY <1>3, <1>4 DEF vars
<1>5. CASE CheckBounds \/ SortBlocks
  BY <1>5 DEF CheckBounds, SortBlocks, ResizedInv
<1>6. CASE FindResizingCollisions
  <2>1. stage = "resizing" /\ stage' = "cliques" /\ checked' = checked \cup ResizingEdges
    BY <1>6 DEF FindResizingCollisions
  <2>2. \A x, w \in Blocks : SeesSize(x, w) => Ordered(x.req, w.req) \in ResizingEdges
    BY <2>1, ResizingFound
  <2> QED
    BY <1>1, <1>2, <2>1, <2>2 DEF ResizedInv
<1>7. CASE ResizingFails \/ CliqueFails
  BY <1>7 DEF ResizingFails, CliqueFails, MissingEdge, ResizedInv
<1>8. CASE SkipBlock \/ FinalizeCluster \/ MergeBlock \/ SplitBlock
  BY <1>3, <1>8 DEF SkipBlock, FinalizeCluster, MergeBlock, SplitBlock, Scanning
<1>9. CASE Accept
  BY <1>1, <1>2, <1>9 DEF Accept, ResizedInv
<1> QED
  BY <1>4, <1>5, <1>6, <1>7, <1>8, <1>9 DEF Next

\* When the list is done, a request that follows another is reached from it.
LEMMA FollowedIsReached ==
    ASSUME ListInv, i > Len(blocks), NEW r, NEW s, Follows(r, s)
    PROVE  Reaches(r, s, checked)
<1>1. i .. Len(blocks) = {}
  BY ListTypes
<1>2. \A S : (\A e \in checked : e[1] \in S => e[2] \in S) => Closed(S)
  BY <1>1 DEF Closed
<1> QED
  BY <1>2 DEF Follows, Reaches

\* When the cluster product accepts a dag, the edges that it has seen connect every two
\* requests that collide by a path, so that they never run concurrently, though blocks were
\* merged, split and moved, and a clique is only checked along one path.
THEOREM VerificationIsSound ==
    ASSUME NarrowSizes, ShrinksWithinBounds
    PROVE  Spec => []SoundUnlessCrowded
<1>1. Init => GoodInv /\ PiecesInv /\ SortedInv /\ ForgetInv /\ ResizedInv
  BY DEF Init, GoodInv, PiecesInv, SortedInv, ForgetInv, ResizedInv
<1>2. GivenInv /\ ListInv /\ ForgetInv /\ ResizedInv => SoundUnlessCrowded
  <2> SUFFICES ASSUME GivenInv, ListInv, ForgetInv, ResizedInv, stage = "accepted", ~Crowded,
                      NEW r \in Request, NEW s \in Request, r < s, Collide(r, s)
               PROVE  Reaches(r, s, checked)
    BY DEF SoundUnlessCrowded
  <2>1. PICK a \in Blocks, b \in Blocks : /\ a.req = r /\ b.req = s
                                          /\ Clash(a, b) \/ SeesSize(a, b) \/ SeesSize(b, a)
    BY CollisionMeets
  <2>2. i > Len(blocks) /\ i \in Nat /\ Len(blocks) \in Nat
    BY ListTypes DEF ResizedInv
  <2>3. CASE Clash(a, b)
    <3>1. a # b
      BY <2>1, RequestsInt
    <3>2. Linked(r, s) \/ Pending(a, b)
      BY <2>1, <2>3, <3>1 DEF ForgetInv, NothingForgotten
    <3>3. i .. Len(blocks) = {}
      BY <2>2
    <3>4. ~Pending(a, b)
      BY <3>3 DEF Pending, AwaitsPieces, AwaitsCluster
    <3>5. Follows(r, s)
      BY <3>2, <3>4 DEF Linked
    <3> QED
      BY <2>2, <3>5, FollowedIsReached
  <2>4. CASE SeesSize(a, b) \/ SeesSize(b, a)
    <3>1. Ordered(r, s) = <<r, s>> /\ Ordered(s, r) = <<r, s>>
      BY OrderedEither
    <3>2. <<r, s>> \in checked
      BY <2>1, <2>4, <3>1 DEF ResizedInv
    <3> QED
      BY <3>2 DEF Reaches
  <2> QED
    BY <2>1, <2>3, <2>4
<1>3. Spec => [](GivenInv /\ ListInv)
  BY GivenHolds, ListHolds, PTL
<1>4. GivenInv /\ ListInv /\ GoodInv /\ PiecesInv /\ SortedInv /\ ForgetInv /\ ResizedInv /\ [Next]_vars
         => GoodInv' /\ PiecesInv' /\ SortedInv' /\ ForgetInv' /\ ResizedInv'
  BY GoodStep, PiecesStep, SortedInvStep, ForgetStep, ResizedStep
<1> QED
  BY <1>1, <1>2, <1>3, <1>4, PTL DEF Spec
=============================================================================
