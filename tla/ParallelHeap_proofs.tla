------------------------ MODULE ParallelHeap_proofs ------------------------
(***************************************************************************)
(* What the verification of a dag is good for: the requests of a block     *)
(* that run at the same time do not collide, and what one of them has read *)
(* of the chunk's size stays good enough, for any number of requests and   *)
(* whatever they declare and do.  That an accepted dag connects what       *)
(* collides is a theorem of ClusterProduct_proofs.                         *)
(***************************************************************************)
EXTENDS ParallelHeap, FiniteSetTheorems, TLAPS

Checked == INSTANCE ClusterProduct_proofs

-----------------------------------------------------------------------------
(* The verification *)

LEMMA Assumed == Checked!ClusterProductAssumption
BY ParallelHeapAssumption
DEF Verification!ClusterProductAssumption, Checked!ClusterProductAssumption,
    Verification!IsAccessMap, Checked!IsAccessMap, Verification!Types, Checked!Types,
    Verification!IsFiniteSet, Checked!IsFiniteSet, Verification!Cardinality, Checked!Cardinality

LEMMA VerifiesAlike == Verification!Next => Checked!Next
<1> USE DEF
     Verification!input, Checked!input, Verification!Blocks, Checked!Blocks,
     Verification!BlocksOf, Checked!BlocksOf, Verification!Precedes, Checked!Precedes,
     Verification!Before, Checked!Before, Verification!Rank, Checked!Rank,
     Verification!AccessMapOf, Checked!AccessMapOf, Verification!AccessMaps,
     Checked!AccessMaps, Verification!SortAccessBlocks, Checked!SortAccessBlocks,
     Verification!Fresh, Checked!Fresh, Verification!BadBounds, Checked!BadBounds,
     Verification!Resizes, Checked!Resizes, Verification!Ordered, Checked!Ordered,
     Verification!AddMembers, Checked!AddMembers, Verification!Insert, Checked!Insert,
     Verification!Merge, Checked!Merge, Verification!FinalizeEdges,
     Checked!FinalizeEdges, Verification!MembersOf, Checked!MembersOf,
     Verification!DependencyEdges, Checked!DependencyEdges, Verification!Verify,
     Checked!Verify, Verification!MissingEdge, Checked!MissingEdge,
     Verification!Writers, Checked!Writers, Verification!Accesses, Checked!Accesses,
     Verification!ResizingCollision, Checked!ResizingCollision,
     Verification!ResizingEdges, Checked!ResizingEdges, Verification!CanMerge,
     Checked!CanMerge, Verification!End, Checked!End, Verification!CollidingEnd,
     Checked!CollidingEnd, Verification!Skipped, Checked!Skipped, Verification!Current,
     Checked!Current, Verification!Scanned, Checked!Scanned, Verification!Absorbs,
     Checked!Absorbs, Verification!IsAbsorber, Checked!IsAbsorber,
     Verification!Compared, Checked!Compared, Verification!ScanEdges, Checked!ScanEdges,
     Verification!Scanning, Checked!Scanning, Verification!NeedsSplit,
     Checked!NeedsSplit, Verification!Front, Checked!Front, Verification!Remainder,
     Checked!Remainder, Verification!LowerBound, Checked!LowerBound, Verification!Shift,
     Checked!Shift, Verification!Collides, Checked!Collides, Verification!SortedList,
     Checked!SortedList, Verification!MergeAll, Checked!MergeAll,
     Verification!Intervals, Checked!Intervals, Verification!MergeMaps,
     Checked!MergeMaps, Verification!Merging, Checked!Merging, Verification!Ranges,
     Checked!Ranges, Verification!MergeInsert, Checked!MergeInsert,
     Verification!Inserting, Checked!Inserting,
     Verification!Cardinality, Checked!Cardinality, Verification!IsFiniteSet,
     Checked!IsFiniteSet
<1>1. Verification!CheckBounds => Checked!CheckBounds
  BY DEF Verification!CheckBounds, Checked!CheckBounds
<1>2. Verification!SortBlocks => Checked!SortBlocks
  BY DEF Verification!SortBlocks, Checked!SortBlocks
<1>3. Verification!FindResizingCollisions => Checked!FindResizingCollisions
  BY DEF Verification!FindResizingCollisions, Checked!FindResizingCollisions
<1>4. Verification!ResizingFails => Checked!ResizingFails
  BY DEF Verification!ResizingFails, Checked!ResizingFails
<1>5. Verification!SkipBlock => Checked!SkipBlock
  BY DEF Verification!SkipBlock, Checked!SkipBlock
<1>6. Verification!FinalizeCluster => Checked!FinalizeCluster
  BY DEF Verification!FinalizeCluster, Checked!FinalizeCluster
<1>7. Verification!MergeBlock => Checked!MergeBlock
  BY DEF Verification!MergeBlock, Checked!MergeBlock
<1>8. Verification!SplitBlock => Checked!SplitBlock
  BY DEF Verification!SplitBlock, Checked!SplitBlock
<1>9. Verification!CliqueFails => Checked!CliqueFails
  BY DEF Verification!CliqueFails, Checked!CliqueFails
<1>10. Verification!Accept => Checked!Accept
  BY DEF Verification!Accept, Checked!Accept
<1> QED
  BY ONLY <1>1, <1>2, <1>3, <1>4, <1>5, <1>6, <1>7, <1>8, <1>9, <1>10
  DEF Verification!Next, Checked!Next

LEMMA StepsAlike == [Next]_vars => [Checked!Next]_Checked!vars
<1>1. CASE Verify
  BY <1>1, VerifiesAlike DEF Verify
<1>2. ASSUME NEW r \in Request, Step(r) \/ CallFails(r) PROVE UNCHANGED verifying
  BY <1>2 DEF Step, Begin, Operate, Load, Store, AddInt, IsValid, GetChunkSize, UpdateChunkSize,
              Raise, Discard, CallFails, Does, WriteToHeap, WriteSize, WriteBlock, ReadSum,
              WriteSum, Finish
<1>3. UNCHANGED verifying => UNCHANGED Checked!vars
  BY DEF verifying, Checked!vars
<1> QED
  BY <1>1, <1>2, <1>3 DEF Next, vars

\* The verification that comes before the requests is that of ClusterProduct.
LEMMA Verifies == Spec => Checked!Spec
<1>1. Init => Checked!Init
  BY DEF Init, Checked!Init, Verification!Init
<1> QED
  BY <1>1, StepsAlike, PTL DEF Spec, Checked!Spec

Narrow == Verification!NarrowSizes /\ Verification!ShrinksWithinBounds

LEMMA Sound ==
    ASSUME Narrow
    PROVE  Spec => []Checked!SoundUnlessCrowded
<1>1. Checked!NarrowSizes /\ Checked!ShrinksWithinBounds
  BY DEF Narrow, Verification!NarrowSizes, Checked!NarrowSizes,
         Verification!ShrinksWithinBounds, Checked!ShrinksWithinBounds
<1>2. Checked!Spec => []Checked!SoundUnlessCrowded
  BY <1>1, Assumed, Checked!VerificationIsSound
<1> QED
  BY <1>2, Verifies, PTL

-----------------------------------------------------------------------------
(* The invariant *)

AsGiven ==
    \E given \in Inputs :
        accessMap = given.accessMap /\ bounds = given.bounds /\ dag = given.dag

Phases == {"pending", "running", "done"}

Typed ==
    /\ phase \in [Request -> Phases]
    /\ initialSize \in [Request -> Nat \cup {-1}]
    /\ pc \in [Request -> Nat \ {0}]
    /\ changed = [r \in Request |-> changed[r]]
    /\ chunk = [size |-> chunk.size, bytes |-> chunk.bytes] /\ chunk.size \in Nat
    /\ checked \subseteq dag

\* Nothing happens before the dag is accepted, and to a request before it runs.
NotBegun ==
    /\ stage # "accepted" => \A r \in Request : phase[r] = "pending"
    /\ \A r \in Request : phase[r] = "pending" =>
          initialSize[r] = -1 /\ SizeBlock \notin DOMAIN changed[r] /\ r \notin sized

\* A request runs after those that the dag puts before it.
InOrder == \A e \in dag : phase[e[2]] # "pending" => phase[e[1]] = "done"

\* The new size of a chunk goes from what it was towards the declared bound.
Between(from, to, bound) ==
    /\ to \in Nat
    /\ bound > 0 => from <= to /\ (to <= bound \/ to = from)
    /\ bound <= 0 => to <= from /\ (-bound <= to \/ to = from)

Resized(r) ==
    SizeBlock \in DOMAIN changed[r] =>
        /\ initialSize[r] # -1 /\ Resizable(r)
        /\ Between(initialSize[r], changed[r][SizeBlock], Resizing(r).size)

Unsized(r) == phase[r] # "done" /\ r \notin sized

NewSizes == \A r \in Request : Unsized(r) => Resized(r)

\* The size stays above the proposed lower bound.
BoundsChecked ==
    stage \notin {"bounds", "BlockError"} =>
        \A r \in Request : \A b \in accessMap[r] : b.offset = -1 =>
            /\ bounds.lower <= bounds.size
            /\ b.size = 0 => bounds.lower = 0

Floor ==
    /\ stage # "accepted" => chunk.size = bounds.size
    /\ stage = "accepted" /\ (\E r \in Request : Resizable(r)) => bounds.lower <= chunk.size

IInv ==
    /\ AsGiven /\ Typed /\ NotBegun /\ InOrder
    /\ NewSizes /\ BoundsChecked /\ Floor
    /\ OutdatedSizeHarmless

\* What is known of the blocks that a request declares.
LEMMA Declarations ==
    ASSUME AsGiven
    PROVE  /\ Request \subseteq Nat /\ dag \subseteq Request \X Request
           /\ bounds \in [size : Nat, lower : Nat, upper : Nat]
           /\ \A r \in Request :
                 /\ \A b \in accessMap[r] :
                       /\ b \in [offset : Int, size : Int, type : Verification!Types]
                       /\ b.offset >= -3 /\ (b.offset >= 0 => b.size > 0)
                 /\ \A a, b \in accessMap[r] : a # b => a.offset >= 0 \/ b.offset >= 0
<1>1. PICK given \in Inputs :
          accessMap = given.accessMap /\ bounds = given.bounds /\ dag = given.dag
  BY DEF AsGiven
<1>2. Verification!ClusterProductAssumption
  BY ParallelHeapAssumption
<1>3. /\ \A r \in Request : Verification!IsAccessMap(given.accessMap[r])
      /\ given.bounds \in [size : Nat, lower : Nat, upper : Nat]
      /\ given.dag \subseteq Request \X Request
  BY <1>2 DEF Verification!ClusterProductAssumption
<1>4. Request \subseteq Nat
  <2>1. IsFiniteSet(Request) /\ Request = 0 .. Cardinality(Request) - 1
    BY <1>2 DEF Verification!ClusterProductAssumption, Verification!IsFiniteSet,
                Verification!Cardinality, IsFiniteSet, Cardinality
  <2> QED
    BY <2>1, FS_CardinalityType
<1>5. ASSUME NEW r \in Request
      PROVE  /\ \A b \in accessMap[r] :
                    /\ b \in [offset : Int, size : Int, type : Verification!Types]
                    /\ b.offset >= -3 /\ (b.offset >= 0 => b.size > 0)
             /\ \A a, b \in accessMap[r] : a # b => a.offset >= 0 \/ b.offset >= 0
  BY <1>1, <1>3 DEF Verification!IsAccessMap
<1> QED
  BY <1>1, <1>3, <1>4, <1>5

LEMMA ResizingBlock ==
    ASSUME AsGiven, NEW r \in Request
    PROVE  /\ Resizing(r) \in accessMap[r]
           /\ Resizing(r).offset \in {-3, -2, -1} /\ Resizing(r).size \in Int
           /\ \A b \in accessMap[r] : b.offset < 0 => b = Resizing(r)
<1>1. PICK given \in Inputs : accessMap = given.accessMap
  BY DEF AsGiven
<1>2. \E b \in accessMap[r] : b.offset < 0
  BY <1>1, ParallelHeapAssumption
<1>3. Resizing(r) \in accessMap[r] /\ Resizing(r).offset < 0
  BY <1>2 DEF Resizing
<1>4. /\ Resizing(r) \in [offset : Int, size : Int, type : Verification!Types]
      /\ Resizing(r).offset >= -3
      /\ \A a, b \in accessMap[r] : a # b => a.offset >= 0 \/ b.offset >= 0
      /\ \A b \in accessMap[r] : b.offset \in Int
  BY <1>3, Declarations
<1>5. \A b \in accessMap[r] : b.offset < 0 => b = Resizing(r)
  BY <1>3, <1>4
<1>6. Resizing(r).offset \in {-3, -2, -1}
  BY <1>3, <1>4
<1> QED
  BY <1>3, <1>4, <1>5, <1>6

\* What is known of the operations of a request.
LEMMA Programs ==
    ASSUME AsGiven, NEW r \in Request, pc[r] \in Nat \ {0}, pc[r] <= Len(Program(r))
    PROVE  /\ Op(r).do = "resize" => Op(r).value \in Nat
           /\ Op(r).do \notin {"size", "resize"} =>
                 Op(r).block \in accessMap[r] /\ Op(r).block.offset >= 0
                 /\ Op(r).block # SizeBlock
<1>1. PICK given \in Inputs : accessMap = given.accessMap
  BY DEF AsGiven
<1> DEFINE program == ProgramOf(given.accessMap[r])
           operations == {program[n] : n \in DOMAIN program}
<1>2. /\ program \in Seq(operations)
      /\ \A op \in operations :
            /\ op.do = "resize" => op.value \in Nat
            /\ op.do \notin {"size", "resize"} =>
                  op.block \in given.accessMap[r] /\ op.block.offset >= 0
  BY ParallelHeapAssumption, Zenon
<1>3. program = Program(r) /\ given.accessMap[r] = accessMap[r]
  BY <1>1 DEF Program
<1>4. pc[r] \in DOMAIN program
  <2> HIDE DEF operations, program
  <2>1. DOMAIN program = 1 .. Len(program) /\ Len(program) \in Nat
    BY <1>2
  <2> QED
    BY <1>3, <2>1
<1>5. ~(SizeBlock.offset >= 0)
  BY DEF SizeBlock, Heap!SizeBlock
<1>6. Op(r) \in operations
  BY <1>3, <1>4 DEF Op
<1> QED
  BY <1>2, <1>3, <1>5, <1>6

-----------------------------------------------------------------------------
(* Requests that run at the same time *)

\* Who must come before a running request has finished.
LEMMA NotReached ==
    ASSUME AsGiven, Typed, InOrder, NEW r \in Request, NEW s \in Request, r # s,
           phase[r] = "running", phase[s] = "running"
    PROVE  ~Checked!Reaches(r, s, checked)
<1> DEFINE S == {r} \cup {q \in Request : phase[q] = "pending"}
<1>1. S \in SUBSET Request /\ r \in S /\ s \notin S
  OBVIOUS
<1>2. ASSUME NEW e \in checked, e[1] \in S PROVE e[2] \in S
  <2>1. e \in dag /\ e[1] \in Request /\ e[2] \in Request
    BY Declarations DEF Typed
  <2>2. phase[e[1]] # "done"
    BY <1>2, <2>1
  <2> QED
    BY <2>1, <2>2 DEF InOrder
<1> HIDE DEF S
<1> QED
  BY <1>1, <1>2 DEF Checked!Reaches

LEMMA CollideBoth ==
    ASSUME AsGiven, NEW r \in Request, NEW s \in Request, Verification!Collide(r, s)
    PROVE  Checked!Collide(r, s) /\ Checked!Collide(s, r)
<1>1. r # s
  BY DEF Verification!Collide
<1>2. PICK a \in Verification!BlocksOf(r), b \in Verification!BlocksOf(s) :
          \/ Verification!BlocksCollide(a, b)
          \/ Verification!SizeCollides(a, b) \/ Verification!SizeCollides(b, a)
  BY DEF Verification!Collide
<1>3. a \in Checked!BlocksOf(r) /\ b \in Checked!BlocksOf(s)
  BY DEF Verification!BlocksOf, Checked!BlocksOf
<1>4. CASE Verification!BlocksCollide(a, b)
  <2>1. Checked!BlocksCollide(a, b) /\ Checked!BlocksCollide(b, a)
    BY <1>4 DEF Verification!BlocksCollide, Checked!BlocksCollide, Verification!Overlap,
                Checked!Overlap, Verification!MayWrite, Checked!MayWrite
  <2> QED
    BY <1>1, <1>3, <2>1 DEF Checked!Collide
<1>5. CASE Verification!SizeCollides(a, b) \/ Verification!SizeCollides(b, a)
  <2>1. Checked!SizeCollides(a, b) \/ Checked!SizeCollides(b, a)
    BY <1>5 DEF Verification!SizeCollides, Checked!SizeCollides
  <2> QED
    BY <1>1, <1>3, <2>1 DEF Checked!Collide
<1> QED
  BY <1>2, <1>4, <1>5

Orderly == Checked!SoundUnlessCrowded /\ ~Verification!Crowded

LEMMA TogetherApart ==
    ASSUME AsGiven, Typed, NotBegun, InOrder, Orderly, NEW r \in Request, NEW s \in Request,
           phase[r] = "running", phase[s] = "running"
    PROVE  ~Verification!Collide(r, s)
<1>1. SUFFICES ASSUME Verification!Collide(r, s) PROVE FALSE
  OBVIOUS
<1>2. r # s
  BY <1>1 DEF Verification!Collide
<1>3. stage = "accepted"
  BY DEF NotBegun
<1>4. ~Checked!Crowded
  BY DEF Orderly, Verification!Crowded, Checked!Crowded, Verification!Blocks, Checked!Blocks,
         Verification!BlocksOf, Checked!BlocksOf, Verification!BlockEnd, Checked!BlockEnd
<1>5. Checked!Collide(r, s) /\ Checked!Collide(s, r)
  BY <1>1, CollideBoth
<1>6. r \in Nat /\ s \in Nat
  BY Declarations
<1>7. Checked!Reaches(r, s, checked) \/ Checked!Reaches(s, r, checked)
  BY <1>2, <1>3, <1>4, <1>5, <1>6 DEF Orderly, Checked!SoundUnlessCrowded
<1> QED
  BY <1>2, <1>7, NotReached

-----------------------------------------------------------------------------
(* Steps of the verification and of the requests *)

LEMMA VerifyFacts ==
    ASSUME Verification!Next
    PROVE  /\ accessMap' = accessMap /\ bounds' = bounds /\ dag' = dag
           /\ stage \notin {"accepted", "BlockError"}
           /\ stage = "bounds" => \/ stage' = "BlockError"
                                  \/ \A b \in Verification!Blocks :
                                        Verification!Resizes(b) => ~Verification!BadBounds(b)
           /\ checked' \subseteq checked \cup dag
<1> USE DEF Verification!input, Verification!MissingEdge, Verification!Scanning, Verification!Verify
<1>1. CASE Verification!CheckBounds
  BY <1>1 DEF Verification!CheckBounds
<1>2. CASE Verification!SortBlocks
  BY <1>2 DEF Verification!SortBlocks
<1>3. CASE Verification!FindResizingCollisions
  BY <1>3 DEF Verification!FindResizingCollisions
<1>4. CASE Verification!ResizingFails
  BY <1>4 DEF Verification!ResizingFails
<1>5. CASE Verification!SkipBlock
  BY <1>5 DEF Verification!SkipBlock
<1>6. CASE Verification!FinalizeCluster
  BY <1>6 DEF Verification!FinalizeCluster
<1>7. CASE Verification!MergeBlock
  BY <1>7 DEF Verification!MergeBlock
<1>8. CASE Verification!SplitBlock
  BY <1>8 DEF Verification!SplitBlock
<1>9. CASE Verification!CliqueFails
  BY <1>9 DEF Verification!CliqueFails
<1>10. CASE Verification!Accept
  BY <1>10 DEF Verification!Accept
<1> QED
  BY <1>1, <1>2, <1>3, <1>4, <1>5, <1>6, <1>7, <1>8, <1>9, <1>10 DEF Verification!Next

\* What the test of the proposed bounds is worth.
LEMMA GoodBounds ==
    ASSUME AsGiven, NEW r \in Request, NEW b \in accessMap[r], b.offset = -1,
           \A c \in Verification!Blocks : Verification!Resizes(c) => ~Verification!BadBounds(c)
    PROVE  bounds.lower <= bounds.size /\ (b.size = 0 => bounds.lower = 0)
<1> DEFINE c == [offset |-> b.offset, size |-> b.size, type |-> b.type, req |-> r]
<1>1. c \in Verification!Blocks
  BY DEF Verification!Blocks, Verification!BlocksOf
<1>2. ~Verification!BadBounds(c)
  BY <1>1 DEF Verification!Resizes
<1>3. bounds.size \in Nat /\ bounds.lower \in Nat /\ b.size \in Int
  BY Declarations
<1>4. /\ ~(bounds.size < bounds.lower)
      /\ b.size = 0 => ~(0 < bounds.lower)
  BY <1>2 DEF Verification!BadBounds
<1> QED
  BY <1>3, <1>4

LEMMA VerifyStep == ASSUME IInv, Verify PROVE IInv'
<1>1. /\ accessMap' = accessMap /\ bounds' = bounds /\ dag' = dag
      /\ stage \notin {"accepted", "BlockError"}
      /\ checked' \subseteq checked \cup dag
  BY VerifyFacts DEF Verify
<1>2. UNCHANGED <<chunk, phase, pc, initialSize, changed, sized>>
  BY DEF Verify, local
<1>3. AsGiven /\ Typed /\ NotBegun /\ InOrder /\ NewSizes /\ BoundsChecked /\ Floor
  BY DEF IInv
<1>4. AsGiven' /\ InOrder'
  BY <1>1, <1>2, <1>3 DEF AsGiven, InOrder
<1>5. Typed'
  BY <1>1, <1>2, <1>3 DEF Typed
<1>6. \A r \in Request : phase[r] = "pending"
  BY <1>1, <1>3 DEF NotBegun
<1>7. NotBegun'
  BY <1>2, <1>3, <1>6 DEF NotBegun
<1>8. NewSizes'
  BY <1>1, <1>2, <1>3 DEF NewSizes, Unsized, Resized, Resizable, Resizing
<1>9. BoundsChecked'
  <2>1. CASE stage = "bounds"
    <3>1. SUFFICES ASSUME stage' # "BlockError", NEW r \in Request, NEW b \in accessMap[r],
                          b.offset = -1
                   PROVE  bounds.lower <= bounds.size /\ (b.size = 0 => bounds.lower = 0)
      BY <1>1 DEF BoundsChecked
    <3>2. \A c \in Verification!Blocks : Verification!Resizes(c) => ~Verification!BadBounds(c)
      BY <2>1, <3>1, VerifyFacts DEF Verify
    <3> QED
      BY <1>3, <3>1, <3>2, GoodBounds
  <2>2. CASE stage # "bounds"
    BY <1>1, <1>3, <2>2 DEF BoundsChecked
  <2> QED
    BY <2>1, <2>2
<1>10. Floor'
  <2>1. chunk.size = bounds.size
    BY <1>1, <1>3 DEF Floor
  <2>2. ASSUME stage' = "accepted", NEW r \in Request, Resizable(r)'
        PROVE  bounds.lower <= bounds.size
    <3>1. Resizing(r) \in accessMap[r] /\ Resizing(r).offset = -1
      BY <1>1, <1>3, <2>2, ResizingBlock DEF Resizable, Resizing
    <3>2. stage' \notin {"bounds", "BlockError"}
      BY <2>2
    <3> QED
      BY <1>1, <1>9, <3>1, <3>2 DEF BoundsChecked
  <2> QED
    BY <1>1, <1>2, <2>1, <2>2 DEF Floor
<1>11. OutdatedSizeHarmless'
  BY <1>2, <1>6 DEF OutdatedSizeHarmless
<1> QED
  BY <1>4, <1>5, <1>7, <1>8, <1>9, <1>10, <1>11 DEF IInv

LEMMA BeginStep == ASSUME IInv, NEW r \in Request, Begin(r) PROVE IInv'
<1>1. AsGiven /\ Typed /\ NotBegun /\ InOrder /\ NewSizes /\ BoundsChecked /\ Floor
      /\ OutdatedSizeHarmless
  BY DEF IInv
<1>2. /\ stage = "accepted" /\ phase[r] = "pending"
      /\ phase' = [phase EXCEPT ![r] = "running"]
      /\ \A p \in Order!Predecessors(r) : phase[p] = "done"
      /\ UNCHANGED <<accessMap, bounds, dag, stage, checked, chunk, pc, initialSize, changed, sized>>
  BY DEF Begin, Order!Start, verifying, local
<1>3. initialSize[r] = -1 /\ SizeBlock \notin DOMAIN changed[r]
  BY <1>1, <1>2 DEF NotBegun
<1>4. \A q \in Request : phase'[q] = IF q = r THEN "running" ELSE phase[q]
  BY <1>1, <1>2 DEF Typed
<1>5. AsGiven' /\ BoundsChecked' /\ Floor'
  BY <1>1, <1>2 DEF AsGiven, BoundsChecked, Floor, Resizable, Resizing
<1>6. Typed'
  BY <1>1, <1>2 DEF Typed, Phases
<1>7. NotBegun'
  BY <1>1, <1>2, <1>4 DEF NotBegun
<1>8. InOrder'
  <2>1. ASSUME NEW e \in dag, phase'[e[2]] # "pending" PROVE phase'[e[1]] = "done"
    <3>1. e[1] \in Request /\ e[2] \in Request
      BY <1>1, Declarations
    <3>2. e[2] = r => e[1] \in Order!Predecessors(r)
      BY <3>1 DEF Order!Predecessors
    <3>3. phase[e[1]] = "done"
      BY <1>1, <1>2, <1>4, <2>1, <3>1, <3>2 DEF InOrder
    <3> QED
      BY <1>2, <1>4, <3>1, <3>3
  <2> QED
    BY <1>2, <2>1 DEF InOrder
<1>9. NewSizes'
  BY <1>1, <1>2, <1>3, <1>4 DEF NewSizes, Unsized, Resized, Resizable, Resizing
<1>10. OutdatedSizeHarmless'
  BY <1>1, <1>2, <1>3, <1>4 DEF OutdatedSizeHarmless, Resizing
<1> QED
  BY <1>5, <1>6, <1>7, <1>8, <1>9, <1>10 DEF IInv

\* Reading the size once.
Reads(r) == initialSize' = initialSize \/ (phase[r] = "running" /\ SizeRead(r))

\* A step of a request that leaves the chunk's size as it is.
LEMMA SizeStays ==
    ASSUME IInv, NEW r \in Request, UNCHANGED verifying,
           chunk' = [size |-> chunk.size, bytes |-> chunk'.bytes],
           pc' = pc \/ pc' = [pc EXCEPT ![r] = @ + 1],
           sized' = sized \/ (phase[r] = "running" /\ sized' = sized \cup {r}),
           phase' = phase \/ (phase[r] = "running" /\ phase' = [phase EXCEPT ![r] = "done"]),
           Reads(r),
           changed' = [changed EXCEPT ![r] = changed'[r]],
           phase[r] = "pending" => DOMAIN changed'[r] \subseteq DOMAIN changed[r],
           Unsized(r)' => Resized(r)'
    PROVE  IInv'
<1>1. AsGiven /\ Typed /\ NotBegun /\ InOrder /\ NewSizes /\ BoundsChecked /\ Floor
      /\ OutdatedSizeHarmless
  BY DEF IInv
<1>2. /\ accessMap' = accessMap /\ bounds' = bounds /\ dag' = dag /\ stage' = stage
      /\ checked' = checked /\ chunk'.size = chunk.size
  BY DEF verifying
<1>3. \A q \in Request : q # r =>
          /\ phase'[q] = phase[q] /\ initialSize'[q] = initialSize[q]
          /\ changed'[q] = changed[q] /\ (q \in sized' <=> q \in sized)
  BY <1>1 DEF Typed, Reads, SizeRead
<1>4. /\ phase'[r] = phase[r] \/ (phase[r] = "running" /\ phase'[r] = "done")
      /\ \/ initialSize'[r] = initialSize[r]
         \/ phase[r] = "running" /\ initialSize'[r] = InitialSize(r)
      /\ r \notin sized' => r \notin sized
      /\ (phase[r] = "pending" /\ r \in sized') => r \in sized
  BY <1>1 DEF Typed, Reads, SizeRead
<1>5. AsGiven' /\ BoundsChecked' /\ Floor'
  BY <1>1, <1>2 DEF AsGiven, BoundsChecked, Floor, Resizable, Resizing
<1>6. Typed'
  <2>1. InitialSize(r) \in Nat \cup {-1}
    BY <1>1 DEF Typed, InitialSize
  <2>2. initialSize' \in [Request -> Nat \cup {-1}]
    BY <1>1, <2>1 DEF Typed, Reads, SizeRead
  <2>3. phase' \in [Request -> Phases]
    BY <1>1 DEF Typed, Phases
  <2>4. pc' \in [Request -> Nat \ {0}]
    BY <1>1 DEF Typed
  <2>5. changed' = [q \in Request |-> changed'[q]]
    BY <1>1 DEF Typed
  <2>6. checked' \subseteq dag' /\ chunk'.size \in Nat
    BY <1>1, <1>2 DEF Typed
  <2> QED
    BY <2>2, <2>3, <2>4, <2>5, <2>6, <1>2 DEF Typed
<1>7. NotBegun'
  <2>1. ASSUME stage # "accepted", NEW q \in Request PROVE phase'[q] = "pending"
    BY <1>1, <1>3, <1>4, <2>1 DEF NotBegun
  <2>2. ASSUME NEW q \in Request, phase'[q] = "pending"
        PROVE  initialSize'[q] = -1 /\ SizeBlock \notin DOMAIN changed'[q] /\ q \notin sized'
    BY <1>1, <1>3, <1>4, <2>2 DEF NotBegun
  <2> QED
    BY <1>2, <2>1, <2>2 DEF NotBegun
<1>8. InOrder'
  <2>1. ASSUME NEW e \in dag, phase'[e[2]] # "pending" PROVE phase'[e[1]] = "done"
    <3>1. e[1] \in Request /\ e[2] \in Request
      BY <1>1, Declarations
    <3>2. phase[e[2]] # "pending"
      BY <1>3, <1>4, <2>1, <3>1
    <3>3. phase[e[1]] = "done"
      BY <1>1, <3>2 DEF InOrder
    <3> QED
      BY <1>3, <1>4, <3>1, <3>3
  <2> QED
    BY <1>2, <2>1 DEF InOrder
<1>9. NewSizes'
  <2>1. ASSUME NEW q \in Request, q # r, Unsized(q)' PROVE Resized(q)'
    BY <1>1, <1>2, <1>3, <2>1 DEF NewSizes, Unsized, Resized, Resizable, Resizing
  <2> QED
    BY <2>1 DEF NewSizes
<1>10. OutdatedSizeHarmless'
  <2>1. ASSUME NEW q \in Request, phase'[q] = "running", q \notin sized', initialSize'[q] # -1,
               initialSize'[q] # chunk.size
        PROVE  phase[q] = "running" /\ q \notin sized /\ initialSize[q] # -1
               /\ initialSize'[q] = initialSize[q]
    BY <1>1, <1>3, <1>4, <2>1 DEF InitialSize
  <2>2. ASSUME NEW q \in Request, phase'[q] = "running", q \notin sized', initialSize'[q] # -1
        PROVE  /\ Resizing(q).offset # -3 => initialSize'[q] = chunk.size
               /\ \A b \in accessMap[q] : b.offset >= 0 =>
                     /\ b.offset < initialSize'[q] <=> b.offset < chunk.size
                     /\ b.offset + b.size <= initialSize'[q] <=> b.offset + b.size <= chunk.size
    <3>1. CASE initialSize'[q] = chunk.size
      BY <3>1
    <3>2. CASE initialSize'[q] # chunk.size
      BY <1>1, <2>1, <2>2, <3>2 DEF OutdatedSizeHarmless
    <3> QED
      BY <3>1, <3>2
  <2> QED
    BY <1>2, <2>2 DEF OutdatedSizeHarmless, Resizing
<1> QED
  BY <1>5, <1>6, <1>7, <1>8, <1>9, <1>10 DEF IInv

\* A new size stays what it was if the block of the size is not written.
LEMMA SizeKept ==
    ASSUME IInv, NEW r \in Request, UNCHANGED verifying, Reads(r), Unsized(r),
           SizeBlock \in DOMAIN changed'[r] =>
               SizeBlock \in DOMAIN changed[r] /\ changed'[r][SizeBlock] = changed[r][SizeBlock]
    PROVE  Resized(r)'
<1>1. Typed /\ NewSizes
  BY DEF IInv
<1>2. Resizable(r)' = Resizable(r) /\ Resizing(r)' = Resizing(r)
  BY DEF verifying, Resizable, Resizing
<1>3. ASSUME initialSize[r] # -1 PROVE initialSize'[r] = initialSize[r]
  BY <1>1, <1>3 DEF Typed, Reads, SizeRead, InitialSize
<1> QED
  BY <1>1, <1>2, <1>3 DEF NewSizes, Resized

\* What an operation leaves alone, and how the last version of the blocks may change.
Working(r) ==
    /\ Running(r)
    /\ UNCHANGED <<verifying, chunk, phase, sized>>
    /\ pc' = [pc EXCEPT ![r] = @ + 1]

LEMMA Operation ==
    ASSUME IInv, NEW r \in Request, Working(r), Reads(r),
           changed' = [changed EXCEPT ![r] = changed'[r]], Resized(r)'
    PROVE  IInv'
<1>1. chunk' = [size |-> chunk.size, bytes |-> chunk'.bytes]
  BY DEF IInv, Typed, Working
<1> QED
  BY <1>1, SizeStays DEF Working, Running

LEMMA OperationKeeps ==
    ASSUME IInv, NEW r \in Request, Working(r), Reads(r),
           \/ changed' = changed
           \/ \E b, content : Change(r, b, content) /\ b # SizeBlock
    PROVE  IInv'
<1>1. Typed
  BY DEF IInv
<1>2. /\ changed' = [changed EXCEPT ![r] = changed'[r]]
      /\ SizeBlock \in DOMAIN changed'[r] =>
             SizeBlock \in DOMAIN changed[r] /\ changed'[r][SizeBlock] = changed[r][SizeBlock]
  <2>1. CASE changed' = changed
    BY <1>1, <2>1 DEF Typed
  <2>2. ASSUME NEW b, NEW content, Change(r, b, content), b # SizeBlock
        PROVE  /\ changed' = [changed EXCEPT ![r] = changed'[r]]
               /\ SizeBlock \in DOMAIN changed'[r] =>
                      /\ SizeBlock \in DOMAIN changed[r]
                      /\ changed'[r][SizeBlock] = changed[r][SizeBlock]
    BY <1>1, <2>2 DEF Typed, Change
  <2> QED
    BY <2>1, <2>2
<1>3. Resized(r)'
  BY <1>2, SizeKept DEF Working, Running, Unsized
<1> QED
  BY <1>2, <1>3, Operation

LEMMA ResizeStep == ASSUME IInv, NEW r \in Request, UpdateChunkSize(r) PROVE IInv'
<1>1. AsGiven /\ Typed /\ NotBegun /\ InOrder /\ NewSizes /\ Floor
  BY DEF IInv
<1>2. Working(r) /\ pc[r] <= Len(Program(r)) /\ Op(r).do = "resize"
  BY DEF UpdateChunkSize, Does, Working
<1>3. Reads(r) /\ SizeRead(r)
  BY <1>2 DEF UpdateChunkSize, Reads, Working, Running
<1> DEFINE old == ShownSize(r)
           new == Op(r).value
<1>4. CASE new = old
  BY <1>2, <1>3, <1>4, OperationKeeps DEF UpdateChunkSize
<1>5. CASE new # old
  <2>1. Change(r, SizeBlock, new) /\ Accepts(Resizing(r), old, new)
    BY <1>5 DEF UpdateChunkSize
  <2>2. /\ changed' = [changed EXCEPT ![r] = changed'[r]]
        /\ changed'[r][SizeBlock] = new
    BY <1>1, <2>1 DEF Typed, Change
  <2>3. InitialSize(r) \in Nat /\ initialSize'[r] = InitialSize(r)
    BY <1>1, <1>3 DEF Typed, InitialSize, SizeRead
  <2>4. Resizing(r).size \in Int
    BY <1>1, ResizingBlock
  <2>5. /\ old \in Nat
        /\ Resizing(r).size > 0 => InitialSize(r) <= old
        /\ Resizing(r).size <= 0 => old <= InitialSize(r)
    <3>1. CASE SizeBlock \in DOMAIN changed[r]
      <4>1. Resized(r)
        BY <1>1, <1>2 DEF NewSizes, Unsized, Working, Running
      <4> QED
        BY <3>1, <4>1 DEF Resized, Between, ShownSize, InitialSize
    <3>2. CASE SizeBlock \notin DOMAIN changed[r]
      BY <2>3, <2>4, <3>2 DEF ShownSize
    <3> QED
      BY <3>1, <3>2
  <2>6. new \in Nat
    BY <1>1, <1>2, Programs DEF Typed
  <2>7. Resizable(r)
    BY <1>5, <2>1 DEF Accepts, Resizable
  <2> HIDE DEF old, new
  <2>8. Between(InitialSize(r), new, Resizing(r).size)
    BY <1>5, <2>1, <2>3, <2>4, <2>5, <2>6 DEF Accepts, Between
  <2>9. Resizable(r)' = Resizable(r) /\ Resizing(r)' = Resizing(r)
    BY <1>2 DEF Working, verifying, Resizable, Resizing
  <2>10. Resized(r)'
    BY <2>2, <2>3, <2>7, <2>8, <2>9 DEF Resized
  <2> QED
    BY <1>2, <1>3, <2>2, <2>10, Operation
<1> QED
  BY <1>4, <1>5

LEMMA DiscardStep ==
    ASSUME IInv, NEW r \in Request, Running(r), Discard(r),
           initialSize' = initialSize \/ SizeRead(r)
    PROVE  IInv'
<1>1. Typed
  BY DEF IInv
<1>2. /\ phase[r] = "running" /\ phase' = [phase EXCEPT ![r] = "done"]
      /\ changed' = [changed EXCEPT ![r] = << >>]
      /\ UNCHANGED <<verifying, chunk, pc, sized>>
  BY DEF Discard, Running, Order!Finish
<1>3. changed' = [changed EXCEPT ![r] = changed'[r]]
  BY <1>1, <1>2 DEF Typed
<1>4. ~Unsized(r)'
  BY <1>1, <1>2 DEF Typed, Unsized
<1>5. chunk' = [size |-> chunk.size, bytes |-> chunk'.bytes]
  BY <1>1, <1>2 DEF Typed
<1> QED
  BY <1>2, <1>3, <1>4, <1>5, SizeStays DEF Reads

LEMMA OperateStep == ASSUME IInv, NEW r \in Request, Operate(r) \/ CallFails(r) PROVE IInv'
<1> USE DEF Does, Working
<1>1. CASE Load(r)
  BY <1>1, OperationKeeps DEF Load, Reads
<1>2. CASE Store(r)
  <2>1. Op(r).block # SizeBlock
    BY <1>2, Programs DEF Store, IInv, Typed
  <2> QED
    BY <1>2, <2>1, OperationKeeps DEF Store, Reads
<1>3. CASE AddInt(r)
  <2>1. Op(r).block # SizeBlock
    BY <1>3, Programs DEF AddInt, IInv, Typed
  <2> QED
    BY <1>3, <2>1, OperationKeeps DEF AddInt, Reads
<1>4. CASE IsValid(r)
  BY <1>4, OperationKeeps DEF IsValid, Reads, Running
<1>5. CASE GetChunkSize(r)
  BY <1>5, OperationKeeps DEF GetChunkSize, Reads, Running
<1>6. CASE UpdateChunkSize(r)
  BY <1>6, ResizeStep
<1>7. CASE Raise(r)
  BY <1>7, DiscardStep DEF Raise
<1>8. CASE CallFails(r)
  BY <1>8, DiscardStep DEF CallFails
<1> QED
  BY <1>1, <1>2, <1>3, <1>4, <1>5, <1>6, <1>7, <1>8 DEF Operate

\* Writing to the chunk, and the end.
LEMMA WriteBackStep ==
    ASSUME IInv, NEW r \in Request,
           WriteBlock(r) \/ ReadSum(r) \/ WriteSum(r) \/ Finish(r)
    PROVE  IInv'
<1>1. Typed /\ NewSizes
  BY DEF IInv
<1>2. Reads(r) /\ UNCHANGED <<verifying, pc, sized>>
  BY DEF WriteBlock, ReadSum, WriteSum, Finish, Reads, local
<1>3. /\ chunk' = [size |-> chunk.size, bytes |-> chunk'.bytes]
      /\ phase' = phase \/ (phase[r] = "running" /\ phase' = [phase EXCEPT ![r] = "done"])
  BY <1>1 DEF Typed, WriteBlock, ReadSum, WriteSum, Finish, Order!Finish, Copied
<1>4. changed' = changed \/ \E b : BlockDone(r, b)
  BY DEF WriteBlock, ReadSum, WriteSum, Finish, local
<1>5. /\ changed' = [changed EXCEPT ![r] = changed'[r]]
      /\ DOMAIN changed'[r] \subseteq DOMAIN changed[r]
      /\ \A c \in DOMAIN changed'[r] : changed'[r][c] = changed[r][c]
  <2>1. CASE changed' = changed
    BY <1>1, <2>1 DEF Typed
  <2>2. ASSUME NEW b, BlockDone(r, b)
        PROVE  /\ changed' = [changed EXCEPT ![r] = changed'[r]]
               /\ DOMAIN changed'[r] \subseteq DOMAIN changed[r]
               /\ \A c \in DOMAIN changed'[r] : changed'[r][c] = changed[r][c]
    <3>1. changed'[r] = [c \in DOMAIN changed[r] \ {b} |-> changed[r][c]]
      BY <1>1, <2>2 DEF Typed, BlockDone
    <3>2. changed' = [changed EXCEPT ![r] = changed'[r]]
      BY <1>1, <2>2 DEF Typed, BlockDone
    <3> QED
      BY <3>1, <3>2
  <2> QED
    BY <1>4, <2>1, <2>2
<1>6. Unsized(r)' => Unsized(r)
  BY <1>1, <1>2, <1>3 DEF Typed, Unsized
<1>7. Unsized(r)' => Resized(r)'
  BY <1>2, <1>5, <1>6, SizeKept
<1> QED
  BY <1>2, <1>3, <1>5, <1>7, SizeStays

\* The size that a resizing request writes.
LEMMA WrittenSize ==
    ASSUME IInv, NEW r \in Request, Running(r), Resizable(r)
    PROVE  Between(chunk.size, ShownSize(r), Resizing(r).size)
<1>1. Typed /\ NewSizes /\ OutdatedSizeHarmless /\ chunk.size \in Nat
  BY DEF IInv, Typed
<1>2. InitialSize(r) = chunk.size
  BY <1>1 DEF OutdatedSizeHarmless, InitialSize, Running, Resizable
<1>3. CASE SizeBlock \in DOMAIN changed[r]
  BY <1>1, <1>2, <1>3 DEF NewSizes, Unsized, Resized, Running, ShownSize, InitialSize
<1>4. CASE SizeBlock \notin DOMAIN changed[r]
  BY <1>1, <1>2, <1>4 DEF ShownSize, Between
<1> QED
  BY <1>3, <1>4

\* A request that does not collide with one that resizes sees no difference.
LEMMA ApartFromSize ==
    ASSUME AsGiven, NEW r \in Request, NEW s \in Request, r # s, Resizable(r),
           ~Verification!Collide(s, r),
           NEW new, NEW old \in Nat, Between(old, new, Resizing(r).size), bounds.lower <= old
    PROVE  /\ Resizing(s).offset = -3
           /\ \A b \in accessMap[s] : b.offset >= 0 =>
                 /\ b.offset < new <=> b.offset < old
                 /\ b.offset + b.size <= new <=> b.offset + b.size <= old
<1> DEFINE With(q, b) == [offset |-> b.offset, size |-> b.size, type |-> b.type, req |-> q]
           w == Resizing(r)
<1>1. /\ w \in accessMap[r] /\ w.offset = -1 /\ w.size \in Int
      /\ Resizing(s) \in accessMap[s] /\ Resizing(s).offset \in {-3, -2, -1}
  BY ResizingBlock DEF Resizable
<1>2. With(r, w) \in Verification!BlocksOf(r)
  BY <1>1 DEF Verification!BlocksOf
<1>3. ASSUME NEW b \in accessMap[s] PROVE ~Verification!SizeCollides(With(s, b), With(r, w))
  <2>1. With(s, b) \in Verification!BlocksOf(s)
    BY DEF Verification!BlocksOf
  <2> QED
    BY <1>2, <2>1 DEF Verification!Collide
<1>4. ASSUME NEW b \in accessMap[s]
      PROVE  /\ b.offset \notin {-1, -2}
             /\ b.offset >= 0 /\ w.size > 0 =>
                   ~(b.offset + b.size > bounds.lower /\ b.offset < w.size)
             /\ b.offset >= 0 /\ w.size <= 0 => ~(b.offset + b.size > -w.size)
  <2> DEFINE x == With(s, b)
             y == With(r, w)
  <2>1. /\ x.offset = b.offset /\ x.size = b.size
        /\ y.offset = -1 /\ y.size = w.size
    BY <1>1
  <2>2. ~Verification!SizeCollides(x, y)
    BY <1>3
  <2> HIDE DEF x, y
  <2> QED
    BY <2>1, <2>2 DEF Verification!SizeCollides
<1>5. Resizing(s).offset = -3
  BY <1>1, <1>4
<1>6. ASSUME NEW b \in accessMap[s], b.offset >= 0
      PROVE  /\ b.offset < new <=> b.offset < old
             /\ b.offset + b.size <= new <=> b.offset + b.size <= old
  <2>1. b.offset \in Int /\ b.size \in Int /\ b.size > 0 /\ bounds.lower \in Nat
    BY <1>6, Declarations
  <2> HIDE DEF w
  <2>2. new \in Nat /\ (w.size > 0 => old <= new /\ (new <= w.size \/ new = old))
        /\ (w.size <= 0 => new <= old /\ (-w.size <= new \/ new = old))
    BY DEF Between, w
  <2>3. CASE w.size > 0
    BY <1>1, <1>4, <1>6, <2>1, <2>2, <2>3
  <2>4. CASE w.size <= 0
    BY <1>1, <1>4, <1>6, <2>1, <2>2, <2>4
  <2> QED
    BY <1>1, <2>3, <2>4
<1> QED
  BY <1>5, <1>6

\* No request shrinks the chunk below the lower bound.
LEMMA LowestShrink ==
    ASSUME Narrow, AsGiven, BoundsChecked, stage = "accepted", NEW r \in Request, Resizable(r)
    PROVE  Resizing(r).size <= 0 => bounds.lower <= -Resizing(r).size
<1>1. PICK given \in Inputs : accessMap = given.accessMap /\ bounds = given.bounds
  BY DEF AsGiven
<1>2. /\ Resizing(r) \in accessMap[r] /\ Resizing(r).offset = -1
      /\ Resizing(r).size \in Int
  BY ResizingBlock DEF Resizable
<1>3. Resizing(r).size < 0 => -Resizing(r).size >= bounds.lower
  BY <1>1, <1>2 DEF Narrow, Verification!ShrinksWithinBounds
<1>4. Resizing(r).size = 0 => bounds.lower = 0
  BY <1>2 DEF BoundsChecked
<1>5. bounds.lower \in Nat
  BY Declarations
<1> QED
  BY <1>2, <1>3, <1>4, <1>5

LEMMA WriteSizeStep ==
    ASSUME Narrow, IInv, Orderly, NEW r \in Request, WriteSize(r)
    PROVE  IInv'
<1>1. AsGiven /\ Typed /\ NotBegun /\ InOrder /\ NewSizes /\ BoundsChecked /\ Floor
      /\ OutdatedSizeHarmless
  BY DEF IInv
<1>2. /\ Running(r) /\ phase[r] = "running" /\ SizeRead(r) /\ sized' = sized \cup {r}
      /\ UNCHANGED <<verifying, phase, pc, changed>>
      /\ accessMap' = accessMap /\ bounds' = bounds /\ dag' = dag /\ stage' = stage
      /\ checked' = checked
  BY DEF WriteSize, Running, verifying
<1>3. CASE ~Resizable(r)
  <2>1. chunk' = [size |-> chunk.size, bytes |-> chunk'.bytes]
    BY <1>1, <1>3 DEF Typed, WriteSize
  <2>2. changed' = [changed EXCEPT ![r] = changed'[r]]
    BY <1>1, <1>2 DEF Typed
  <2> QED
    BY <1>2, <2>1, <2>2, SizeStays DEF Reads, Unsized
<1>4. CASE Resizable(r)
  <2> DEFINE new == ShownSize(r)
  <2>1. chunk' = [size |-> new, bytes |-> chunk'.bytes] /\ chunk'.size = new
    BY <1>4 DEF WriteSize, Heap!SetSize
  <2>2. Between(chunk.size, new, Resizing(r).size)
    BY <1>2, <1>4, WrittenSize
  <2> HIDE DEF new
  <2>3. stage = "accepted" /\ chunk.size \in Nat /\ bounds.lower <= chunk.size
    BY <1>1, <1>2, <1>4 DEF NotBegun, Floor, Typed
  <2>4. new \in Nat /\ bounds.lower <= new
    <3>1. Resizing(r).size \in Int /\ bounds.lower \in Nat
      BY <1>1, ResizingBlock, Declarations
    <3>2. Resizing(r).size <= 0 => bounds.lower <= -Resizing(r).size
      BY <1>1, <1>4, <2>3, LowestShrink
    <3> QED
      BY <2>2, <2>3, <3>1, <3>2 DEF Between
  <2>5. \A q \in Request : q # r => initialSize'[q] = initialSize[q]
    BY <1>1, <1>2 DEF Typed, SizeRead
  <2>6. AsGiven' /\ BoundsChecked' /\ InOrder'
    BY <1>1, <1>2 DEF AsGiven, BoundsChecked, InOrder
  <2>7. Typed'
    <3>1. InitialSize(r) \in Nat \cup {-1}
      BY <1>1 DEF Typed, InitialSize
    <3>2. initialSize' \in [Request -> Nat \cup {-1}]
      BY <1>1, <1>2, <3>1 DEF Typed, SizeRead
    <3> QED
      BY <1>1, <1>2, <2>1, <2>4, <3>2 DEF Typed
  <2>8. NotBegun'
    BY <1>1, <1>2, <2>5 DEF NotBegun
  <2>9. Floor'
    BY <1>2, <2>1, <2>3, <2>4 DEF Floor
  <2>10. NewSizes'
    BY <1>1, <1>2, <2>5 DEF NewSizes, Unsized, Resized, Resizable, Resizing
  <2>11. OutdatedSizeHarmless'
    <3>1. ASSUME NEW q \in Request, phase[q] = "running", q \notin sized', initialSize'[q] # -1
          PROVE  /\ Resizing(q).offset # -3 => initialSize'[q] = new
                 /\ \A b \in accessMap[q] : b.offset >= 0 =>
                       /\ b.offset < initialSize'[q] <=> b.offset < new
                       /\ b.offset + b.size <= initialSize'[q] <=> b.offset + b.size <= new
      <4>1. q # r /\ q \notin sized /\ initialSize'[q] = initialSize[q]
        BY <1>2, <2>5, <3>1
      <4>2. ~Verification!Collide(q, r)
        BY <1>1, <1>2, <3>1, TogetherApart
      <4>3. /\ Resizing(q).offset = -3
            /\ \A b \in accessMap[q] : b.offset >= 0 =>
                  /\ b.offset < new <=> b.offset < chunk.size
                  /\ b.offset + b.size <= new <=> b.offset + b.size <= chunk.size
        BY <1>1, <1>4, <2>2, <2>3, <4>1, <4>2, ApartFromSize
      <4>4. \A b \in accessMap[q] : b.offset >= 0 =>
                  /\ b.offset < initialSize[q] <=> b.offset < chunk.size
                  /\ b.offset + b.size <= initialSize[q] <=> b.offset + b.size <= chunk.size
        BY <1>1, <3>1, <4>1 DEF OutdatedSizeHarmless
      <4> QED
        BY <4>1, <4>3, <4>4
    <3> QED
      BY <1>2, <2>1, <3>1 DEF OutdatedSizeHarmless, Resizing
  <2> QED
    BY <2>6, <2>7, <2>8, <2>9, <2>10, <2>11 DEF IInv
<1> QED
  BY <1>3, <1>4
-----------------------------------------------------------------------------
(* Theorems *)

LEMMA InitInv == Init => IInv
<1> SUFFICES ASSUME Init PROVE IInv
  OBVIOUS
<1>1. /\ AsGiven /\ stage = "bounds" /\ checked = {}
      /\ chunk = Given(bounds.size)
      /\ phase = [r \in Request |-> "pending"]
      /\ pc = [r \in Request |-> 1]
      /\ initialSize = [r \in Request |-> -1]
      /\ changed = [r \in Request |-> << >>]
      /\ sized = {}
  BY DEF Init, Verification!Init, AsGiven
<1>2. chunk = [size |-> bounds.size, bytes |-> chunk.bytes] /\ bounds.size \in Nat
  BY <1>1, Declarations DEF Given
<1>3. Typed
  BY <1>1, <1>2 DEF Typed, Phases
<1>4. NotBegun /\ NewSizes
  BY <1>1 DEF NotBegun, NewSizes, Resized
<1>5. InOrder
  BY <1>1, Declarations DEF InOrder
<1>6. BoundsChecked /\ Floor
  BY <1>1, <1>2 DEF BoundsChecked, Floor
<1>7. OutdatedSizeHarmless
  BY <1>1 DEF OutdatedSizeHarmless
<1> QED
  BY <1>1, <1>3, <1>4, <1>5, <1>6, <1>7 DEF IInv

LEMMA StepKeeps == ASSUME Narrow, IInv, Orderly, [Next]_vars PROVE IInv'
<1>1. CASE Verify
  BY <1>1, VerifyStep
<1>2. ASSUME NEW r \in Request, Step(r) \/ CallFails(r) PROVE IInv'
  BY <1>2, BeginStep, OperateStep, WriteBackStep, WriteSizeStep DEF Step, WriteToHeap
<1>3. CASE UNCHANGED vars
  BY <1>3
  DEF vars, verifying, local, IInv, AsGiven, Typed, NotBegun, InOrder, NewSizes, Unsized, Resized,
      Resizable, Resizing, BoundsChecked, Floor, OutdatedSizeHarmless
<1> QED
  BY <1>1, <1>2, <1>3 DEF Next

LEMMA Invariantly ==
    ASSUME Narrow
    PROVE  Spec /\ []~Verification!Crowded => []IInv
<1>1. IInv /\ Orderly /\ [Next]_vars => IInv'
  BY StepKeeps
<1>2. Spec => []Checked!SoundUnlessCrowded
  BY Sound
<1>3. Checked!SoundUnlessCrowded /\ ~Verification!Crowded => Orderly
  BY DEF Orderly
<1> QED
  BY <1>1, <1>2, <1>3, InitInv, PTL DEF Spec

\* Verification and execution together: when the dag of a block is accepted, two requests
\* that run at the same time do not collide on the chunk, whatever the schedule. Blocks are
\* not Crowded, which the verification needs, nor do they have what NarrowSizes and
\* ShrinksWithinBounds exclude.
THEOREM RunningNeverCollide ==
    ASSUME Narrow
    PROVE  Spec /\ []~Verification!Crowded =>
               [](\A r, s \in Request : phase[r] = "running" /\ phase[s] = "running" =>
                      ~Verification!Collide(r, s))
<1>1. IInv /\ Orderly =>
          \A r, s \in Request : phase[r] = "running" /\ phase[s] = "running" =>
              ~Verification!Collide(r, s)
  BY TogetherApart DEF IInv
<1>2. Spec => []Checked!SoundUnlessCrowded
  BY Sound
<1>3. Checked!SoundUnlessCrowded /\ ~Verification!Crowded => Orderly
  BY DEF Orderly
<1> QED
  BY <1>1, <1>2, <1>3, Invariantly, PTL

\* "when the chunkSize is going to be modified the scheduler may still allow some readers of
\* chunkSize to be run concurrently" (Chunk.h): what a request has read of the size may be
\* outdated when it uses it, but never so that it matters, under the same hypotheses.
THEOREM OutdatedSizesAreHarmless ==
    ASSUME Narrow
    PROVE  Spec /\ []~Verification!Crowded => []OutdatedSizeHarmless
<1>1. IInv => OutdatedSizeHarmless
  BY DEF IInv
<1> QED
  BY <1>1, Invariantly, PTL
=============================================================================
