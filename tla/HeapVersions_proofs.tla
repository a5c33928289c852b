------------------------- MODULE HeapVersions_proofs -------------------------
(***************************************************************************)
(* The versions of a request's blocks for any blocks, any nesting of calls *)
(* and any MAX_VERSION.                                                    *)
(***************************************************************************)
EXTENDS HeapVersions, SequenceTheorems, WellFoundedInduction, TLAPS

-----------------------------------------------------------------------------
(* The newest entry of a list *)

LEMMA LeastExists ==
    ASSUME NEW T \in SUBSET Nat, T # {}
    PROVE  \E x \in T : \A y \in T : x <= y
<1> DEFINE R == OpToRel(<, Nat)
<1>1. PICK x \in T : \A y \in T : ~(<<y, x>> \in R)
  BY NatLessThanWellFounded, WFMin
<1>2. \A y \in T : ~(y < x)
  BY <1>1 DEF OpToRel
<1>. QED  BY <1>2

LEMMA GreatestExists ==
    ASSUME NEW N \in Nat, NEW T \in SUBSET (0 .. N), T # {}
    PROVE  \E x \in T : \A y \in T : y <= x
<1> DEFINE U == {n \in Nat : \E y \in T : n + y = N}
<1>1. \A y \in T : y \in Nat /\ y <= N /\ N - y \in Nat /\ (N - y) + y = N
  OBVIOUS
<1>2. PICK u \in U : \A n \in U : u <= n
  BY <1>1, LeastExists
<1>3. PICK x \in T : u + x = N
  BY <1>2
<1>4. ASSUME NEW y \in T  PROVE y <= x
  <2>1. u <= N - y
    BY <1>1, <1>2
  <2>. QED  BY <1>1, <1>2, <1>3, <2>1
<1>. QED  BY <1>4

\* An entry of a list that has some is the newest one.
LEMMA NewestIsMember ==
    ASSUME NEW N \in Nat, NEW T \in SUBSET (0 .. N), T # {}
    PROVE  Newest(T) \in T
BY GreatestExists DEF Newest

Entries(list, version) == {n \in DOMAIN list : n <= version}

\* What a reader of a version finds in a list.
Latest(list, version, initially) ==
    IF Entries(list, version) = {} THEN initially ELSE list[Newest(Entries(list, version))]

\* Popping the entries later than a version is not seen at that version or before.
LEMMA SyncKeeps ==
    ASSUME NEW N \in Nat, NEW list, DOMAIN list \subseteq 1 .. N,
           NEW cv \in 0 .. N, NEW v \in 0 .. cv, NEW initially
    PROVE  Latest([n \in Entries(list, cv) |-> list[n]], v, initially)
              = Latest(list, v, initially)
<1> DEFINE new == [n \in Entries(list, cv) |-> list[n]]
<1>1. Entries(new, v) = Entries(list, v) /\ Entries(list, v) \in SUBSET (0 .. N)
      /\ Entries(list, v) \subseteq Entries(list, cv)
  BY DEF Entries
<1>2. CASE Entries(list, v) = {}
  BY <1>1, <1>2 DEF Latest
<1>3. CASE Entries(list, v) # {}
  <2>1. Newest(Entries(list, v)) \in Entries(list, v)
    BY <1>1, <1>3, NewestIsMember
  <2>. QED  BY <1>1, <1>3, <2>1 DEF Latest
<1>. QED  BY <1>2, <1>3

\* A write at a version is seen there, and not before.
LEMMA WriteSeen ==
    ASSUME NEW cv \in Nat, NEW list, NEW new, NEW initially,
           DOMAIN list \subseteq Nat,
           DOMAIN new = Entries(list, cv) \cup {cv}
    PROVE  Latest(new, cv, initially) = new[cv]
<1>1. Entries(new, cv) = Entries(list, cv) \cup {cv}
  BY DEF Entries
<1>2. \A m \in Entries(new, cv) : m <= cv /\ m \in Int
  BY <1>1 DEF Entries
<1>3. Newest(Entries(new, cv)) = cv
  BY <1>1, <1>2 DEF Newest
<1>. QED  BY <1>1, <1>3 DEF Latest

OneMore(new, list, cv) ==
    /\ DOMAIN new = Entries(list, cv) \cup {cv}
    /\ \A n \in Entries(list, cv) \ {cv} : new[n] = list[n]

LEMMA WriteUnseen ==
    ASSUME NEW cv \in Nat, NEW list, NEW new, NEW initially,
           DOMAIN list \subseteq 1 .. MaxVersion,
           OneMore(new, list, cv), NEW v \in 0 .. cv - 1
    PROVE  Latest(new, v, initially) = Latest(list, v, initially)
<1>1. Entries(new, v) = Entries(list, v) /\ Entries(list, v) \in SUBSET (0 .. MaxVersion)
      /\ Entries(list, v) \subseteq Entries(list, cv) \ {cv}
  BY HeapVersionsAssumption DEF Entries, OneMore
<1>2. CASE Entries(list, v) = {}
  BY <1>1, <1>2 DEF Latest, OneMore
<1>3. CASE Entries(list, v) # {}
  <2>1. Newest(Entries(list, v)) \in Entries(list, v)
    BY <1>1, <1>3, NewestIsMember, HeapVersionsAssumption
  <2>. QED  BY <1>1, <1>3, <2>1 DEF Latest, OneMore
<1>. QED  BY <1>2, <1>3
-----------------------------------------------------------------------------
(* The inductive invariant *)

Numbers == 0 .. MaxVersion

\* Entries have the numbers saveVersion has given out, and what the calls hold and
\* the sizes in the list are as the properties say.
VersionInv ==
    /\ stage \in {"start", "running", "finished"}
    /\ stage = "finished" => calls = << >>
    /\ stage # "finished" => chunk.size \in 0 .. Capacity
    /\ sizeBound \in 0 .. Capacity
    /\ currentVersion \in Numbers
    /\ calls \in Seq(Numbers)
    /\ versionList = [b \in Keys |-> versionList[b]]
    /\ \A b \in Keys : DOMAIN versionList[b] \subseteq 1 .. MaxVersion
    /\ CallsHoldVersions
    /\ SizesInBounds

LEMMA Bounds == MaxVersion \in Nat /\ Capacity \in Nat
BY HeapVersionsAssumption, HeapBlocksAssumption

LEMMA SizeBlockApart == SizeBlock \notin Blocks /\ SizeBlock.type = "size"
BY HeapBlocksAssumption DEF SizeBlock

\* The size that a call reads is within the limits of the chunk.
LEMMA SizeRead ==
    ASSUME VersionInv, stage # "finished"
    PROVE  LET n == At(SizeBlock, currentVersion)
           IN  /\ n \in 0 .. Capacity
               /\ \/ n = chunk.size
                  \/ resizing = "expandable" /\ n \in chunk.size .. sizeBound
                  \/ resizing = "shrinkable" /\ n \in sizeBound .. chunk.size
<1> DEFINE E == UpTo(SizeBlock, currentVersion)
<1>1. CASE E = {}
  <2>1. At(SizeBlock, currentVersion) = chunk.size
    BY <1>1 DEF At, Initially
  <2>. QED  BY <2>1 DEF VersionInv
<1>2. CASE E # {}
  <2>1. E \in SUBSET (0 .. MaxVersion) /\ E \subseteq DOMAIN versionList[SizeBlock]
    <3>1. DOMAIN versionList[SizeBlock] \subseteq 1 .. MaxVersion
      BY DEF VersionInv, Keys
    <3>. QED  BY <3>1, Bounds DEF UpTo
  <2>2. Newest(E) \in DOMAIN versionList[SizeBlock]
    BY <1>2, <2>1, NewestIsMember, Bounds
  <2>3. At(SizeBlock, currentVersion) = versionList[SizeBlock][Newest(E)]
    BY <1>2 DEF At
  <2> DEFINE n == versionList[SizeBlock][Newest(E)]
  <2>4. \/ resizing = "expandable" /\ n \in chunk.size .. sizeBound
        \/ resizing = "shrinkable" /\ n \in sizeBound .. chunk.size
    BY <2>2 DEF VersionInv, SizesInBounds
  <2>5. chunk.size \in 0 .. Capacity /\ sizeBound \in 0 .. Capacity
    BY DEF VersionInv
  <2> HIDE DEF n
  <2>6. n \in 0 .. Capacity
    BY <2>4, <2>5, Bounds
  <2>. QED  BY <2>3, <2>4, <2>6 DEF n
<1>. QED  BY <1>1, <1>2

LEMMA InvInit == Init => VersionInv
<1> SUFFICES ASSUME Init  PROVE VersionInv
  OBVIOUS
<1>1. chunk.size \in 0 .. Capacity /\ sizeBound \in 0 .. Capacity
  BY HeapVersionsAssumption DEF Init
<1>2. \A b \in Keys : versionList[b] = << >> /\ DOMAIN << >> = {}
  BY DEF Init
<1>3. SizeBlock \in Keys
  BY DEF Keys
<1>. QED
  BY <1>1, <1>2, <1>3, Bounds
  DEF Init, VersionInv, Numbers, CallsHoldVersions, SizesInBounds

\* The last call ends: the other ones stay as they are.
LEMMA CallEnds ==
    ASSUME VersionInv, calls # << >>
    PROVE  LET rest == SubSeq(calls, 1, Len(calls) - 1)
           IN  /\ rest \in Seq(Numbers) /\ DOMAIN rest = 1 .. Len(calls) - 1
               /\ \A i \in 1 .. Len(calls) - 1 : rest[i] = calls[i] /\ i \in DOMAIN calls
               /\ Len(calls) \in DOMAIN calls
               /\ Len(rest) = Len(calls) - 1 /\ Len(calls) \in Nat \ {0}
<1>1. Len(calls) \in Nat \ {0} /\ DOMAIN calls = 1 .. Len(calls)
      /\ \A i \in 1 .. Len(calls) : calls[i] \in Numbers
  BY EmptySeq, LenProperties, ElementOfSeq DEF VersionInv
<1> DEFINE rest == SubSeq(calls, 1, Len(calls) - 1)
<1>2. /\ rest \in Seq(Numbers)
      /\ Len(rest) = Len(calls) - 1
      /\ \A i \in 1 .. Len(calls) - 1 : rest[i] = calls[i]
  BY <1>1, SubSeqProperties
<1>3. DOMAIN rest = 1 .. Len(calls) - 1
  BY <1>2, LenProperties
<1>. QED  BY <1>1, <1>2, <1>3

\* A call begins: it holds the version that was current.
LEMMA CallBegins ==
    ASSUME VersionInv
    PROVE  LET more == Append(calls, currentVersion)
           IN  /\ more \in Seq(Numbers) /\ DOMAIN more = 1 .. Len(calls) + 1
               /\ Len(more) = Len(calls) + 1 /\ Len(calls) \in Nat
               /\ DOMAIN calls = 1 .. Len(calls)
               /\ \A i \in 1 .. Len(calls) : more[i] = calls[i]
               /\ more[Len(calls) + 1] = currentVersion
<1>1. Len(calls) \in Nat /\ DOMAIN calls = 1 .. Len(calls) /\ calls \in Seq(Numbers)
      /\ currentVersion \in Numbers
  BY LenProperties DEF VersionInv
<1> DEFINE more == Append(calls, currentVersion)
<1>2. /\ more \in Seq(Numbers) /\ Len(more) = Len(calls) + 1
      /\ \A i \in 1 .. Len(calls) : more[i] = calls[i]
      /\ more[Len(calls) + 1] = currentVersion
  BY <1>1
<1>3. DOMAIN more = 1 .. Len(calls) + 1
  BY <1>2, LenProperties
<1>. QED  BY <1>1, <1>2, <1>3

InSizeLimits(n) ==
    \/ resizing = "expandable" /\ n \in chunk.size .. sizeBound
    \/ resizing = "shrinkable" /\ n \in sizeBound .. chunk.size

\* A step that pops entries of a block, and may write one at the current version.
LEMMA InvLists ==
    ASSUME VersionInv, stage # "finished", NEW b \in Keys, NEW list,
           versionList' = [versionList EXCEPT ![b] = list],
           UNCHANGED <<chunk, declared, currentVersion, calls, stage>>,
           DOMAIN list \subseteq 1 .. MaxVersion,
           b = SizeBlock => \A n \in DOMAIN list : InSizeLimits(list[n])
    PROVE  VersionInv'
<1>1. /\ versionList' = [c \in Keys |-> versionList'[c]]
      /\ versionList'[b] = list
      /\ \A c \in Keys \ {b} : versionList'[c] = versionList[c]
  BY DEF VersionInv
<1>2. \A c \in Keys : DOMAIN versionList'[c] \subseteq 1 .. MaxVersion
  BY <1>1 DEF VersionInv
<1>3. CallsHoldVersions'
  BY DEF VersionInv, CallsHoldVersions
<1>4. SizesInBounds'
  <2>1. SizeBlock \in Keys /\ SizesInBounds
    BY DEF Keys, VersionInv
  <2>2. CASE b = SizeBlock
    BY <1>1, <2>2 DEF SizesInBounds, InSizeLimits, declared
  <2>3. CASE b # SizeBlock
    BY <1>1, <2>1, <2>3 DEF SizesInBounds, declared
  <2>. QED  BY <2>2, <2>3
<1>. QED  BY <1>1, <1>2, <1>3, <1>4 DEF VersionInv, Numbers, declared

LEMMA InvSync ==
    ASSUME VersionInv, stage # "finished", NEW b \in Keys,
           versionList' = [versionList EXCEPT ![b] = SyncTo(b)],
           UNCHANGED <<chunk, declared, currentVersion, calls, stage>>
    PROVE  VersionInv'
<1>1. /\ DOMAIN SyncTo(b) \subseteq DOMAIN versionList[b]
      /\ \A n \in DOMAIN SyncTo(b) : SyncTo(b)[n] = versionList[b][n]
  BY DEF SyncTo, UpTo
<1>2. DOMAIN SyncTo(b) \subseteq 1 .. MaxVersion
  BY <1>1 DEF VersionInv
<1>3. b = SizeBlock => \A n \in DOMAIN SyncTo(b) : InSizeLimits(SyncTo(b)[n])
  BY <1>1 DEF VersionInv, SizesInBounds, InSizeLimits
<1>. QED  BY <1>2, <1>3, InvLists

\* Only a call writes, so the version it writes is not zero.
LEMMA CallsVersion ==
    ASSUME VersionInv, calls # << >>
    PROVE  /\ currentVersion \in 1 .. MaxVersion /\ stage # "finished"
           /\ \A i \in DOMAIN calls : calls[i] \in 0 .. currentVersion - 1
<1>1. \A i \in DOMAIN calls : 0 <= calls[i] /\ calls[i] < currentVersion
  BY DEF VersionInv, CallsHoldVersions
<1>2. Len(calls) \in DOMAIN calls /\ DOMAIN calls = 1 .. Len(calls)
  BY CallEnds, LenProperties DEF VersionInv
<1>3. \A i \in DOMAIN calls : calls[i] \in Numbers
  BY <1>2, ElementOfSeq DEF VersionInv
<1>. QED  BY <1>1, <1>2, <1>3, Bounds DEF VersionInv, Numbers

LEMMA InvChange ==
    ASSUME VersionInv, calls # << >>, NEW b \in Keys, NEW content,
           versionList' = Changed(b, content),
           UNCHANGED <<chunk, declared, currentVersion, calls, stage>>,
           b = SizeBlock => InSizeLimits(content)
    PROVE  VersionInv'
<1> DEFINE list == WithLast(b, content)
<1>1. /\ DOMAIN list \subseteq DOMAIN versionList[b] \cup {currentVersion}
      /\ \A n \in DOMAIN list : list[n] = IF n = currentVersion THEN content
                                          ELSE versionList[b][n]
  BY DEF WithLast, UpTo
<1>2. DOMAIN list \subseteq 1 .. MaxVersion
  BY <1>1, CallsVersion DEF VersionInv
<1>3. b = SizeBlock => \A n \in DOMAIN list : InSizeLimits(list[n])
  BY <1>1, CallsVersion DEF VersionInv, SizesInBounds, InSizeLimits
<1>4. versionList' = [versionList EXCEPT ![b] = list]
  BY DEF Changed
<1> HIDE DEF list
<1>. QED  BY <1>2, <1>3, <1>4, CallsVersion, InvLists

LEMMA InvBegin ==
    ASSUME VersionInv, BeginCall
    PROVE  VersionInv'
<1>1. /\ calls' = Append(calls, currentVersion) /\ currentVersion' = currentVersion + 1
      /\ currentVersion < MaxVersion /\ stage # "finished" /\ stage' = "running"
      /\ UNCHANGED <<chunk, resizing, sizeBound, versionList>>
  BY DEF BeginCall, declared, VersionInv
<1>2. currentVersion \in Numbers /\ currentVersion' \in Numbers
  BY <1>1, Bounds DEF VersionInv, Numbers
<1>3. CallsHoldVersions'
  <2>1. CallsHoldVersions
    BY DEF VersionInv
  <2>2. \A i \in 1 .. Len(calls) : calls[i] \in Numbers
    BY ElementOfSeq DEF VersionInv
  <2>3. /\ DOMAIN calls' = 1 .. Len(calls) + 1 /\ Len(calls) \in Nat
        /\ DOMAIN calls = 1 .. Len(calls)
        /\ \A i \in 1 .. Len(calls) : calls'[i] = calls[i]
        /\ calls'[Len(calls) + 1] = currentVersion
    BY <1>1, CallBegins
  <2>4. ASSUME NEW i \in 1 .. Len(calls) + 1
        PROVE  0 <= calls'[i] /\ calls'[i] < currentVersion'
    BY <1>1, <1>2, <2>1, <2>2, <2>3 DEF CallsHoldVersions, Numbers
  <2>5. ASSUME NEW i \in 1 .. Len(calls) + 1, NEW j \in 1 .. Len(calls) + 1, i < j
        PROVE  calls'[i] < calls'[j]
    BY <2>1, <2>3, <2>5 DEF CallsHoldVersions
  <2>. QED  BY <2>3, <2>4, <2>5 DEF CallsHoldVersions
<1>4. SizesInBounds'
  BY <1>1 DEF VersionInv, SizesInBounds
<1>5. calls' \in Seq(Numbers)
  BY <1>1, CallBegins
<1>. QED  BY <1>1, <1>2, <1>3, <1>4, <1>5 DEF VersionInv, Numbers

\* A call that ends gives back nothing, or the version it holds.
LEMMA InvEnd ==
    ASSUME VersionInv, CompleteCall \/ FailCall
    PROVE  VersionInv'
<1>1. /\ calls # << >> /\ calls' = SubSeq(calls, 1, Len(calls) - 1)
      /\ currentVersion' \in {currentVersion, calls[Len(calls)]}
      /\ stage # "finished" /\ UNCHANGED <<chunk, resizing, sizeBound, versionList, stage>>
  BY DEF CompleteCall, FailCall, declared, VersionInv
<1>2. /\ calls' \in Seq(Numbers) /\ DOMAIN calls' = 1 .. Len(calls) - 1
      /\ \A i \in 1 .. Len(calls) - 1 : calls'[i] = calls[i] /\ i \in DOMAIN calls
      /\ Len(calls) \in DOMAIN calls /\ Len(calls) \in Nat
  BY <1>1, CallEnds
<1>3. CallsHoldVersions /\ currentVersion \in Numbers
  BY DEF VersionInv
<1>4. currentVersion' \in Numbers
  <2>1. calls[Len(calls)] \in 0 .. currentVersion - 1
    BY <1>1, <1>2, CallsVersion
  <2>. QED  BY <1>1, <1>3, <2>1, Bounds DEF Numbers
<1>5. CallsHoldVersions'
  <2>1. ASSUME NEW i \in 1 .. Len(calls) - 1
        PROVE  0 <= calls'[i] /\ calls'[i] < currentVersion'
    <3>1. calls[i] < calls[Len(calls)] /\ 0 <= calls[i] /\ calls[i] < currentVersion
      BY <1>2, <1>3 DEF CallsHoldVersions
    <3>. QED  BY <1>1, <1>2, <3>1
  <2>. QED  BY <1>2, <1>3, <2>1 DEF CallsHoldVersions
<1>6. SizesInBounds'
  BY <1>1 DEF VersionInv, SizesInBounds
<1>. QED  BY <1>1, <1>2, <1>4, <1>5, <1>6 DEF VersionInv, Numbers

LEMMA InvWrite ==
    ASSUME VersionInv, WriteToHeap
    PROVE  VersionInv'
<1>1. /\ stage' = "finished" /\ calls = << >>
      /\ UNCHANGED <<resizing, sizeBound, currentVersion, calls>>
  BY DEF WriteToHeap, declared
<1>2. /\ versionList' = [b \in Keys |-> versionList'[b]]
      /\ \A b \in Keys : DOMAIN versionList'[b] \subseteq DOMAIN versionList[b]
  BY DEF WriteToHeap, SyncTo, UpTo, VersionInv
<1>3. \A b \in Keys : DOMAIN versionList'[b] \subseteq 1 .. MaxVersion
  BY <1>2 DEF VersionInv
<1>4. SizesInBounds'
  BY <1>1 DEF SizesInBounds
<1>5. CallsHoldVersions'
  BY <1>1 DEF CallsHoldVersions
<1>. QED  BY <1>1, <1>2, <1>3, <1>4, <1>5 DEF VersionInv, Numbers

\* A size that updateChunkSize accepts is within the limits of the chunk as well.
LEMMA SizeLimitsKept ==
    ASSUME VersionInv, NEW n \in 0 .. Capacity, UpdateChunkSize(n)
    PROVE  InSizeLimits(n)
<1> DEFINE old == At(SizeBlock, currentVersion)
<1>1. stage # "finished" /\ NewSizeAccepted(old, n)
  BY CallsVersion DEF UpdateChunkSize
<1>2. chunk.size \in Nat /\ sizeBound \in Nat /\ old \in Nat
  BY <1>1, SizeRead, Bounds DEF VersionInv
<1>3. \/ old = chunk.size
      \/ resizing = "expandable" /\ old \in chunk.size .. sizeBound
      \/ resizing = "shrinkable" /\ old \in sizeBound .. chunk.size
  BY <1>1, SizeRead
<1> HIDE DEF old
<1>. QED  BY <1>1, <1>2, <1>3, Bounds DEF NewSizeAccepted, InSizeLimits

LEMMA InvNext ==
    ASSUME VersionInv, Next
    PROVE  VersionInv'
<1>1. CASE BeginCall
  BY <1>1, InvBegin
<1>2. CASE CompleteCall \/ FailCall
  BY <1>2, InvEnd
<1>3. ASSUME NEW b \in Keys, Load(b)
      PROVE  VersionInv'
  BY <1>3, CallsVersion, InvSync DEF Load
<1>4. ASSUME NEW b \in Blocks, NEW s \in Stores, Store(b, s)
      PROVE  VersionInv'
  BY <1>4, SizeBlockApart, InvChange DEF Store, Keys
<1>5. ASSUME NEW b \in Blocks, NEW x \in Additions, AddInt(b, x)
      PROVE  VersionInv'
  BY <1>5, SizeBlockApart, InvChange DEF AddInt, Keys
<1>6. ASSUME NEW n \in 0 .. Capacity, UpdateChunkSize(n)
      PROVE  VersionInv'
  <2>1. InSizeLimits(n)
    BY <1>6, SizeLimitsKept
  <2>. QED  BY <1>6, <2>1, InvChange DEF UpdateChunkSize, Keys
<1>7. ASSUME NEW n \in 0 .. Capacity, KeepChunkSize(n)
      PROVE  VersionInv'
  BY <1>7, CallsVersion, InvSync DEF KeepChunkSize, Keys
<1>8. CASE WriteToHeap
  BY <1>8, InvWrite
<1>. QED  BY <1>1, <1>2, <1>3, <1>4, <1>5, <1>6, <1>7, <1>8 DEF Next

LEMMA InvStutter ==
    ASSUME VersionInv, UNCHANGED vars
    PROVE  VersionInv'
BY DEF VersionInv, CallsHoldVersions, SizesInBounds, vars, declared, Numbers

LEMMA VersionsInvariant == Spec => []VersionInv
<1>1. VersionInv /\ [Next]_vars => VersionInv'
  BY InvNext, InvStutter
<1>. QED  BY <1>1, InvInit, PTL DEF Spec

\* However calls are nested and fail, the assertions of restoreVersion and
\* ensureExists hold, for every MAX_VERSION.
THEOREM AssertionsHold == Spec => []CallsHoldVersions
<1>1. VersionInv => CallsHoldVersions
  BY DEF VersionInv
<1>. QED  BY <1>1, VersionsInvariant, PTL

\* No entry of the size, current or left over, is ever beyond the declared bound.
THEOREM SizesStayInBounds == Spec => []SizesInBounds
<1>1. VersionInv => SizesInBounds
  BY DEF VersionInv
<1>. QED  BY <1>1, VersionsInvariant, PTL
-----------------------------------------------------------------------------
(* The calls are nested transactions *)

Through(f, s) == [i \in 1 .. Len(s) |-> f[s[i]]]

LEMMA ThroughSame ==
    ASSUME NEW f, NEW g, NEW s, \A i \in 1 .. Len(s) : f[s[i]] = g[s[i]]
    PROVE  Through(f, s) = Through(g, s)
BY DEF Through

LEMMA ThroughIsSeq ==
    ASSUME NEW S, NEW T, NEW f \in [S -> T], NEW s \in Seq(S)
    PROVE  Through(f, s) \in Seq(T)
<1>1. Len(s) \in Nat /\ \A i \in 1 .. Len(s) : s[i] \in S
  BY LenProperties, ElementOfSeq
<1>2. Through(f, s) \in [1 .. Len(s) -> T]
  BY <1>1 DEF Through
<1>. QED  BY <1>1, <1>2, SeqDef

LEMMA ThroughLen ==
    ASSUME NEW S, NEW T, NEW f \in [S -> T], NEW s \in Seq(S)
    PROVE  Len(Through(f, s)) = Len(s)
<1>1. Through(f, s) \in Seq(T)
  BY ThroughIsSeq, Zenon
<1>2. DOMAIN Through(f, s) = 1 .. Len(s)
  BY DEF Through
<1>3. DOMAIN Through(f, s) = 1 .. Len(Through(f, s)) /\ Len(Through(f, s)) \in Nat
  BY <1>1, LenProperties
<1>4. Len(s) \in Nat
  BY LenProperties
<1>. QED  BY <1>2, <1>3, <1>4

LEMMA ThroughAppend ==
    ASSUME NEW S, NEW T, NEW f \in [S -> T], NEW s \in Seq(S), NEW x \in S
    PROVE  Through(f, Append(s, x)) = Append(Through(f, s), f[x])
<1> DEFINE more == Append(s, x)
<1> DEFINE all == Through(f, s)
<1> DEFINE l == Through(f, more)
<1> DEFINE r == Append(all, f[x])
<1>1. /\ more \in Seq(S) /\ Len(more) = Len(s) + 1 /\ Len(s) \in Nat
      /\ \A i \in 1 .. Len(s) : more[i] = s[i]
      /\ more[Len(s) + 1] = x
  BY LenProperties
<1>2. /\ \A i \in 1 .. Len(more) : l[i] = f[more[i]]
      /\ \A i \in 1 .. Len(s) : all[i] = f[s[i]]
  BY DEF Through
<1>3. all \in Seq(T)
  BY ThroughIsSeq, Zenon
<1>4. Len(all) = Len(s)
  BY ThroughLen, Zenon
<1> HIDE DEF more
<1>5. l \in Seq(T)
  BY <1>1, ThroughIsSeq, Zenon
<1>6. Len(l) = Len(more)
  BY <1>1, ThroughLen, Zenon
<1>7. f[x] \in T
  OBVIOUS
<1> HIDE DEF all, l
<1>8. /\ r \in Seq(T) /\ Len(r) = Len(s) + 1
      /\ \A i \in 1 .. Len(s) : r[i] = all[i]
      /\ r[Len(s) + 1] = f[x]
  BY <1>1, <1>3, <1>4, <1>7
<1> HIDE DEF r
<1>9. \A i \in 1 .. Len(s) + 1 : l[i] = r[i]
  <2>1. ASSUME NEW i \in 1 .. Len(s)  PROVE l[i] = r[i]
    <3>1. l[i] = f[more[i]] /\ more[i] = s[i]
      BY <1>1, <1>2
    <3>2. r[i] = f[s[i]]
      BY <1>2, <1>8
    <3>. QED  BY <3>1, <3>2, Zenon
  <2>2. l[Len(s) + 1] = f[more[Len(s) + 1]]
    BY <1>1, <1>2
  <2>3. l[Len(s) + 1] = r[Len(s) + 1]
    <3>1. more[Len(s) + 1] = x
      BY <1>1
    <3>2. r[Len(s) + 1] = f[x]
      BY <1>8
    <3>. QED  BY <2>2, <3>1, <3>2, Zenon
  <2>. QED  BY <1>1, <2>1, <2>3
<1>. QED  BY <1>1, <1>5, <1>6, <1>8, <1>9, SeqEqual DEF l, r, more, all

LEMMA ThroughFront ==
    ASSUME NEW S, NEW T, NEW f \in [S -> T], NEW s \in Seq(S), s # << >>
    PROVE  Through(f, SubSeq(s, 1, Len(s) - 1))
              = SubSeq(Through(f, s), 1, Len(Through(f, s)) - 1)
<1> DEFINE k == Len(s) - 1
<1> DEFINE front == SubSeq(s, 1, k)
<1> DEFINE all == Through(f, s)
<1> DEFINE l == Through(f, front)
<1> DEFINE r == SubSeq(all, 1, k)
<1>1. /\ k \in Nat /\ 1 .. k \subseteq 1 .. Len(s) /\ 1 \in Int
      /\ \A i \in 1 .. k : s[i] \in S
      /\ \A i \in 1 .. Len(s) : i \in Int
  BY EmptySeq, ElementOfSeq
<1>2. \A i \in 1 .. Len(s) : all[i] = f[s[i]]
  BY DEF Through
<1>3. Len(all) - 1 = k
  <2>1. Len(all) = Len(s)
    BY ThroughLen, Zenon
  <2>. QED  BY <2>1
<1>4. \A i \in 1 .. k : all[i] \in T
  BY <1>1, <1>2
<1> HIDE DEF k, all
<1>5. /\ front \in Seq(S) /\ Len(front) = k
      /\ \A i \in 1 .. k : front[i] = s[i]
  BY <1>1
<1>6. /\ r \in Seq(T) /\ Len(r) = k
      /\ \A i \in 1 .. k : r[i] = all[i]
  BY <1>1, <1>4
<1>7. \A i \in 1 .. Len(front) : l[i] = f[front[i]]
  BY DEF Through
<1> HIDE DEF front
<1>8. l \in Seq(T)
  BY <1>5, ThroughIsSeq, Zenon
<1>9. Len(l) = Len(front)
  <2>1. DOMAIN l = 1 .. Len(front) /\ Len(front) \in Nat
    BY <1>1, <1>5 DEF Through
  <2> HIDE DEF l
  <2>2. DOMAIN l = 1 .. Len(l) /\ Len(l) \in Nat
    BY <1>8, LenProperties
  <2>. QED  BY <2>1, <2>2
<1> HIDE DEF l, r
<1>10. \A i \in 1 .. k : l[i] = r[i]
  BY <1>1, <1>2, <1>5, <1>6, <1>7
<1>11. l = r
  BY <1>5, <1>6, <1>8, <1>9, <1>10, SeqEqual
<1>. QED  BY <1>3, <1>11 DEF l, r, front, all, k

\* What the request sees in some version of given lists.
ViewOf(lists, c, v) == [b \in Keys |-> Latest(lists[b], v, Initially(c, b))]
ViewsOf(lists, c) == [v \in Numbers |-> ViewOf(lists, c, v)]
SavedViews == [i \in 1 .. Len(calls) |-> ViewAt(calls[i])]

\* The state of the transactions in terms of what is seen in the versions, before and
\* after a step.
LEMMA Mapped ==
    ASSUME VersionInv, VersionInv'
    PROVE  /\ SavedViews = Through(ViewsOf(versionList, chunk), calls)
           /\ SavedViews' = Through(ViewsOf(versionList', chunk'), calls')
           /\ ViewAt(currentVersion) = ViewOf(versionList, chunk, currentVersion)
           /\ ViewAt(currentVersion)' = ViewOf(versionList', chunk', currentVersion')
<1>1. /\ \A v : ViewAt(v) = ViewOf(versionList, chunk, v)
      /\ ViewAt(currentVersion)' = ViewOf(versionList', chunk', currentVersion')
      /\ SavedViews' = [i \in 1 .. Len(calls') |-> ViewOf(versionList', chunk', calls'[i])]
  BY DEF SavedViews, ViewAt, ViewOf, At, UpTo, Latest, Entries
<1>2. (\A i \in 1 .. Len(calls) : calls[i] \in Numbers)
      /\ (\A i \in 1 .. Len(calls') : calls'[i] \in Numbers)
  BY ElementOfSeq DEF VersionInv
<1>3. SavedViews = Through(ViewsOf(versionList, chunk), calls)
  BY <1>1, <1>2 DEF SavedViews, Through, ViewsOf
<1>4. SavedViews' = Through(ViewsOf(versionList', chunk'), calls')
  BY <1>1, <1>2 DEF Through, ViewsOf
<1>. QED  BY <1>1, <1>3, <1>4

LEMMA ViewsType == \A lists, c : \E T : ViewsOf(lists, c) \in [Numbers -> T]
<1> SUFFICES ASSUME NEW lists, NEW c  PROVE \E T : ViewsOf(lists, c) \in [Numbers -> T]
  OBVIOUS
<1> DEFINE T == {ViewOf(lists, c, v) : v \in Numbers}
<1>1. ViewsOf(lists, c) \in [Numbers -> T]
  BY DEF ViewsOf
<1>. QED  BY <1>1

LEMMA NoneSaved ==
    ASSUME VersionInv, VersionInv'
    PROVE  calls # << >> => SavedViews # << >> /\ Len(SavedViews) = Len(calls)
                            /\ Len(calls) \in Nat \ {0}
<1> SUFFICES ASSUME calls # << >>
             PROVE  SavedViews # << >> /\ Len(SavedViews) = Len(calls) /\ Len(calls) \in Nat \ {0}
  OBVIOUS
<1> DEFINE f == ViewsOf(versionList, chunk)
<1>1. calls \in Seq(Numbers) /\ Len(calls) \in Nat \ {0}
  BY EmptySeq DEF VersionInv
<1>2. PICK T : f \in [Numbers -> T]
  BY ViewsType
<1> HIDE DEF f
<1>3. Len(Through(f, calls)) = Len(calls)
  <2>1. calls \in Seq(Numbers)
    BY <1>1
  <2>. QED  BY <1>2, <2>1, ThroughLen, Zenon
<1>4. SavedViews = Through(f, calls)
  BY Mapped DEF f
<1>5. Len(<< >>) = 0
  OBVIOUS
<1>. QED  BY <1>1, <1>3, <1>4, <1>5

LEMMA ViewSynced ==
    ASSUME VersionInv, NEW b \in Keys, NEW v \in 0 .. currentVersion
    PROVE  ViewOf([versionList EXCEPT ![b] = SyncTo(b)], chunk, v) = ViewOf(versionList, chunk, v)
<1> DEFINE lists == [versionList EXCEPT ![b] = SyncTo(b)]
<1>1. ASSUME NEW c \in Keys
      PROVE  Latest(lists[c], v, Initially(chunk, c))
                = Latest(versionList[c], v, Initially(chunk, c))
  <2>1. CASE c = b
    <3>1. lists[c] = [n \in Entries(versionList[b], currentVersion) |-> versionList[b][n]]
      BY <2>1 DEF VersionInv, SyncTo, UpTo, Entries
    <3>2. DOMAIN versionList[b] \subseteq 1 .. MaxVersion /\ currentVersion \in 0 .. MaxVersion
      BY DEF VersionInv, Numbers
    <3> HIDE DEF lists
    <3>. QED  BY <2>1, <3>1, <3>2, Bounds, SyncKeeps
  <2>2. CASE c # b
    BY <2>2 DEF VersionInv
  <2>. QED  BY <2>1, <2>2
<1>. QED  BY <1>1 DEF ViewOf

LEMMA ViewChanged ==
    ASSUME VersionInv, NEW b \in Keys, NEW content, NEW v \in 0 .. currentVersion
    PROVE  ViewOf(Changed(b, content), chunk, v) =
              IF v = currentVersion THEN [ViewOf(versionList, chunk, v) EXCEPT ![b] = content]
              ELSE ViewOf(versionList, chunk, v)
<1> DEFINE lists == Changed(b, content)
<1>1. ASSUME NEW c \in Keys
      PROVE  Latest(lists[c], v, Initially(chunk, c)) =
                IF c = b /\ v = currentVersion THEN content
                ELSE Latest(versionList[c], v, Initially(chunk, c))
  <2>1. CASE c = b
    <3>1. lists[c] = [n \in Entries(versionList[b], currentVersion) \cup {currentVersion} |->
                         IF n = currentVersion THEN content ELSE versionList[b][n]]
      BY <2>1 DEF VersionInv, Changed, WithLast, UpTo, Entries
    <3>2. DOMAIN versionList[b] \subseteq 1 .. MaxVersion /\ currentVersion \in 0 .. MaxVersion
      BY DEF VersionInv, Numbers
    <3> DEFINE new == lists[c]
    <3> DEFINE list == versionList[b]
    <3> HIDE DEF lists
    <3>3. /\ DOMAIN new = Entries(list, currentVersion) \cup {currentVersion}
          /\ new[currentVersion] = content
          /\ \A n \in Entries(list, currentVersion) \ {currentVersion} : new[n] = list[n]
      BY <3>1
    <3>4. OneMore(new, list, currentVersion)
      BY <3>3 DEF OneMore
    <3> HIDE DEF new
    <3>5. CASE v = currentVersion
      <4>1. DOMAIN list \subseteq Nat /\ currentVersion \in Nat
        BY <3>2, Bounds
      <4> HIDE DEF list
      <4>2. Latest(new, currentVersion, Initially(chunk, c)) = new[currentVersion]
        BY <3>3, <4>1, WriteSeen
      <4>. QED  BY <2>1, <3>3, <3>5, <4>2 DEF new
    <3>6. CASE v # currentVersion
      <4>1. /\ v \in 0 .. currentVersion - 1 /\ DOMAIN list \subseteq 1 .. MaxVersion
            /\ currentVersion \in Nat
        BY <3>2, <3>6, Bounds
      <4> HIDE DEF list
      <4>2. Latest(new, v, Initially(chunk, c)) = Latest(list, v, Initially(chunk, c))
        BY <3>4, <4>1, WriteUnseen
      <4>. QED  BY <2>1, <3>6, <4>2 DEF new, list
    <3>. QED  BY <3>5, <3>6
  <2>2. CASE c # b
    BY <2>2 DEF VersionInv, Changed
  <2>. QED  BY <2>1, <2>2
<1> HIDE DEF lists
<1>2. CASE v = currentVersion
  BY <1>1, <1>2 DEF ViewOf, lists
<1>3. CASE v # currentVersion
  BY <1>1, <1>3 DEF ViewOf, lists
<1>. QED  BY <1>2, <1>3

\* A step of a call that leaves the versions of the open calls as they are.
LEMMA SavedKept ==
    ASSUME VersionInv, VersionInv', calls # << >>, calls' = calls,
           \A v \in 0 .. currentVersion - 1 :
              ViewOf(versionList', chunk', v) = ViewOf(versionList, chunk, v)
    PROVE  SavedViews' = SavedViews
<1> DEFINE f == ViewsOf(versionList, chunk)
<1> DEFINE g == ViewsOf(versionList', chunk')
<1>1. \A i \in 1 .. Len(calls) : calls[i] \in 0 .. currentVersion - 1 /\ calls[i] \in Numbers
  BY CallsVersion, LenProperties, ElementOfSeq DEF VersionInv
<1>2. \A i \in 1 .. Len(calls) : f[calls[i]] = g[calls[i]]
  BY <1>1 DEF ViewsOf
<1> HIDE DEF f, g
<1>3. Through(f, calls) = Through(g, calls)
  BY <1>2, ThroughSame
<1>. QED  BY <1>3, Mapped DEF f, g

\* saveVersion: unless it meets a left over entry, nothing is seen to change.
LEMMA BeginMaps ==
    ASSUME VersionInv, VersionInv', BeginCall, ~Revives
    PROVE  Calls!Begin
<1> DEFINE f == ViewsOf(versionList, chunk)
<1>1. /\ calls' = Append(calls, currentVersion) /\ currentVersion' = currentVersion + 1
      /\ stage = "start" \/ calls # << >>
      /\ stage' = "running" /\ answer' = << >>
      /\ UNCHANGED <<chunk, resizing, sizeBound, versionList>>
  BY DEF BeginCall, declared
<1>2. calls \in Seq(Numbers) /\ currentVersion \in Numbers /\ currentVersion \in Nat
  BY Bounds DEF VersionInv, Numbers
<1>3. ViewAt(currentVersion)' = ViewAt(currentVersion)
  <2>1. \A b \in Keys : currentVersion + 1 \notin DOMAIN versionList[b]
                        /\ DOMAIN versionList[b] \subseteq 1 .. MaxVersion
    BY <1>1 DEF Revives, VersionInv
  <2>2. \A b \in Keys : Entries(versionList[b], currentVersion + 1)
                           = Entries(versionList[b], currentVersion)
    BY <1>2, <2>1 DEF Entries
  <2>3. ViewOf(versionList, chunk, currentVersion + 1) = ViewOf(versionList, chunk, currentVersion)
    BY <2>2 DEF ViewOf, Latest
  <2>. QED  BY <1>1, <2>3, Mapped
<1>4. SavedViews' = Append(SavedViews, ViewAt(currentVersion))
  <2>1. SavedViews' = Through(f, Append(calls, currentVersion)) /\ SavedViews = Through(f, calls)
    BY <1>1, Mapped
  <2>2. f[currentVersion] = ViewAt(currentVersion)
    BY <1>2, Mapped DEF ViewsOf
  <2>3. PICK T : f \in [Numbers -> T]
    BY ViewsType
  <2> HIDE DEF f
  <2>4. Through(f, Append(calls, currentVersion)) = Append(Through(f, calls), f[currentVersion])
    <3>1. calls \in Seq(Numbers)
      BY <1>2
    <3>2. currentVersion \in Numbers
      BY <1>2
    <3>. QED  BY <2>3, <3>1, <3>2, ThroughAppend, Zenon
  <2>. QED  BY <2>1, <2>2, <2>4
<1>5. calls # << >> => SavedViews # << >>
  BY NoneSaved
<1>. QED  BY <1>1, <1>3, <1>4, <1>5 DEF Calls!Begin, Calls!declared, SavedViews

\* complete and the destructor.
LEMMA EndMaps ==
    ASSUME VersionInv, VersionInv', CompleteCall \/ FailCall
    PROVE  Calls!Commit \/ Calls!Abort
<1> DEFINE f == ViewsOf(versionList, chunk)
<1>1. /\ calls # << >> /\ calls' = SubSeq(calls, 1, Len(calls) - 1)
      /\ answer' = << >>
      /\ UNCHANGED <<chunk, resizing, sizeBound, versionList, stage>>
  BY DEF CompleteCall, FailCall, declared
<1>2. /\ SavedViews # << >> /\ Len(SavedViews) = Len(calls)
      /\ Len(calls) \in Nat \ {0} /\ calls \in Seq(Numbers)
  BY <1>1, NoneSaved DEF VersionInv
<1>3. SavedViews' = SubSeq(SavedViews, 1, Len(SavedViews) - 1)
  <2>1. SavedViews' = Through(f, SubSeq(calls, 1, Len(calls) - 1))
    BY <1>1, Mapped
  <2>2. PICK T : f \in [Numbers -> T]
    BY ViewsType
  <2> HIDE DEF f
  <2>3. Through(f, SubSeq(calls, 1, Len(calls) - 1))
           = SubSeq(Through(f, calls), 1, Len(Through(f, calls)) - 1)
    <3>1. calls \in Seq(Numbers) /\ calls # << >>
      BY <1>1, <1>2, Zenon
    <3>. QED  BY <2>2, <3>1, ThroughFront, Zenon
  <2>4. Through(f, calls) = SavedViews
    BY Mapped DEF f
  <2>5. Through(f, SubSeq(calls, 1, Len(calls) - 1))
           = SubSeq(SavedViews, 1, Len(SavedViews) - 1)
    BY <2>3, <2>4, Zenon
  <2>. QED  BY <2>1, <2>5, Zenon
<1>4. CASE CompleteCall
  <2>1. ViewAt(currentVersion)' = ViewAt(currentVersion)
    BY <1>1, <1>4, Mapped DEF CompleteCall
  <2>. QED  BY <1>1, <1>2, <1>3, <2>1 DEF Calls!Commit, Calls!declared, SavedViews
<1>5. CASE FailCall
  <2>1. ViewAt(currentVersion)' = ViewOf(versionList, chunk, calls[Len(calls)])
    BY <1>1, <1>5, Mapped DEF FailCall
  <2>2. SavedViews[Len(SavedViews)] = ViewOf(versionList, chunk, calls[Len(calls)])
    <3>1. Len(calls) \in 1 .. Len(calls) /\ calls[Len(calls)] \in Numbers
      BY <1>2, ElementOfSeq
    <3>2. SavedViews[Len(calls)] = f[calls[Len(calls)]]
      BY <3>1, Mapped DEF Through
    <3>. QED  BY <1>2, <3>1, <3>2 DEF ViewsOf
  <2>. QED  BY <1>1, <1>2, <1>3, <2>1, <2>2 DEF Calls!Abort, Calls!declared, SavedViews
<1>. QED  BY <1>4, <1>5

\* A step that at most pops entries.
LEMMA SyncMaps ==
    ASSUME VersionInv, VersionInv', NEW b \in Keys, calls # << >>,
           versionList' = [versionList EXCEPT ![b] = SyncTo(b)],
           UNCHANGED <<chunk, declared, currentVersion, calls, stage>>
    PROVE  /\ ViewAt(currentVersion)' = ViewAt(currentVersion)
           /\ SavedViews' = SavedViews /\ SavedViews # << >>
<1>1. /\ chunk' = chunk /\ currentVersion' = currentVersion /\ calls' = calls
      /\ currentVersion \in 0 .. currentVersion
      /\ 0 .. currentVersion - 1 \subseteq 0 .. currentVersion
  BY CallsVersion
<1>2. \A v \in 0 .. currentVersion :
         ViewOf(versionList', chunk', v) = ViewOf(versionList, chunk, v)
  BY <1>1, ViewSynced
<1>. QED  BY <1>1, <1>2, Mapped, SavedKept, NoneSaved

\* A step that writes at the current version.
LEMMA ChangeMaps ==
    ASSUME VersionInv, VersionInv', NEW b \in Keys, NEW content, calls # << >>,
           versionList' = Changed(b, content), answer' = << >>,
           UNCHANGED <<chunk, declared, currentVersion, calls, stage>>
    PROVE  Calls!Update(b, content)
<1>1. /\ chunk' = chunk /\ currentVersion' = currentVersion /\ calls' = calls
      /\ currentVersion \in 0 .. currentVersion
      /\ 0 .. currentVersion - 1 \subseteq 0 .. currentVersion
      /\ currentVersion \notin 0 .. currentVersion - 1
  BY CallsVersion
<1>2. ViewOf(versionList', chunk', currentVersion)
         = [ViewOf(versionList, chunk, currentVersion) EXCEPT ![b] = content]
  BY <1>1, ViewChanged
<1>3. \A v \in 0 .. currentVersion - 1 :
         ViewOf(versionList', chunk', v) = ViewOf(versionList, chunk, v)
  BY <1>1, ViewChanged
<1>4. ViewAt(currentVersion)' = [ViewAt(currentVersion) EXCEPT ![b] = content]
  BY <1>1, <1>2, Mapped
<1>5. SavedViews' = SavedViews /\ SavedViews # << >>
  BY <1>1, <1>3, SavedKept, NoneSaved
<1>. QED  BY <1>1, <1>4, <1>5 DEF Calls!Update, Calls!declared, declared, SavedViews

LEMMA NextMaps ==
    ASSUME VersionInv, VersionInv', Next
    PROVE  Revives \/ Calls!CallStep(Stores, Additions) \/ stage' = "finished"
<1>1. CASE BeginCall
  BY <1>1, BeginMaps DEF Calls!CallStep
<1>2. CASE CompleteCall \/ FailCall
  BY <1>2, EndMaps DEF Calls!CallStep
<1>3. ASSUME NEW b \in Keys, Load(b)
      PROVE  Calls!CallStep(Stores, Additions)
  <2>1. /\ ViewAt(currentVersion)' = ViewAt(currentVersion)
        /\ SavedViews' = SavedViews /\ SavedViews # << >>
    BY <1>3, SyncMaps DEF Load
  <2>2. answer' = <<b, ViewAt(currentVersion)[b]>>
    BY <1>3 DEF Load, ViewAt
  <2>3. Calls!Load(b)
    BY <1>3, <2>1, <2>2 DEF Load, Calls!Load, Calls!declared, declared, SavedViews
  <2>. QED  BY <2>3 DEF Calls!CallStep, Calls!Keys, Calls!SizeBlock, Keys, SizeBlock
<1>4. ASSUME NEW b \in Blocks, NEW s \in Stores, Store(b, s)
      PROVE  Calls!CallStep(Stores, Additions)
  <2>1. b \in Keys /\ b.type = "writable"
    BY <1>4 DEF Keys, Store
  <2>2. Calls!Update(b, Stored(b, s))
    BY <1>4, <2>1, ChangeMaps DEF Store
  <2>3. Stored(b, s) = Overwrite(ViewAt(currentVersion)[b], s.at, s.bytes)
    BY <2>1 DEF Stored, ViewAt
  <2>. QED  BY <2>1, <2>2, <2>3 DEF Calls!CallStep, Calls!Overwrite, Overwrite
<1>5. ASSUME NEW b \in Blocks, NEW x \in Additions, AddInt(b, x)
      PROVE  Calls!CallStep(Stores, Additions)
  <2>1. b \in Keys /\ b.type = "int_additive"
    BY <1>5 DEF Keys, AddInt
  <2>2. Calls!Update(b, Plus(At(b, currentVersion), x))
    BY <1>5, <2>1, ChangeMaps DEF AddInt
  <2>3. At(b, currentVersion) = ViewAt(currentVersion)[b]
    BY <2>1 DEF ViewAt
  <2>4. \A c : Calls!ToInt(c) = ToInt(c)
    BY DEF Calls!ToInt, ToInt, Calls!Cardinality, Cardinality, Calls!IsFiniteSet, IsFiniteSet
  <2>5. \A c : Calls!Plus(c, x) = Plus(c, x)
    BY <2>4 DEF Calls!Plus, Plus
  <2>6. Plus(At(b, currentVersion), x) = Calls!Plus(ViewAt(currentVersion)[b], x)
    BY <2>3, <2>5
  <2>. QED  BY <2>1, <2>2, <2>6 DEF Calls!CallStep
<1>6. ASSUME NEW n \in 0 .. Capacity, UpdateChunkSize(n)
      PROVE  Calls!CallStep(Stores, Additions)
  <2>1. InSizeLimits(n)
    BY <1>6, SizeLimitsKept
  <2>2. Calls!Update(SizeBlock, n)
    BY <1>6, ChangeMaps DEF UpdateChunkSize, Keys
  <2>3. Calls!SizeAllowed(n)
    BY <2>1 DEF Calls!SizeAllowed, InSizeLimits
  <2>. QED  BY <2>2, <2>3 DEF Calls!CallStep, Calls!SizeBlock, SizeBlock
<1>7. ASSUME NEW n \in 0 .. Capacity, KeepChunkSize(n)
      PROVE  Calls!CallStep(Stores, Additions)
  <2>1. /\ ViewAt(currentVersion)' = ViewAt(currentVersion)
        /\ SavedViews' = SavedViews /\ SavedViews # << >>
    BY <1>7, SyncMaps DEF KeepChunkSize, Keys
  <2>2. Calls!Refuse
    BY <1>7, <2>1 DEF KeepChunkSize, Calls!Refuse, Calls!declared, declared, SavedViews
  <2>. QED  BY <2>2 DEF Calls!CallStep
<1>8. CASE WriteToHeap
  BY <1>8 DEF WriteToHeap
<1>. QED  BY <1>1, <1>2, <1>3, <1>4, <1>5, <1>6, <1>7, <1>8 DEF Next

\* Whatever is not changed is seen as it was.
LEMMA StutterMaps == UNCHANGED vars => UNCHANGED Calls!vars
BY DEF vars, declared, Calls!vars, ViewAt, At, UpTo

\* Every step of the code is one of nested transactions, or revives a left over entry:
\* for any blocks, any depth of calls and any MAX_VERSION.
THEOREM CallsImplementTransactions == Spec => CallsAreTransactions
<1>1. VersionInv /\ VersionInv' /\ [Next]_vars
         => [Revives \/ Calls!CallStep(Stores, Additions) \/ stage' = "finished"]_(Calls!vars)
  BY NextMaps, StutterMaps
<1>. QED  BY <1>1, VersionsInvariant, PTL DEF Spec, CallsAreTransactions
=============================================================================
