---------------------------- MODULE HeapVersions ----------------------------
(***************************************************************************)
(* RestrictedModifier: the view one request has of a chunk, as a list of   *)
(* versions per access block, driven by the executor.  Every application   *)
(* call saves the version when it begins (CallResourceHandler), restores   *)
(* it if it fails, and keeps the new one if it completes; executeOne       *)
(* writes the last version to the chunk.                                   *)
(*                                                                         *)
(* The version list of a block is a vector ascending by number: here, a    *)
(* function from the numbers in it to their contents.                      *)
(***************************************************************************)
EXTENDS HeapBlocks

CONSTANTS MaxVersion,  \* MAX_VERSION
          Chunks,      \* the chunk at the start: [size, bytes]
          Resizings,   \* the declared resizing block: [type, bound]
          Stores,      \* what is stored in a block: [at, bytes]
          Additions    \* what is added to an additive block

ASSUME HeapVersionsAssumption ==
    /\ MaxVersion \in Nat
    /\ \A c \in Chunks : /\ c.size \in 0 .. Capacity
                         /\ c.bytes \in [0 .. Capacity - 1 -> Byte]
                         /\ \A o \in c.size .. Capacity - 1 : c.bytes[o] = 0
    /\ \A r \in Resizings :
          /\ r.type \in {"expandable", "shrinkable", "read_only", "non_accessible"}
          /\ r.bound \in 0 .. Capacity

VARIABLES chunk,           \* size and bytes
          resizing,        \* ChunkInfo::resizing
          sizeBound,       \* ChunkInfo::sizeBound
          versionList,     \* per block, the contents of its versions by number
          currentVersion,
          calls,           \* heapVersion of the CallResourceHandlers that are alive
          answer,          \* what this step has loaded, if it is a load: a block and its content
          stage            \* start, running (an application is called), finished

vars == <<chunk, resizing, sizeBound, versionList, currentVersion, calls, answer, stage>>
declared == <<resizing, sizeBound>>

Init ==
    /\ chunk \in Chunks
    /\ \E r \in Resizings : resizing = r.type /\ sizeBound = r.bound
    /\ versionList = [b \in Keys |-> << >>]
    /\ currentVersion = 0
    /\ calls = << >>
    /\ answer = << >>
    /\ stage = "start"
-----------------------------------------------------------------------------
(* Versions of a block *)

UpTo(b, version) == {n \in DOMAIN versionList[b] : n <= version}
Newest(S) == CHOOSE n \in S : \A m \in S : m <= n

\* The content a reader of some version finds: the last entry once the later ones
\* were popped, or the memory the block was declared on.
At(b, version) ==
    IF UpTo(b, version) = {} THEN Initially(chunk, b)
    ELSE versionList[b][Newest(UpTo(b, version))]

\* syncTo: the entries later than the current version are popped.
SyncTo(b) == [n \in UpTo(b, currentVersion) |-> versionList[b][n]]

\* The last entry once ensureExists has added one, if there was none for the version.
WithLast(b, content) ==
    [n \in UpTo(b, currentVersion) \cup {currentVersion} |->
        IF n = currentVersion THEN content ELSE versionList[b][n]]

Changed(b, content) == [versionList EXCEPT ![b] = WithLast(b, content)]
-----------------------------------------------------------------------------
(* Calls: Executor::ControlledCaller::CallResourceHandler *)

\* saveVersion returns ++currentVersion.
BeginCallSavingNew ==
    /\ stage = "start" \/ calls # << >>
    /\ currentVersion < MaxVersion
    /\ calls' = Append(calls, currentVersion + 1)
    /\ currentVersion' = currentVersion + 1
    /\ stage' = "running"
    /\ answer' = << >>
    /\ UNCHANGED <<chunk, declared, versionList>>

\* The constructor calls saveVersion.  The root call is made once.
BeginCall ==
    /\ stage = "start" \/ calls # << >>
    /\ currentVersion < MaxVersion
    /\ calls' = Append(calls, currentVersion)
    /\ currentVersion' = currentVersion + 1
    /\ stage' = "running"
    /\ answer' = << >>
    /\ UNCHANGED <<chunk, declared, versionList>>

\* complete() was called: the destructor leaves the version.
CompleteCall ==
    /\ calls # << >>
    /\ calls' = SubSeq(calls, 1, Len(calls) - 1)
    /\ answer' = << >>
    /\ UNCHANGED <<chunk, declared, versionList, currentVersion, stage>>

\* Only the number of the last call is given back.
FailCallByOne ==
    /\ calls # << >>
    /\ currentVersion' = currentVersion - 1
    /\ calls' = SubSeq(calls, 1, Len(calls) - 1)
    /\ answer' = << >>
    /\ UNCHANGED <<chunk, declared, versionList, stage>>

\* The destructor calls restoreVersion.
FailCall ==
    /\ calls # << >>
    /\ currentVersion' = calls[Len(calls)]
    /\ calls' = SubSeq(calls, 1, Len(calls) - 1)
    /\ answer' = << >>
    /\ UNCHANGED <<chunk, declared, versionList, stage>>
-----------------------------------------------------------------------------
(* What applications do: the functions of heapAccess.cpp *)

Readable(b) == b = SizeBlock \/ b.type \in {"writable", "read_only"}

\* prepareToRead.  The size is read by getChunkSize and by isValid.
Load(b) ==
    /\ calls # << >> /\ Readable(b)
    /\ versionList' = [versionList EXCEPT ![b] = SyncTo(b)]
    /\ answer' = <<b, At(b, currentVersion)>>
    /\ UNCHANGED <<chunk, declared, currentVersion, calls, stage>>

\* prepareToWrite copies the rest of the content when it adds a version.
Stored(b, s) == Overwrite(At(b, currentVersion), s.at, s.bytes)

Store(b, s) ==
    /\ calls # << >> /\ b.type = "writable"
    /\ s.at + Cardinality(DOMAIN s.bytes) <= b.size
    /\ versionList' = Changed(b, Stored(b, s))
    /\ answer' = << >>
    /\ UNCHANGED <<chunk, declared, currentVersion, calls, stage>>

AddInt(b, x) ==
    /\ calls # << >> /\ b.type = "int_additive"
    /\ versionList' = Changed(b, Plus(At(b, currentVersion), x))
    /\ answer' = << >>
    /\ UNCHANGED <<chunk, declared, currentVersion, calls, stage>>

\* The declared bound is not looked at.
NewSizeUnbounded(old, new) ==
    \/ resizing = "expandable" /\ old <= new
    \/ resizing = "shrinkable" /\ new <= old

\* updateChunkSize accepts a size.
NewSizeAccepted(old, new) ==
    \/ resizing = "expandable" /\ old <= new /\ new <= sizeBound
    \/ resizing = "shrinkable" /\ sizeBound <= new /\ new <= old

UpdateChunkSize(new) ==
    LET old == At(SizeBlock, currentVersion)
    IN  /\ calls # << >>
        /\ new # old /\ NewSizeAccepted(old, new)
        /\ versionList' = Changed(SizeBlock, new)
        /\ answer' = << >>
        /\ UNCHANGED <<chunk, declared, currentVersion, calls, stage>>

\* It returns early or throws, and has read the old size.
KeepChunkSize(new) ==
    LET old == At(SizeBlock, currentVersion)
    IN  /\ calls # << >>
        /\ new = old \/ ~NewSizeAccepted(old, new)
        /\ versionList' = [versionList EXCEPT ![SizeBlock] = SyncTo(SizeBlock)]
        /\ answer' = << >>
        /\ UNCHANGED <<chunk, declared, currentVersion, calls, stage>>
-----------------------------------------------------------------------------
(* writeToHeap, called by executeOne once the root call has ended *)

Resizable == resizing \in {"expandable", "shrinkable"}

\* wrToHeap: the content of a block in the chunk, before it is cut at the chunk's end.
Written(resized, b) ==
    IF b.type = "int_additive"
    THEN Plus(ContentAt(resized, b), ToInt(At(b, currentVersion)))
    ELSE At(b, currentVersion)

\* The write is not cut at the chunk's end.
WriteBlocksUncut(resized, n) ==
    LET writes == {b \in Blocks : b.offset < n /\ UpTo(b, currentVersion) # {}}
        Covers(b, o) == o - b.offset \in Positions(b)
    IN  [resized EXCEPT !.bytes =
            [o \in DOMAIN @ |->
                IF \E b \in writes : Covers(b, o)
                THEN LET b == CHOOSE c \in writes : Covers(c, o)
                     IN  Written(resized, b)[o - b.offset]
                ELSE @[o]]]

\* The loop over the blocks that begin inside of the chunk, each cut at its end.
WriteBlocks(resized, n) ==
    LET writes == {b \in Blocks : b.offset < n /\ UpTo(b, currentVersion) # {}}
        Covers(b, o) == o - b.offset \in Positions(b) /\ o < n
    IN  [resized EXCEPT !.bytes =
            [o \in DOMAIN @ |->
                IF \E b \in writes : Covers(b, o)
                THEN LET b == CHOOSE c \in writes : Covers(c, o)
                     IN  Written(resized, b)[o - b.offset]
                ELSE @[o]]]

WriteToHeap ==
    LET n == At(SizeBlock, currentVersion)
    IN  /\ stage = "running" /\ calls = << >>
        /\ chunk' = IF currentVersion = 0 THEN chunk
                    ELSE WriteBlocks(IF Resizable THEN SetSize(chunk, n) ELSE chunk, n)
        /\ stage' = "finished"
        /\ versionList' = IF currentVersion = 0 THEN versionList
                          ELSE [b \in Keys |-> IF b = SizeBlock \/ b.offset < n THEN SyncTo(b)
                                               ELSE versionList[b]]
        /\ answer' = << >>
        /\ UNCHANGED <<declared, currentVersion, calls>>

Next ==
    \/ BeginCall \/ CompleteCall \/ FailCall
    \/ \E b \in Keys : Load(b)
    \/ \E b \in Blocks, s \in Stores : Store(b, s)
    \/ \E b \in Blocks, x \in Additions : AddInt(b, x)
    \/ \E n \in 0 .. Capacity : UpdateChunkSize(n) \/ KeepChunkSize(n)
    \/ WriteToHeap

Spec == Init /\ [][Next]_vars
-----------------------------------------------------------------------------
(* Properties *)

\* assert(version < currentVersion) of restoreVersion and assert(version >= 1) of
\* ensureExists never fail: the open calls hold different versions, in the order in
\* which they began, all of them earlier than the current one.
CallsHoldVersions ==
    /\ \A i, j \in DOMAIN calls : i < j => calls[i] < calls[j]
    /\ \A i \in DOMAIN calls : 0 <= calls[i] /\ calls[i] < currentVersion

\* Any version of the size that is still in the list, a left over one too, keeps the
\* limits of ChunkInfo (RestrictedModifier.h:203-207): a chunk that may be expanded
\* never has less than its initial size, one that may be shrunk never more.
SizesInBounds ==
    stage # "finished" =>
        \A n \in DOMAIN versionList[SizeBlock] :
            \/ resizing = "expandable"
               /\ versionList[SizeBlock][n] \in chunk.size .. sizeBound
            \/ resizing = "shrinkable"
               /\ versionList[SizeBlock][n] \in sizeBound .. chunk.size

ViewAt(version) == [b \in Keys |-> At(b, version)]

Calls == INSTANCE HeapTransactions WITH
    chunk <- chunk, resizing <- resizing, sizeBound <- sizeBound,
    view <- ViewAt(currentVersion),
    saved <- [i \in 1 .. Len(calls) |-> ViewAt(calls[i])],
    answer <- answer, stage <- stage

\* saveVersion makes a number current that a block still has an entry for, from a
\* call that has failed.
Revives ==
    /\ currentVersion' = currentVersion + 1
    /\ \E b \in Keys : currentVersion + 1 \in DOMAIN versionList[b]

\* Whatever calls are nested, completed and failed: a failed call puts every block
\* back to what it found, a completed one leaves its changes to its caller, a store
\* changes the bytes it names and nothing else, and a load returns what is there.
\* The only step of the code that is none of a nested transaction is a saveVersion
\* that meets a left over entry with the new number.
CallsAreTransactions ==
    [][Revives \/ Calls!CallStep(Stores, Additions) \/ stage' = "finished"]_(Calls!vars)

\* The chunk ends up with what the calls that were not reverted have left, byte by
\* byte: nothing behind its size, additions added once to what was there, untouched
\* bytes untouched, and no change at all when the root call failed.
WrittenBack == [][stage' = "finished" => Calls!Finish]_(Calls!vars)

\* "modifier->restoreVersion(v1); EXPECT_EQ(modifier->load<int64>(100), 1);"
\* (tests/ascee/HeapModifierDeathTest.cpp:246-247): what was stored after a version was
\* saved is gone once it was restored.
RevertedIsGone ==
    [][Calls!CallStep(Stores, Additions) \/ stage' = "finished"]_(Calls!vars)
=============================================================================
