---------------------------- MODULE ParallelHeap ----------------------------
(***************************************************************************)
(* A block from its proposed dag to the chunk it leaves behind, for one    *)
(* chunk: ClusterProduct verifies the dag against the declared accesses,   *)
(* then the requests run concurrently in the order of the dag (as          *)
(* ExecutionOrder says, which RequestScheduler implements), each on its    *)
(* own RestrictedModifier, and write back to the chunk they share.  One    *)
(* step is one access to the chunk, or one heap operation of a request.    *)
(***************************************************************************)
EXTENDS Integers, Sequences, FiniteSets

CONSTANTS Request,       \* request ids
          Inputs,        \* of ClusterProduct
          ProgramOf(_),  \* what a request does that declares a set of blocks: a sequence
                         \* of heap operations, [do, block, ...]
          Failing,       \* the requests whose calls may fail for a reason of their own
          Capacity, Base \* of HeapBlocks

VARIABLES accessMap, bounds, dag, stage, blocks, clusters, i, checked, \* of ClusterProduct
          chunk,        \* size and bytes
          phase,        \* of every request: pending, running, done
          pc,           \* the next operation of a request
          initialSize,  \* ChunkInfo::initialSize, -1 until it is read
          changed,      \* the last version of the blocks a request has changed
          answers,      \* what the operations of a request have returned
          cut,          \* the requests whose call failed for another reason than an error
          sized,        \* the requests that have written the size back
          mutex         \* the holder of Chunk::contentMutex, its block and its sum

verifying == <<accessMap, bounds, dag, stage, blocks, clusters, i, checked>>
local == <<pc, initialSize, changed, answers, cut, sized>>
vars == <<verifying, chunk, phase, local, mutex>>

Verification == INSTANCE ClusterProduct
Heap == INSTANCE HeapBlocks WITH Blocks <- {}
Order == INSTANCE ExecutionOrder WITH
    Graphs <- {}, adj <- [r \in Request |-> {e[2] : e \in {d \in dag : d[1] = r}}],
    stage <- phase, outcome <- "open"

\* Every request has a resizing block, programs are about declared blocks, and a size is a
\* uint32.
ASSUME ParallelHeapAssumption ==
    /\ Verification!ClusterProductAssumption
    /\ \A given \in Inputs : \A r \in Request :
          /\ \E b \in given.accessMap[r] : b.offset < 0
          /\ LET program == ProgramOf(given.accessMap[r])
                 operations == {program[n] : n \in DOMAIN program}
             IN  /\ program \in Seq(operations)
                 /\ \A op \in operations :
                       /\ op.do = "resize" => op.value \in Nat
                       /\ op.do \notin {"size", "resize"} =>
                             op.block \in given.accessMap[r] /\ op.block.offset >= 0

SizeBlock == Heap!SizeBlock
Program(r) == ProgramOf(accessMap[r])
Op(r) == Program(r)[pc[r]]

\* The bytes of the chunk are ones, and zero behind its size.
Given(size) ==
    [size |-> size, bytes |-> [o \in 0 .. Capacity - 1 |-> IF o < size THEN 1 ELSE 0]]

Init ==
    /\ Verification!Init
    /\ chunk = Given(bounds.size)
    /\ phase = [r \in Request |-> "pending"]
    /\ pc = [r \in Request |-> 1]
    /\ initialSize = [r \in Request |-> -1]
    /\ changed = [r \in Request |-> << >>]
    /\ answers = [r \in Request |-> << >>]
    /\ cut = {} /\ sized = {}
    /\ mutex = {}

\* checkDependencyGraph comes before parallelExecuteRequests.
Verify ==
    /\ Verification!Next
    /\ UNCHANGED <<chunk, phase, local, mutex>>

\* A worker gets the request from the queue, a fresh modifier and calls its application.
Begin(r) ==
    /\ stage = "accepted"
    /\ UNCHANGED <<verifying, chunk, local, mutex>>
    /\ Order!Start(r)
-----------------------------------------------------------------------------
(* The operations of a request, on the versions of its modifier *)

\* Access::denies
Denies(type, operation) ==
    operation \notin CASE type = "check_only" -> {"check"}
                       [] type = "int_additive" -> {"check", "int_add"}
                       [] type = "read_only" -> {"check", "read"}
                       [] type = "writable" -> {"check", "read", "write"}

Needs == [load |-> "read", store |-> "write", copy |-> "write", add |-> "int_add",
          valid |-> "check"]

\* ChunkInfo::resizing, and its bound
Resizing(r) == CHOOSE b \in accessMap[r] : b.offset < 0
Resizable(r) == Resizing(r).offset = -1

\* sizeBlock() reads the chunk's size once, when it is first asked for.
InitialSize(r) == IF initialSize[r] = -1 THEN chunk.size ELSE initialSize[r]
SizeRead(r) == initialSize' = [initialSize EXCEPT ![r] = InitialSize(r)]

ShownSize(r) ==
    IF SizeBlock \in DOMAIN changed[r] THEN changed[r][SizeBlock] ELSE InitialSize(r)

Shown(r, b) ==
    IF b \in DOMAIN changed[r] THEN changed[r][b] ELSE Heap!Initially(chunk, b)

Change(r, b, content) ==
    changed' = [changed EXCEPT ![r] =
                   [c \in DOMAIN @ \cup {b} |-> IF c = b THEN content ELSE @[c]]]
Answer(r, x) == answers' = [answers EXCEPT ![r] = Append(@, x)]

Running(r) == phase[r] = "running" /\ r \notin sized

\* Request r is about to do one of some operations, and may.
Does(r, operations) ==
    /\ Running(r) /\ pc[r] <= Len(Program(r)) /\ Op(r).do \in operations
    /\ Op(r).do \in DOMAIN Needs => ~Denies(Op(r).block.type, Needs[Op(r).do])
    /\ pc' = [pc EXCEPT ![r] = @ + 1]
    /\ UNCHANGED <<verifying, chunk, phase, cut, sized, mutex>>

Load(r) ==
    /\ Does(r, {"load"})
    /\ Answer(r, Shown(r, Op(r).block))
    /\ UNCHANGED <<initialSize, changed>>

\* "store" stores given bytes, "copy" what was loaded last.
Stored(r) == IF Op(r).do = "copy" THEN answers[r][Len(answers[r])] ELSE Op(r).bytes

Store(r) ==
    /\ Does(r, {"store", "copy"})
    /\ Change(r, Op(r).block, Heap!Overwrite(Shown(r, Op(r).block), Op(r).at, Stored(r)))
    /\ UNCHANGED <<initialSize, answers>>

AddInt(r) ==
    /\ Does(r, {"add"})
    /\ Change(r, Op(r).block, Heap!Plus(Shown(r, Op(r).block), Op(r).value))
    /\ UNCHANGED <<initialSize, answers>>

IsValid(r) ==
    /\ Does(r, {"valid"})
    /\ SizeRead(r)
    /\ Answer(r, Op(r).block.offset + Op(r).block.size <= ShownSize(r))
    /\ UNCHANGED changed

GetChunkSize(r) ==
    /\ Does(r, {"size"})
    /\ Resizing(r).offset # -3
    /\ SizeRead(r)
    /\ Answer(r, ShownSize(r))
    /\ UNCHANGED changed

\* updateChunkSize accepts a new size: it expands the chunk, or shrinks it, up to the
\* declared bound.
Accepts(resizing, old, new) ==
    \/ new = old
    \/ resizing.offset = -1 /\ resizing.size > 0 /\ old < new /\ new <= resizing.size
    \/ resizing.offset = -1 /\ resizing.size <= 0 /\ new < old /\ -resizing.size <= new

UpdateChunkSize(r) ==
    /\ Does(r, {"resize"})
    /\ Accepts(Resizing(r), ShownSize(r), Op(r).value)
    /\ SizeRead(r)
    /\ IF Op(r).value = ShownSize(r) THEN UNCHANGED changed
       ELSE Change(r, SizeBlock, Op(r).value)
    /\ UNCHANGED answers

\* What the declaration of the request does not allow raises an exception.
Illegal(r) ==
    CASE Op(r).do = "resize" -> ~Accepts(Resizing(r), ShownSize(r), Op(r).value)
      [] Op(r).do = "size" -> Resizing(r).offset = -3
      [] OTHER -> Denies(Op(r).block.type, Needs[Op(r).do])

\* The root call restores version 0, so that writeToHeap has nothing to do.
Discard(r) ==
    /\ changed' = [changed EXCEPT ![r] = << >>]
    /\ UNCHANGED <<verifying, chunk, pc, sized, mutex>>
    /\ Order!Finish(r)

Raise(r) ==
    /\ Running(r) /\ pc[r] <= Len(Program(r)) /\ Illegal(r)
    /\ IF Op(r).do = "resize" THEN SizeRead(r) ELSE UNCHANGED initialSize
    /\ Answer(r, "error")
    /\ Discard(r)
    /\ UNCHANGED cut

\* The call fails for a reason of its own: a revert, its time or its stack.
CallFails(r) ==
    /\ r \in Failing
    /\ Running(r) /\ pc[r] <= Len(Program(r))
    /\ cut' = cut \cup {r}
    /\ Discard(r)
    /\ UNCHANGED <<initialSize, answers>>

Operate(r) ==
    \/ Load(r) \/ Store(r) \/ AddInt(r) \/ IsValid(r) \/ GetChunkSize(r)
    \/ UpdateChunkSize(r) \/ Raise(r)
-----------------------------------------------------------------------------
(* writeToHeap *)

\* First the size is written, if it was declared that it may be.
WriteSize(r) ==
    /\ Running(r) /\ pc[r] > Len(Program(r))
    /\ SizeRead(r)
    /\ chunk' = IF Resizable(r) THEN Heap!SetSize(chunk, ShownSize(r)) ELSE chunk
    /\ sized' = sized \cup {r}
    /\ UNCHANGED <<verifying, phase, pc, changed, answers, cut, mutex>>

\* The blocks that are still to be written.
Unwritten(r) == {b \in DOMAIN changed[r] : b # SizeBlock /\ b.offset < ShownSize(r)}

\* The next of them in the order of their offsets.
IsNext(r, b) ==
    /\ phase[r] = "running" /\ r \in sized
    /\ b \in Unwritten(r) /\ \A c \in Unwritten(r) : b.offset <= c.offset

\* The bytes of the chunk once content was copied to block b, cut at the request's size.
Copied(r, b, content) ==
    [chunk EXCEPT !.bytes = Heap!Overwrite(@, b.offset,
        [p \in {q \in DOMAIN content : b.offset + q < ShownSize(r)} |-> content[p]])]

BlockDone(r, b) ==
    changed' = [changed EXCEPT ![r] = [c \in DOMAIN @ \ {b} |-> @[c]]]

\* wrToHeap of a block that is not additive
WriteBlock(r) ==
    \E b \in DOMAIN changed[r] :
        /\ IsNext(r, b) /\ b.type # "int_additive"
        /\ chunk' = Copied(r, b, changed[r][b])
        /\ BlockDone(r, b)
        /\ UNCHANGED <<verifying, phase, pc, initialSize, answers, cut, sized, mutex>>

\* Nobody takes the mutex.
LockFreeAlways(r) == \A h \in mutex : h[1] # r

\* The mutex of the chunk's content can be taken.
LockFree(r) == mutex = {}

\* Under the mutex the sum is read from the chunk ...
ReadSum(r) ==
    \E b \in DOMAIN changed[r] :
        /\ IsNext(r, b) /\ b.type = "int_additive"
        /\ LockFree(r)
        /\ mutex' = mutex \cup
              {<<r, b, Heap!Plus(Heap!ContentAt(chunk, b), Heap!ToInt(changed[r][b]))>>}
        /\ UNCHANGED <<verifying, chunk, phase, local>>

\* The sum is written and the mutex is not released.
WriteSumLocked(r) ==
    \E h \in mutex :
        /\ h[1] = r /\ h[2] \in DOMAIN changed[r]
        /\ chunk' = Copied(r, h[2], h[3])
        /\ BlockDone(r, h[2])
        /\ UNCHANGED <<verifying, phase, pc, initialSize, answers, cut, sized, mutex>>

\* ... and written.
WriteSum(r) ==
    \E h \in mutex :
        /\ h[1] = r
        /\ chunk' = Copied(r, h[2], h[3])
        /\ mutex' = mutex \ {h}
        /\ BlockDone(r, h[2])
        /\ UNCHANGED <<verifying, phase, pc, initialSize, answers, cut, sized>>

\* The result is submitted, successors in the dag may start.
Finish(r) ==
    /\ r \in sized /\ Unwritten(r) = {}
    /\ UNCHANGED <<verifying, chunk, local, mutex>>
    /\ Order!Finish(r)

WriteToHeap(r) == WriteSize(r) \/ WriteBlock(r) \/ ReadSum(r) \/ WriteSum(r) \/ Finish(r)
-----------------------------------------------------------------------------
Step(r) == Begin(r) \/ Operate(r) \/ WriteToHeap(r)

Next == Verify \/ \E r \in Request : Step(r) \/ CallFails(r)

\* Every worker runs; nothing makes a call fail.
Spec == Init /\ [][Next]_vars /\ WF_vars(Verify) /\ \A r \in Request : WF_vars(Step(r))
-----------------------------------------------------------------------------
(* Properties *)

\* One operation, done to the chunk itself: s is [chunk, answers], and error once an
\* operation was illegal.
Applied(r, s, op) ==
    LET c == s.chunk
        Says(x) == [s EXCEPT !.answers = Append(@, x)]
        Puts(b, w) == [s EXCEPT !.chunk.bytes = Heap!Overwrite(@, b.offset, w)]
        old == Heap!ContentAt(c, op.block)
        Legal == op.do \in DOMAIN Needs /\ ~Denies(op.block.type, Needs[op.do])
    IN  CASE s.error -> s
          [] op.do = "resize" /\ Accepts(Resizing(r), c.size, op.value) ->
                [s EXCEPT !.chunk.size = op.value]
          [] op.do = "size" /\ Resizing(r).offset # -3 -> Says(c.size)
          [] Legal /\ op.do = "load" -> Says(old)
          [] Legal /\ op.do = "valid" -> Says(op.block.offset + op.block.size <= c.size)
          [] Legal /\ op.do = "add" -> Puts(op.block, Heap!Plus(old, op.value))
          [] Legal /\ op.do = "store" -> Puts(op.block, Heap!Overwrite(old, op.at, op.bytes))
          [] Legal /\ op.do = "copy" -> Puts(op.block, s.answers[Len(s.answers)])
          [] OTHER -> [s EXCEPT !.error = TRUE, !.answers = Append(@, "error")]

\* A request alone: all of its operations, or none if one of them is illegal, with zeros
\* behind the chunk's end.
Alone(r, c) ==
    LET after[n \in 0 .. Len(Program(r))] ==
            IF n = 0 THEN [chunk |-> c, answers |-> << >>, error |-> FALSE]
            ELSE Applied(r, after[n - 1], Program(r)[n])
        end == after[Len(Program(r))]
        bytes == [o \in DOMAIN c.bytes |-> IF o < end.chunk.size THEN end.chunk.bytes[o] ELSE 0]
    IN  [chunk |-> IF end.error THEN c ELSE [end.chunk EXCEPT !.bytes = bytes],
         answers |-> end.answers]

\* The chunk before the n-th request of a serial execution in the order of the ids.
SerialChunk ==
    LET before[n \in 0 .. Cardinality(Request)] ==
            CASE n = 0 -> Given(bounds.size)
              [] n > 0 /\ n - 1 \in cut -> before[n - 1]
              [] OTHER -> Alone(n - 1, before[n - 1]).chunk
    IN  before

\* A block whose dag was verified leaves the chunk, and answers its requests, as if they
\* had run one after the other in the order of their ids (serialExecuteRequests), on any
\* schedule: whatever sizes were read early, writes cut and sums interleaved.
Serializable ==
    (\A r \in Request : phase[r] = "done") =>
        /\ chunk = SerialChunk[Cardinality(Request)]
        /\ \A r \in Request \ cut : answers[r] = Alone(r, SerialChunk[r]).answers

\* "when the chunkSize is going to be modified the scheduler may still allow some readers
\* of chunkSize to be run concurrently. but concurrent writes can not happen" (Chunk.h):
\* the size a request has read may be outdated before it ends, but not if it asks for
\* the size, and never so that it changes what is inside of the chunk for its blocks.
OutdatedSizeHarmless ==
    \A r \in Request : phase[r] = "running" /\ r \notin sized /\ initialSize[r] # -1 =>
        /\ Resizing(r).offset # -3 => initialSize[r] = chunk.size
        /\ \A b \in accessMap[r] : b.offset >= 0 =>
              /\ b.offset < initialSize[r] <=> b.offset < chunk.size
              /\ b.offset + b.size <= initialSize[r] <=> b.offset + b.size <= chunk.size

\* All requests of a verified block come to their end: nobody waits for a mutex or for a
\* predecessor for ever.
AllEnd == stage = "accepted" ~> \A r \in Request : phase[r] = "done"
=============================================================================
