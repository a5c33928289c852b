# Argennon: a TLA+ model of block validation

The repository holds the Argennon virtual environment: a validator that takes a
block of requests with a *proposed* execution dag and proposed memory accesses,
verifies that the dag orders every two requests that could collide, and runs the
requests on many threads, each in a sandboxed call stack over a shared heap of
chunks. This directory holds the specifications of the parts that make this
correct, the TLC configurations that check them on small instances and the
proofs of what holds for every instance.

Paths below are relative to the repository; line numbers are in `PROJECT.json`
(`map` names, for every definition, the lines it stands for).

## 1. Inventory

| component | code | state | operations |
|---|---|---|---|
| Request processor | `validator/RequestProcessor.hpp` | futures, response list | `runAll`, `loadRequests`, `checkDependencyGraph`, `parallelExecuteRequests`, `serialExecuteRequests` |
| Request scheduler | `validator/RequestScheduler.{h,cpp}` | nodes of the dag with in-degrees, remaining count, queue of ready nodes | `addRequest`, `finalizeRequest`, `buildExecDag`, `nextRequest`, `submitResult` |
| Blocking queue | `util/BlockingQueue.hpp` | content, producer count, condition variable | `enqueue`, `blockingDequeue`, `addProducer`, `removeProducer` |
| Dag verification | `RequestScheduler.h` (`VerifierCluster`, `findCollisionCliques`, `findResizingCollisions`) | sorted blocks and their clusters | `sortAccessBlocks`, `checkCollisions` |
| Heap modifier | `ascee/heap/RestrictedModifier.{h,cpp}` | per access block a list of versions; current version | `load`, `store`, `addInt`, `updateChunkSize`, `saveVersion`, `restoreVersion`, `writeToHeap` |
| Chunk | `ascee/heap/Chunk.{h,cpp}` | content, size, capacity, mutex | `setSize`, `reserveSpace`, `shrinkSpace`, `applyDelta` |
| Executor | `ascee/executor/Executor.{h,cpp}`, `argc/functions/invoke.cpp` | call stack, resource stack, locks, guarded area | `executeOne`, `executeApp`, `dependant_call`, `invoke_deferred`, `enter_area`, `exit_area`, `revert`, signal handler |
| Failure manager, CPU timer | `executor/FailureManager`, `executor/ThreadCpuTimer` | invocation ids, call depth | `nextInvocation`, `completeInvocation`, `getStackSize`, `getExecTime`, `setAlarm` |
| Virtual signatures, ARG authentication | `executor/VirtualSignatureManager`, `argc/functions/auth.cpp` | signed messages, cost; nonces in the heap | `sign`, `verify`, `verifyAndInvalidate`, `verifyByAccount` |
| Storage | `storage/{ChunkIndex,Page,PageCache,PageLoader,AppIndex,AppLoader}` | cached pages, native chunks and migrants, index of chunks, application handles | `preparePages`, `applyDelta`, migrations, `buildModifier`, `buildAppTable` |
| Block validator | `validator/BlockValidator`, `BlockLoader` (a stub) | - | `conditionalValidate` |
| Containers and codes | `util/{OrderedStaticMap,StaticArray,PrefixTrie}.hpp` | - | merging sorted maps, prefix codes |
| argC library | `ascee/argc/*` | string buffers | formatting, floats, wrappers of the heap modifier |

How they interact. `BlockValidator::conditionalValidate` prepares the pages of
the block (cache), indexes their chunks (`ChunkIndex`), and gives the index to a
`RequestProcessor`. `loadRequests` fans the request streams and then the calls of
`finalizeRequest` out with `runAll`; `checkDependencyGraph` merges the access
maps and runs `checkCollisions` for every chunk with `runAll`;
`parallelExecuteRequests` starts the workers, which share the scheduler and
`responseList`. A worker runs `Executor::executeOne`: a stack of application
calls, each under a saved version of the request's `RestrictedModifier`, whose
last version is written to the shared chunks at the end. The scheduler is the
only thing that keeps two requests that touch the same bytes apart, so the
verification of the dag and the order of execution carry the whole program.

What is hard here: the workers' interleavings around the queue's lock, its
notifications and the atomic counters; an exception in one thread while others
wait; a verification algorithm that rearranges its list while it scans it;
nested calls that fail and give version numbers back; guarded areas that
signals may interrupt; pages that are shared by migrations. `PROJECT.json` lists
each of these under `hazards`, at its line.

What makes each component correct:

* `runAll`: every task once, exceptions reach the caller, no slice outlives the
  call.
* Scheduler, queue and workers: a request starts after all its predecessors are
  done, is executed once, no assertion fails, nobody waits for ever, and the
  verdict depends on the block alone.
* Dag verification: an accepted dag orders every two colliding requests (sound);
  a dag with an edge for every collision is accepted (complete); only edges
  between colliding requests are asked for (precise); it terminates.
* Heap modifier: a failed call leaves no trace, for any nesting (as far as it keeps
  this, section 7); what is written to the chunks is what the calls that were not
  reverted wrote.
* Executor: locks and contexts are restored on every exit path, the gas handed
  out never exceeds the gas there is, depth is bounded.
* Storage: every chunk has one owner; a page that could not be verified is never
  used.
* Validator: pages are committed only if the block is valid.

## 2. Plan

In the order in which the program's correctness rests on them:

1. `Slices`, `RunAll` - the fan-out everything goes through. *done, proved*
2. `ExecutionOrder` - what the execution of a block promises. *done*
3. `RequestScheduler` (with the queue and the workers) implementing it, with
   proofs of the safety properties and of the refinement. *done, proved*
4. `ClusterProduct` - the verification of the dag, over the maps that
   `OrderedMaps` merges. *done, proved but for soundness*
5. `HeapVersions` implementing `HeapTransactions`, an abstract specification of
   nested transactions, with proofs. *done, proved*
6. `ParallelHeap`: a block from its dag to the chunk it leaves behind, composing
   `ClusterProduct`, `ExecutionOrder` and the blocks of the heap. *done, proved
   but for the numbers the chunk ends with*
7. `ExecutorCalls`, with `VirtualSignatures`, `VersionLists` and `AppTables`: call contexts,
   resource contexts, locks, deferred calls, signals, depth, gas, signatures,
   nonces, the call table. *done, proved*
8. `PageCache`, with `ChunkDeltas` and `PrefixCodes`: pages, deltas, migrations,
   the index, and `conditionalValidate` over several blocks. *done, proved*

Theorems that are proved are in section 6, with what remains model-checked. No module a
theorem rests on has a `RECURSIVE` operator: the loops of the decoders are functions of how
often their body was executed.

## 3. Modules

| module | models | proofs |
|---|---|---|
| `Slices` | the arithmetic of `runAll` | `RunAll_proofs` |
| `RunAll` | `runAll`, its futures and its caller | `RunAll_proofs` |
| `ExecutionOrder` | what parallel execution promises (abstract) | |
| `RequestScheduler` | `finalizeRequest`, `buildExecDag`, `nextRequest`, `submitResult`, `BlockingQueue`, the workers of `parallelExecuteRequests` | `RequestScheduler_proofs` |
| `OrderedMaps` | `OrderedStaticMap`: search and merge | `OrderedMaps_proofs` |
| `ClusterProduct` | the verification of one chunk's accesses against the dag; `findCollisions` | `ClusterProduct_proofs` |
| `HeapBlocks` | the blocks of a chunk and what is in them | |
| `HeapTransactions` | nested transactions on these blocks (abstract) | |
| `HeapVersions` | `RestrictedModifier` of one request | `HeapVersions_proofs` |
| `ParallelHeap` | verification, then several requests on one chunk | `ParallelHeap_proofs` |
| `AppTables` | `AppLoader`, `AppIndex`, `AppTable` | |
| `VirtualSignatures` | `VirtualSignatureManager`, `getSigManagerFor`, the texts and nonces of `auth.cpp` | |
| `VersionLists` | `AccessBlock`: the version list of a block, as `ExecutorCalls` uses it | `ExecutorCalls_proofs` |
| `ExecutorCalls` | `Executor::executeOne` and `invoke.cpp`, one request | `ExecutorCalls_proofs` |
| `PrefixCodes` | `PrefixTrie` | |
| `ChunkDeltas` | `Chunk` | |
| `PageServer` | a PV-DB server, which is external: the deltas it answers with | |
| `PageCache` | `Page`, `PageCache`, `PageLoader`, `ChunkIndex`, `conditionalValidate` | `PageCache_proofs` |
| `MC...` | small instances of each | |

Definitions named like another with a suffix (`StepRoundedUp`, `DequeueNoPop`,
`FailCallByOne`, ...) are no part of the specifications: each is a plausible bug
of the definition after it, and the property `PROJECT.json` pairs it with
(`mutants`) is violated when it takes that definition's place.

### Slices, RunAll

`runAll` starts `workersCount + 1` futures, each for a slice of
`tasksCount / workersCount` tasks (`Step`, `Slice`), and gets them in order.
`taskID[i]` is the loop variable of future `i`, `future[i]` is `running` (a
thread), `deferred` (`std::async` without a policy may do so), `ready` or
`threw`; `joined` is the next future the caller gets. A call of the task and its
exception are `RunTask` and `TaskThrows`; `SliceEnds` leaves the loop. `Get`
blocks on a running future, `RunDeferred` runs a deferred one in the caller,
an exception is rethrown, and `Unwind` is the destructors of the futures that
are left: they wait for threads and drop what was deferred.

`Slices` also defines which tasks a call covers. The other modules use it to say
which requests are finalized.

### ExecutionOrder, RequestScheduler

`ExecutionOrder` knows a graph, a stage per request and an outcome: a request
starts when all its predecessors are finished; a block may be accepted only when
everything is; it may be rejected only when nothing runs and something is left
(or the block is empty).

`RequestScheduler` starts after `addRequest` was called for every request. Its
granularity is that of the code: each critical section of the queue's mutex is
one step, each access to an atomic is one step, and a notification is a step of
its own because `BlockingQueue` notifies after it has unlocked. Inputs are the
adjacency lists, the set of requests with attachments, the status codes of
executions, whether `executeOne` throws, and the launch policy of each worker.

| code | actions |
|---|---|
| `finalizeRequest`, called by `runAll` | `FinalizeRequest`, `FinalizeEnds` |
| `buildExecDag` | `BuildExecDag`: sources are queued, producers counted |
| `std::async` of the workers, `get`, destructors | `SpawnWorkers`, `RunDeferred`, `Join`, `Unwind`, `ReturnResponses` |
| `nextRequest` → `blockingDequeue` | `Dequeue`, `DequeueWaits`, `SpuriousWake`, `NoRequestLeft`, `DequeueUnderflows` |
| `Executor::executeOne` | `Execute`, `ExecuteThrows` |
| `submitResult` | `Submit`, `SubmitThrows`, `Decrement`, `DecrementCrashes`, `Enqueue`, `NotifyOne`, `ResetNode`, `CountDown` |
| `removeProducer` | `RemoveProducer`, `NotifyAll` |

`pc[w]` is where worker `w` is, `cur[w]` the request it holds, `todo[w]` the
successors it still has to visit, `ready[w]` the one it is about to queue. A
failed assertion and the use of a node that was reset set `crashed`.

### ClusterProduct

The accesses all requests declare on one chunk, the declared bounds of its size
and the dag are inputs, chosen in `Init`. `CheckBounds` is the part of
`ChunkIndex::buildModifier` that is meant to bound the sizes,
`FindResizingCollisions` (or `ResizingFails`) the collisions of resizing with
accesses behind the bounds, and the rest is the loop of `findCollisionCliques`:
`blocks` and `clusters` are its list, `i` the position of its outer loop.
`SkipBlock`, `FinalizeCluster`, `MergeBlock` and `SplitBlock` are the outcomes of
one iteration, `CliqueFails` a missing edge. `checked` collects the edges the
algorithm has asked for; the properties compare them with `Collide`, which is
written from the definition of collisions alone.

What a request may declare is `IsAccessMap`, the rules that `info.h` states for
`memoryAccessMap`; an assumption on the inputs, since the loader that should check them is
a stub. A split is described by where things are afterwards: `LowerBound` is the index at
which the inner loop stops, `Shift` the list once it has, `Front` and `Remainder` the two
parts of the absorber.

### HeapBlocks, HeapTransactions, HeapVersions

`HeapBlocks` has the blocks that a request declares on a chunk, the block of the
chunk's size and the contents these can have. `HeapTransactions` is a stack of
saved views: `Begin` pushes the view, `Abort` restores the one on top, `Commit`
drops it, an update changes one block, and `Finish` writes the view to the
chunk. `HeapVersions` is the code's way to do this without copying: every block
has a list of numbered versions (`versionList[b]`, a function from numbers),
`currentVersion` is the number that is written under, `calls` the numbers that
the open calls of `Executor::executeOne` and `dependant_call` keep on their
stacks.

| code | actions |
|---|---|
| `saveVersion` at the start of a call | `BeginCall` |
| a call that returns | `CompleteCall` |
| a call that fails, `restoreVersion` | `FailCall` |
| `load`, `store`, `addInt` | `Load`, `Store`, `AddInt`, over `SyncTo` (versions above the current one are dropped) and `WithLast` (`add`) |
| `updateChunkSize` | `UpdateChunkSize`, `KeepChunkSize` |
| `writeToHeap` | `WriteToHeap` |

The refinement maps a block to the newest version that is not above the current
one, and the saved views to the same reading at the numbers in `calls`.

### OrderedMaps, AppTables

`Find` is the bisection of `OrderedStaticMap::find`, `MergeMaps` and `MergeAll` its
union and the merging by halves; the halves share nothing, so merging is one step.
`MergeInsert` is the loop of `mergeInsert`, as a function of the vector and of how much of
either list is left (`Inserting`): each round moves an element of the left list up, or
copies one of the right list to the free place.
`ClusterProduct` begins with the merged and sorted access maps, `ExecutorCalls` looks
applications up with `Find`. `AppTables` goes from what the library has of an
application (`Library`) through the cache of `prepareApps` to `checkApp`.

### ParallelHeap

One chunk and a few requests, each with a program of heap operations and the blocks it
declares. `Verify` is `ClusterProduct`; then `Begin` and `Finish` are the steps of
`ExecutionOrder`, which `RequestScheduler` implements, and in between each operation
of a request is one step on its modifier's versions. The size is read from the chunk at
the first use (`InitialSize`); `WriteSize`, `WriteBlock`, `ReadSum` and `WriteSum` are
the accesses of `writeToHeap` to the chunk, the last two under `mutex`. `Alone` is
what a request does when nothing else runs, and `SerialChunk` the serial execution
that the result is compared with.

### VirtualSignatures, ExecutorCalls

`frames` are the `CallContext`s that are alive, with the place in the code their thread
is at, their lock, deferred calls, and, for the first frame of a thread, timer and signal
mask. `resources` are the `CallResourceHandler`s. `guardedArea` is the flag of the
session. All threads of a request wait for the one that was started last, so one of
them runs at a time; what is concurrent with it are the timers.

| code | actions |
|---|---|
| `executeApp` until the callee's thread runs | `Invoke`, `InvokeWithoutGas`, `InvokeWithoutVersion`, `InvokeTooDeep`, `InvokeOptimistic` |
| `dependant_call`, `CallContext` | `Enter`, `EnterRefused`, `Return`, `StartDeferred`, `LeaveContext` |
| `enter_area`, `exit_area`, `invoke_deferred`, `revert` | `EnterArea`, `ExitArea`, `InvokeDeferred`, `AppFails` |
| `pthread_join`, `~CallResourceHandler` | `Join`, over `Settle`, `RestoreContext`, `CompleteInvocation` |
| `executeOne` | `RootCall`, `Finish` |
| `sig_handler` | `TimerExpires`, `OptimisticTimerExpires`, `FaultInGuardedArea` |
| the heap functions | `Load`, `Store` |
| `virtual_sign` | `VirtualSign`, `LoadsNoChunks` |
| `verify_by_acc_once` | `VerifyByApp`, `VerifyWithNonce`, `VerifyEmpty`, `VerifyRefused`, `LoadsNoChunks` |
| `verify_by_acc` | `VerifyByAcc`, `VerifyEmpty`, `VerifyRefused`, `LoadsNoChunks` |

An error that leaves a call (`FailFrom`) runs the destructors of all contexts of the
thread: the thread of the call is then `returning`, and its status is answered by
`Join`. `UnGuard` has the outcome that matters for the timers: a signal that was held
back finds the guarded area still set. How a session can end besides `done` is
`outcome`: `blockError` (an exception that the validator turns into a verdict),
`terminated` (`std::terminate`), `strayJump` (`siglongjmp` to an environment of another
thread or to none) and `danglingResources`.

`heap` holds version lists (`VersionLists`): of one block that stands for all that
applications store in, its content being the ids of the calls that have stored, and of the
nonces. `Join` of a failed call (`Settle`) does what `restoreVersion` does: an older number
is current again, and the entries of the failed call stay in the lists until their block is
used (`SyncTo`) or the number is given out again. In the second case they are visible
once more, to the next call (`Revives`). `Finish` is `writeToHeap`, with which the lists end.

An empty message is accepted for any account, without a signature and as often as one
likes, by both functions (`VerifyEmpty`; the sample application `apps/app0x100000000000000.argc` (line 54) relies on
it); a message given to `verify_by_acc` stays good. `accepted` is a history of the messages
that were answered with true, `once` of those that are used up by it and `again` of the
others; `granted` and `failed` are history too.

### PrefixCodes, ChunkDeltas, PageServer, PageCache

`PrefixCodes` codes numbers and identifiers as bytes with `Radix` values; `ChunkDeltas` is
`Chunk`, with `ApplyDelta` reading such codes and throwing where the code throws.
`PageCache` keeps pages (`cache`) whose native chunk and migrants point to `chunks`, so
that two pages can have one chunk. One validation is a pass through `stage`:
`PreparePages` for each of the two lists in any order, `SkipPage`, `UpdatePage`,
`RetryUpdate` or `UpdateFails` per page, `Migrate` or `MigrationFails` per migration,
`BuildIndex`, `Execute`, `Decide`. What the server answers is the constant `Delta`: some
bytes, for the two versions of a page in a `chain` of blocks and a style of cutting. The run
gives it `GetDelta` of `PageServer`; the theorems need no more than that it is a sequence of
bytes, but for `CleanPagesFollowTheChain`. The constant `Broken` is what may arrive instead
of an answer: in the run, an answer whose last byte is the first one of a longer code, so that
everything before it is read and written before the delta throws (`UpdateFails`). `torn` is
a history of the chunks of pages on which a delta has thrown. Blocks may be skipped or
validated twice.

## 4. Runs

Twelve runs, one per question. "Pass" runs of a module fire all its actions.

| run | instance | shows |
|---|---|---|
| `runall` | 0 to 6 tasks, 1 to 3 workers, any launch policy, any task may throw | no task twice, exceptions reach the caller, no slice outlives the call, the call ends |
| `graphs` | 3 workers; every dag with ascending edges over 4 requests, every digraph (cycles, self-loops) over 3 | order, no crash, no lost wake-up, once each, termination, the verdict is the graph's; `OrderInv` of the proof; `ImplementsOrder` |
| `failures` | 5 requests on 3 workers, of which `runAll` leaves one unfinalized; failures, attachments, a throwing executor | the process crashes only if the request left out has successors; the queue's counts are right to the end even when workers leave |
| `hang` | 2 requests, 2 workers, a failed fee payment | `Terminates` is violated |
| `verify` | up to 4 requests, 3 bytes: all single blocks, pairs of blocks, all size accesses, every dag over 3 | sound (unless crowded), sorted while it is rearranged, precise, rejected only for a missing edge, terminates; `findCollisions` is exact |
| `lost` | four writers | `Sound` is violated |
| `heap` | a writable block across the end of the chunk, an additive one, the size; versions up to 3 | nested transactions but for revived versions, sizes within bounds, the chunk's final bytes |
| `revived` | the same | `RevertedIsGone` is violated |
| `parallel` | 3 requests of ten kinds on a chunk of 3 bytes with 2 in use, every dag | an accepted dag gives the chunk and the answers of a serial execution on every schedule, outdated sizes are harmless, all requests end |
| `calls` | ten requests, each about a few of the things applications do; 3 levels of calls, 4 frames, 6 calls | locks, heap context, depth, gas, signatures and nonces, call list; failed calls leave nothing but for revived versions; application code can be stopped; the session ends |
| `timeout` | a request in which only a call takes too long | `TimeoutContained` is violated |
| `pages` | 2 pages with up to 2 migrants, 3 blocks, 2 chains, 5 proposals, one answer that is wrong or throws at its end | clean pages follow the chain, no stale bytes but on pages on which a delta threw, writable exactly by the list, one owner for each migrant |

Bounds, and why they are enough to see the interesting cases:

* `runall`: 5 tasks on 3 workers is the least pair that drops a task; 6 on 3 and
  smaller pairs cover the slices that are empty, exact and past the end.
* `graphs`: a diamond and a join with two predecessors that finish at once need
  four requests; three workers let one wait, one be between unlocking and
  notifying, and one run. Every interleaving at this size is visited. All
  digraphs over three include cycles, self-loops and sources in any order.
* `failures`: 5 and 3 are the least counts that drop a request; three workers allow one to
  leave and two to race.
* `verify`: a cluster is split after it has absorbed another block only with
  three blocks, and loses a member only with four; three bytes allow blocks that
  nest, overlap, touch and are apart.
* `heap`: version numbers are capped at `MaxVersion = 3` instead of 30000. Three
  nested calls, a failed call followed by two others, and an exhausted counter
  all happen below it. The chunk has three bits (`Base = 2`): the writable block
  starts inside and ends outside of it.
* `parallel`: a lost sum needs two adders of one block, an outdated size a resizing
  request beside one that has read the size, and a third request can come between.
  One request may fail for a reason of its own.
* `calls`: `MaxDepth = 3` and `MaxVersion = 3` are reached, `MaxFrames = 4` lets a
  deferred call be made below a nested one, six calls of which two forward all they can
  let the gas run out; `MaxCost = 7` is exceeded by the third signature. The nonce's limit
  is reached by three messages. A message is attached twice, one is not signed, one pretends to
  be of an application; a failed call gives its nonce back, and the next may use it. No request does everything: each combines
  what interacts (locks with deferred calls, stores with failures, signatures with
  failures).
* `pages`: bytes have four values, so numbers have codes of one and of two bytes; three
  blocks allow one to be skipped or done twice, and a chunk to move there and back.

`SoundUnlessCrowded` excludes the blocks for which `lost` shows that a cluster forgets a
member; the hypotheses `NoDroppedEdge` and `SlicesCover` of some theorems exclude the tasks
that `runAll` drops, where `CrashNeedsDroppedEdge` does so in the property itself; `CallsAreTransactions`
and `FailedLeaveNoTrace` exclude the steps that `revived` is about; `ZeroBehindSize` leaves out the chunks of
pages on which a delta has thrown (`torn`), because there it is false (section 7): without this
exclusion `pages` violates it;
`CleanPagesFollowChain` is about pages that were not written, migrated or retried, because nothing takes these changes back. The properties of `calls` hold while
the session runs: the ends that `timeout` shows are ends in this model too.

The models stop when the code returns or throws, hence `CHECK_DEADLOCK FALSE`;
that they do not stop before is what `CallEnds`, `Terminates`, `SessionEnds` and `AllEnd` say.

## 5. Fairness

* `RunAll`: weak fairness of the futures' steps and of the caller's. A thread
  that can run is scheduled; a task is assumed to return or throw (requests have
  a CPU timer, the other tasks are loops over finite lists).
* `RequestScheduler`: weak fairness of each worker and of the main thread, which
  is no more than that the operating system schedules runnable threads and that an
  execution ends. A worker that waits on the condition variable is not runnable: it
  is woken by a notification only. `SpuriousWake` is possible and has no fairness,
  so termination never rests on it.
* `ClusterProduct` is sequential: weak fairness of `Next`.
* `ExecutorCalls`: weak fairness of `Machine` (the steps of the executor's own code)
  and of `Timer`. Nothing makes an application take a step: `SessionEnds` rests on
  the timers, which count the CPU time of a thread, so that a thread that runs for
  ever is stopped. That is why `Interruptible` matters: a timer whose signal is held
  back does not end anything.
* `ParallelHeap`: weak fairness of the verification and of each request's steps; a
  call that fails for its own reason does so without fairness.
* `HeapVersions` and `PageCache` have safety properties only, and no fairness.

## 6. Proofs

All are theorems about `Spec` for every value of the constants, under the
assumptions named in the modules (finite sizes, contents of the right type).

* `RunAll_proofs`: slices are disjoint for all counts; `CoverageCriterion`: when
  there are at least as many tasks as workers, everything is covered exactly when
  `tasks % workers <= tasks \div workers`; few tasks are always covered. Then `RunAllTypes`, `TasksRunOnce`, `ReturnCovers`, `NothingOutlivesCall`.
  That no task runs twice is not inductive by itself. `RunAllInv` adds how often a task has
  run: once if a future has passed it (its loop variable is beyond the task, or
  stopped at it by an exception), else never; with `SlicesDisjoint` the task at a
  loop variable has not been run by anyone.
* `RequestScheduler_proofs`: `TypeCorrect`, `CountersMatchWorkers`,
  `CrashOnlyAtDroppedEdge`, `ExecutesOnce`, `ProducersAreCounted` and `NullMeansTheEnd` have
  no hypothesis: they hold on every digraph, with failures, exceptions and requests that
  `runAll` has left out. `ExecutionRespectsOrder` assumes `NoDroppedEdge`, that no request
  that is left out has successors: without it a successor never hears of its predecessor
  and runs too early. `NeverCrashes` assumes `SlicesCover`, that no request is left
  out, which `CoverageCriterion` decides from the two counts. The
  inductive invariant `OrderInv` relates every counter to where the workers are:
  unless an edge was dropped (`CountsMatch`), the in-degree of a node is the number of its
  predecessors that have not yet decremented it (`InDegreeCounts`), a request that is queued or held has
  in-degree zero (`DispatchedAtZero`), and it is in one place only, in the queue
  once or with one worker (`OnePlace`). Without the last, two workers that
  decrement the same node to zero could queue it twice; without the first, zero
  would not mean that the predecessors have been executed. `graphs` checks
  `OrderInv` on a small instance. `NullMeansTheEnd` needs one more count,
  `RemainingCounts`: the nodes that are left, and the workers that have reset one and not counted
  it down yet.
* `RequestScheduler_proofs`, second part: `VerdictDependsOnGraph` and `ImplementsExecutionOrder`, when nothing
  but the graph can make the call throw (`NoFailures`) and no edge is dropped. `VerdictInv`
  says that only requests of `Runnable`, the least set that is closed under execution, are
  ever queued. A worker that finds the queue without content and without producers
  while requests remain has proved that the ones left wait for each other, and so
  `Runnable` is not everything. Every step is a step of `ExecutionOrder` or a stutter, whether the
  call returns or throws.
* `OrderedMaps_proofs`: `FindIsExact`, that the bisection finds a key exactly when it is
  there, for ascending keys of any number. The loop is a recursive function on ranges. The
  closed form `Found` satisfies its equation, and of two functions that do, and that differ
  somewhere, there would be a least range on which they differ; both halves are shorter.
  `MergingSorts` and `MergeAllSorts` are about the merge of two maps and of all by halves: the
  result is the sorted list (`SortedList`, the element with n others below it in place n) of
  all that was given. `MergeInsertSorts` is about the loop of `mergeInsert`, which works in
  place: for any two lists nothing is lost and nothing made up, if both are sorted so is the
  result, and no element is in it more often than it was given. `Inserted` says what the loop
  makes of any vector it has reached. It holds after a round if it holds of the round's result
  (`MoveInserts`, `CopyInserts`): the place that is written is behind what is left of
  both lists. `LoopsInsert` takes a vector on which it fails with the least left to do.
* `ClusterProduct_proofs`: for any number of requests and blocks. `SortedAheadAlways` needs no
  hypothesis; it starts from `MergeAllSorts`, and `ListInv` carries it through `Shift`.
  `OnlyCollisionsChecked` and `RejectionHasCause` rest on `ListGood`: the
  requests that a block stands for, its own and those it has absorbed, collide with each
  other if the cluster is writable, and with all those of any other block that clashes with
  it. That survives a merge without a split, because every block that meets the absorber
  then meets the block it has absorbed, and a split, because the front meets nothing else
  and the remainder forgets what was absorbed. Both theorems assume `NarrowSizes`: where two
  requests resize a chunk, or read its size, none of their size blocks reaches beyond offset
  0 if the size is taken for a width, as `RequestScheduler.h:206` does (section 7).
  `PairwiseIsExact` assumes `ShrinksWithinBounds`, which `ChunkIndex.cpp:87` should have
  ensured. `MCClusterProduct` checks that the inputs of its runs have both.
  `VerificationIsSound` is the converse of these, and the hardest: an accepted dag has a path
  between every two requests that collide. It assumes both hypotheses, and `~Crowded` is in the
  property, because `lost` (section 7) shows it false otherwise. What makes it
  inductive is `NothingForgotten`: as the list is visited, every two
  blocks that clash are `Linked` or `Pending`. They are linked if every
  set that holds with a request those that come after it, by the edges that were checked and
  by the paths of the cliques still to be finalized, holds one with the other (`Closed`). They
  are pending if pieces of both are still ahead and clash, or if a cluster that took one
  in is still to meet the other. A block that leaves the list has been compared with
  everything it clashes with up to its absorber; what is behind, the absorber meets in its stead
  (`Passed`). The front of a split keeps the members and the remainder forgets them, so
  `PiecesInv` is needed too: unless `Crowded`, a block is split at most
  once, before it has taken in anything that goes on behind the cut. `ForgetInv` is
  that, and `ResizedInv` the same for `findResizingCollisions`. When the list is done nothing
  is pending, and `FollowedIsReached` turns the closed sets into paths of the dag.
* `ExecutorCalls_proofs`, first part: the stack of contexts. A step of a running request is one of the
  `Moves`: a context is pushed, popped, cut off with those above it, or changes its place in
  the code, and what happens to locks, masks and handlers is said with it. The invariants are
  then preserved move by move: `Shape` (a frame below another waits for a call or makes
  its deferred ones), `Handlers` (a handler for every call that is not deferred, and the
  depth counts them), `Locks` (each lock has one holder, which runs or waits), `Masks` (a
  thread below the running one is masked, and the running one exactly in guarded
  functions).
* `ExecutorCalls_proofs`, second part: `ExecutorTypeCorrect`, `DepthIsCounted`, `LocksAreHeld`,
  `HeapFollowsContext`, `GasIsBounded`, `FailedCallsLeaveNothing`, `CodeIsInterruptible`,
  `MessagesAcceptedOnce`, `CallsKeepToTheList`, all without hypotheses but those on the
  constants. Beyond the stack, `GasInv` bounds, level by level down the stack,
  what was granted below a handler by three times what it has forwarded of its external
  gas. That is at most two thirds of the gas it got itself, so when a call is joined its
  bound and its own gas are within what its caller has forwarded three times over. `TraceInv` says that ids
  ascend along the stack, that along a version list the marks of stores only grow
  (`SetsGrow`), and that the version a call has saved shows marks of older calls only. So
  when a call fails and its version is current again, its id and those of its callees cannot be
  seen. What is left in the lists is above the current number; it is dropped by the next
  load or store of the block, or `saveVersion` makes its number current. That one step is
  excluded by the property, and every other one shows no more of failed calls than before. `AuthInv` says that what was
  accepted is used up, by a message that is marked or a nonce that has moved on: as seen
  now, and as seen by every saved version of a call that is younger than the acceptance. A
  failure that goes back further takes the acceptance and the nonce back together. Along a
  list the nonces only grow (`NumbersGrow`), so an entry that is revived never gives a nonce
  out again. `ListInv` says that whatever runs, waits or finishes was found in
  the table by `checkApp`, whose search is exact by `FindIsExact`.
* `ParallelHeap_proofs`: `RunningNeverCollide` and `OutdatedSizesAreHarmless`, which compose
  verification and execution. `Verifies` maps the steps of `ParallelHeap` to those of
  `ClusterProduct` or stutters, so that `VerificationIsSound` applies: an accepted dag has a
  path between requests that collide. `InOrder` says that a request begins after its
  predecessors in the dag have ended, and then two ends of a path never run together
  (`NotReached`). What a request has read of the chunk's size is outdated only when another
  that runs beside it writes the size, and does not collide with it: the new size lies
  `Between` the old one and the declared bound, at or above the proposed lower bound
  (`Floor`), and no block of the first ends or begins in between (`ApartFromSize`). The
  hypotheses are those of `VerificationIsSound`; the run has two expanders in one
  block too, which `NarrowSizes` excludes.
* `HeapVersions_proofs`: `AssertionsHold`, `SizesStayInBounds`,
  `CallsImplementTransactions`. `VersionInv` says that list entries have
  numbers `saveVersion` has given out and sizes within the bounds, and that the
  numbers the calls hold ascend and are below the current one. Then dropping the
  versions above the current one changes nothing that the open calls will see, and
  a write under the current number changes nothing that was saved. Together with
  `WithLast`, which replaces or appends the entry of the current number, each
  action is the transaction's of the same name. Steps that make an old number
  current again (`Revives`) are the exception the property states.
* `PageCache_proofs`: `CacheInvariant`, `OwnershipIsKept`, `WritableIsByList`, `TailsAreZero`,
  for any pages, blocks, migrations and requests, and a server that answers any bytes;
  `CleanPagesFollowTheChain`, with one whose answers are deltas.
  The loops over ids, blocks and chunks are functions of the number of rounds. `RunExists`
  says that such a function exists and satisfies its equation, `RunStays` that it never
  leaves a set its body does not leave. So a chunk stays `Sound` (its bytes are bytes, its
  size is at most its capacity), and every page keeps chunks that exist, also if a delta
  throws in the middle. `IInv` says this of all pages (`Cached`), that the pages of the
  lists are in the cache once they were asked for (`Listed`), that the index leads to
  chunks that exist (`Indices`), and `Owned`: two migrants with one chunk are one migrant,
  or the chunk is native to some page. A new migrant gets a new chunk; one that is moved
  leaves its place, and the later ones come down by one. `SingleOwner` follows, and
  `WritableByList` is part of `IInv`: `BuildIndex` sets the flags after both lists are
  prepared (`Listed`), and nothing changes a flag or a page from then to the last request.
  `TailsAreZero` has no hypothesis: `TidyBut` says that there are zeros behind the sizes of
  all chunks but the `torn` ones, and `DeltaOnPage` that a delta leaves tidy chunks tidy if
  it does not throw, and chunks of other pages as they are if it does.
  `CleanPagesFollowTheChain` assumes `ServerIsRight`: an answer is empty only if the page did
  not change, and any other is a delta (`IsDelta`), which makes a page the next one without
  throwing wherever the page is in the cache, with chunks of its own and zeros behind their
  sizes. This is what the digest at `Page.cpp:52` confirms; of the run's server,
  `ServerAnswersDeltas` of `MCPageCache` checks it on the pages of its chains, in some places
  in the cache. What remains to be shown is that pages meet these conditions and keep what
  they say. `FollowInv`: a clean page is alone with its chunks (`Alone`), there are zeros
  behind them (`Neat`), and it says what the chain's page of its version says
  (`CleanFollow`); no version is ahead of the previous block (`Dated`); and once it was
  their turn, the pages that are read have not changed since their versions (`Refreshed`).
  An update may touch only chunks of its page and new ones, a migration only those of two
  pages that are clean no more, a request only one whose pages are clean no more.

Only model-checked:

* all liveness (`CallEnds`, `Terminates`, `SessionEnds`, `AllEnd`): out of reach of TLAPS;
* `Serializable` of `ParallelHeap` and `WrittenBack` of `HeapVersions`: both speak of numbers
  added digit by digit over bytes and of sums over sets of requests, which are inductions
  over data. The half of `Serializable` that is about order is proved: requests that
  collide never run together (`RunningNeverCollide`);
* that a server like `PageServer` is right for all pages (`ServerIsRight`): decoding is then
  the inverse of encoding, an induction over the bytes of a delta.

## 7. Findings

Each is a run that TLC finds violated, with the doc, comment or test it contradicts
quoted in `PROJECT.json`.

| run | code | what happens |
|---|---|---|
| `hang` | `RequestScheduler.cpp:42` | `submitResult` throws before `removeProducer`, the other workers wait for ever and the block is never rejected |
| `lost` | `RequestScheduler.h:230` | the remainder of a split block starts a cluster without the members it had absorbed; a collision goes unnoticed |
| `revived` | `RestrictedModifier.cpp:43` | what a failed call stored can come back when the next call gets its version number |
| `timeout` | `Executor.cpp:100` | a timer that expires around a guarded function ends the process, and one that expires after the context is left jumps into another thread's stack |

Seen while modelling and without a run of their own:

* `RequestProcessor.hpp:119`: with a remainder greater than the quotient the last
  tasks are never run (`CoverageCriterion`): requests are not finalized, chunks are not
  verified. With 7 requests on 4 workers request 5 then has no effect on request 6.
* `RequestScheduler.h:206` takes the new size of an expander for a width: two expanders that
  write cannot be in one block. `ChunkIndex.cpp:87` compares the bound of a shrink after
  the sign was dropped, so it only holds back a shrink to zero.
* `RequestScheduler.cpp:41`: `status > 400` lets a fee payment that ended in 400 pass.
  `RequestScheduler.h:146` throws `std::invalid_argument`, not `BlockError`.
* `RestrictedModifier.cpp:64`: `loadContext` leaves a null pointer for an application without
  declared chunks, which the verification of signatures follows. What
  `VirtualSignatureManager::sign` throws is no `Executor::Error` and leaves the thread.
* `BlockValidator.cpp:68`: the application index is made without a loader, and
  `prepareApps` is called by nothing.
* `Chunk.cpp:108-118`: a delta that throws (`out_of_range`) after a block that lies behind the
  old size leaves that block in the reserved space, and the page in the cache with its old
  version. If the delta asked for next is empty, because the chain's page is that of the old
  version again, a `setSize` that grows the chunk shows these bytes, against `Chunk.cpp:55`
  ("offsets beyond chunkSize must be zero initialised at the start of every execution
  session"). `ZeroBehindSize` leaves these chunks out.
* `PageCache.cpp:66`: a native chunk that is migrated stays with its page too, and the id of
  the page was moved from. `PageCache.cpp:64`: a wrong page index is no `BlockError`. Both
  lists of pages get the same migrations. `PageLoader.h:46` retries on the changed page.
* `auth.cpp:108`: the nonce is picked by the length of the message, not by its spender.
* `Executor.cpp:272`: `saveVersion` may throw after the constructor has changed the gas, the
  depth and the current resources; the destructor does not run (`InvokeWithoutVersion`).
* `Page.cpp:39`: an identifier that starts with the byte 0 cannot be given to an existing migrant:
  it is read as a removal, which is not implemented and throws.

## 8. What is not modelled, and why

* `serialExecuteRequests` is what `Serializable` compares with; it has no module.
* Request streams of `loadRequests`, formatting and parsing: no control state that
  other components depend on. Identifiers that are stored in the heap
  (`loadIdentifier`, `storeIdentifier`) use the codes of `PrefixCodes`.
* `BlockLoader` is a stub, `commit` and `rollback` of the page cache are empty, and the digests
  of pages and responses are stubs.
* Cryptography, `dlopen` and the compiler, POSIX timers, network and files are
  outside; where they matter they are inputs.
* `base64url` is third-party code; floats and string buffers are computed without state.
  (`exact_addf64` in `float.cpp` was read and left out: bits of floating-point numbers are no
  data TLC can enumerate usefully.)
* The sample applications (`apps`), `main` and the signer: no part of validation.
* Weak memory: atomics are sequentially consistent in the code (no explicit
  orders), so interleaving is faithful for them.
