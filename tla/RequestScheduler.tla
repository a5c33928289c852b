--------------------------- MODULE RequestScheduler ---------------------------
(***************************************************************************)
(* Parallel execution of a block's requests: RequestScheduler, its queue   *)
(* (util::BlockingQueue) and the worker threads of                         *)
(* RequestProcessor::parallelExecuteRequests, from the moment all requests *)
(* were added until the call returns or throws.                            *)
(*                                                                         *)
(* Every critical section of the queue's mutex is one step, and so is      *)
(* every access to an atomic; a notification is a step of its own because  *)
(* the code unlocks before it notifies.                                    *)
(***************************************************************************)
EXTENDS Integers, Sequences, FiniteSets, Slices

CONSTANTS NumRequests,       \* totalRequestCount
          WorkersCount,      \* workersCount
          Graphs,            \* the adjacency lists the block may declare
          PayerSets,         \* the sets of requests that may have attachments
          StatusCodes,       \* what an execution may return
          ExecutorMayThrow,  \* whether executeOne may throw
          LaunchPolicies     \* how std::async may launch a worker

Request == 0 .. NumRequests - 1
Worker == 0 .. WorkersCount - 1
NoRequest == -1
NoResponse == -1

ASSUME SchedulerAssumption ==
    /\ NumRequests \in Nat
    /\ WorkersCount \in Nat \ {0}
    /\ Graphs \subseteq [Request -> SUBSET Request]
    /\ PayerSets \subseteq SUBSET Request
    /\ StatusCodes \subseteq Nat
    /\ ExecutorMayThrow \in BOOLEAN
    /\ LaunchPolicies \subseteq {"async", "deferred"}

VARIABLES
    adj,            \* adjList of every DagNode
    payers,         \* the requests with a non-empty attachments list
    nodeIndex,      \* live, or freed once the unique_ptr was reset
    inDegree,       \* inDegree of every DagNode
    finalized,      \* the requests finalizeRequest was called for
    remaining,      \* RequestScheduler::remaining
    content,        \* BlockingQueue::content, by request id
    producerCount,  \* BlockingQueue::producerCount
    pc,             \* where every worker is
    cur,            \* the request a worker holds
    todo,           \* the adjacent nodes submitResult has still to visit
    ready,          \* the node submitResult is about to enqueue
    response,       \* responseList: the status code of every request
    main,           \* where the thread that called the processor is
    joined,         \* the future it get()s next
    crashed         \* an assertion failed or a reset node was used

graphVars == <<adj, payers>>
dagVars == <<nodeIndex, inDegree, finalized>>
queueVars == <<content, producerCount>>
workerVars == <<pc, cur, todo, ready>>
mainVars == <<main, joined>>
vars == <<graphVars, dagVars, remaining, queueVars, workerVars, response,
          mainVars, crashed>>
-----------------------------------------------------------------------------
\* After the first runAll of loadRequests: every request was added by addRequest.
Init ==
    /\ adj \in Graphs
    /\ payers \in PayerSets
    /\ nodeIndex = [r \in Request |-> "live"]
    /\ inDegree = [r \in Request |-> 0]
    /\ finalized = {}
    /\ remaining = NumRequests
    /\ content = << >>
    /\ producerCount = 0
    /\ pc = [w \in Worker |-> "unborn"]
    /\ cur = [w \in Worker |-> NoRequest]
    /\ todo = [w \in Worker |-> {}]
    /\ ready = [w \in Worker |-> NoRequest]
    /\ response = [r \in Request |-> NoResponse]
    /\ main = "finalize"
    /\ joined = 0
    /\ crashed = FALSE

Goto(w, label) == pc' = [pc EXCEPT ![w] = label]
-----------------------------------------------------------------------------
(* The calling thread *)

\* finalizeRequest, called by some future of the second runAll.  The increments
\* are atomic and nobody reads them before runAll has returned.
FinalizeRequest(id) ==
    /\ main = "finalize"
    /\ id \in Covered(NumRequests, WorkersCount) \ finalized
    /\ finalized' = finalized \cup {id}
    /\ inDegree' = [r \in Request |-> IF r \in adj[id] THEN inDegree[r] + 1
                                                       ELSE inDegree[r]]
    /\ UNCHANGED <<graphVars, nodeIndex, remaining, queueVars, workerVars,
                   response, mainVars, crashed>>

\* Every slice has ended and runAll returns.
FinalizeEnds ==
    /\ main = "finalize"
    /\ finalized = Covered(NumRequests, WorkersCount)
    /\ main' = "build"
    /\ UNCHANGED <<graphVars, dagVars, remaining, queueVars, workerVars,
                   response, joined, crashed>>

\* Only the first node is looked at.
FirstNodeOnly(k) == k = IF NumRequests > 0 /\ inDegree[0] = 0 THEN 1 ELSE 0

\* The loop of buildExecDag stops at the first id whose in-degree is not zero.
IsSourceCount(k) ==
    /\ \A r \in Request : r < k => inDegree[r] = 0
    /\ k \in Request => inDegree[k] # 0

\* buildExecDag, before any worker exists.
BuildExecDag ==
    /\ main = "build"
    /\ \E k \in 0 .. NumRequests :
          /\ IsSourceCount(k)
          /\ content' = [i \in 1 .. k |-> i - 1]
          /\ main' = IF k = 0 THEN "threw" ELSE "spawn"
    /\ UNCHANGED <<graphVars, dagVars, remaining, producerCount, workerVars,
                   response, joined, crashed>>

\* The loop of std::async: the default policy lets the library run a worker in
\* a new thread, or in the caller when it is joined.
SpawnWorkers ==
    /\ main = "spawn"
    /\ \E policy \in [Worker -> LaunchPolicies] :
          pc' = [w \in Worker |-> IF policy[w] = "async" THEN "dequeue" ELSE "deferred"]
    /\ main' = "join"
    /\ UNCHANGED <<graphVars, dagVars, remaining, queueVars, cur, todo, ready,
                   response, joined, crashed>>

\* get() on a deferred future runs the worker in the calling thread.
RunDeferred ==
    /\ main = "join" /\ joined \in Worker
    /\ pc[joined] = "deferred"
    /\ Goto(joined, "dequeue")
    /\ UNCHANGED <<graphVars, dagVars, remaining, queueVars, cur, todo, ready,
                   response, mainVars, crashed>>

\* get() on the next future: returns, or rethrows what the worker threw.
Join ==
    /\ main = "join" /\ joined \in Worker
    /\ \/ /\ pc[joined] = "done"
          /\ joined' = joined + 1
          /\ UNCHANGED main
       \/ /\ pc[joined] = "threw"
          /\ main' = "unwind"
          /\ UNCHANGED joined
    /\ UNCHANGED <<graphVars, dagVars, remaining, queueVars, workerVars,
                   response, crashed>>

Ended == {"done", "threw"}

\* pendingTasks is destroyed: futures of threads block, deferred ones never run.
Unwind ==
    /\ main = "unwind"
    /\ \A w \in Worker : pc[w] \in Ended \cup {"deferred"}
    /\ main' = "threw"
    /\ UNCHANGED <<graphVars, dagVars, remaining, queueVars, workerVars,
                   response, joined, crashed>>

ReturnResponses ==
    /\ main = "join" /\ joined \notin Worker
    /\ main' = "returned"
    /\ UNCHANGED <<graphVars, dagVars, remaining, queueVars, workerVars,
                   response, joined, crashed>>

MainStep ==
    \/ \E id \in Request : FinalizeRequest(id)
    \/ FinalizeEnds
    \/ BuildExecDag
    \/ SpawnWorkers
    \/ RunDeferred
    \/ Join
    \/ Unwind
    \/ ReturnResponses
-----------------------------------------------------------------------------
(* The workers: RequestScheduler::nextRequest *)

\* The increment of producerCount is forgotten.
DequeueNoProducer(w) ==
    /\ pc[w] = "dequeue"
    /\ content # << >>
    /\ cur' = [cur EXCEPT ![w] = Head(content)]
    /\ content' = Tail(content)
    /\ Goto(w, "execute")
    /\ UNCHANGED <<graphVars, dagVars, remaining, producerCount, todo, ready,
                   response, mainVars, crashed>>

\* The item is read but not popped.
DequeueNoPop(w) ==
    /\ pc[w] = "dequeue"
    /\ content # << >>
    /\ cur' = [cur EXCEPT ![w] = Head(content)]
    /\ producerCount' = producerCount + 1
    /\ Goto(w, "execute")
    /\ UNCHANGED <<graphVars, dagVars, remaining, content, todo, ready,
                   response, mainVars, crashed>>

\* blockingDequeue(true) finds an item: the worker becomes a producer under the
\* same lock that pops the item.
Dequeue(w) ==
    /\ pc[w] = "dequeue"
    /\ content # << >>
    /\ cur' = [cur EXCEPT ![w] = Head(content)]
    /\ content' = Tail(content)
    /\ producerCount' = producerCount + 1
    /\ Goto(w, "execute")
    /\ UNCHANGED <<graphVars, dagVars, remaining, todo, ready, response,
                   mainVars, crashed>>

\* The predicate does not hold: the worker joins the waiters of cv.
DequeueWaits(w) ==
    /\ pc[w] = "dequeue"
    /\ content = << >> /\ producerCount > 0
    /\ Goto(w, "waiting")
    /\ UNCHANGED <<graphVars, dagVars, remaining, queueVars, cur, todo, ready,
                   response, mainVars, crashed>>

\* A waiter may wake up without a notification; it tests the predicate again.
SpuriousWake(w) ==
    /\ pc[w] = "waiting"
    /\ Goto(w, "dequeue")
    /\ UNCHANGED <<graphVars, dagVars, remaining, queueVars, cur, todo, ready,
                   response, mainVars, crashed>>

\* Empty and without producers: std::underflow_error.
DequeueUnderflows(w) ==
    /\ pc[w] = "dequeue"
    /\ content = << >> /\ producerCount <= 0
    /\ Goto(w, "underflow")
    /\ UNCHANGED <<graphVars, dagVars, remaining, queueVars, cur, todo, ready,
                   response, mainVars, crashed>>

\* The underflow always means the end.
NoRequestLeftUnchecked(w) ==
    /\ pc[w] = "underflow"
    /\ Goto(w, "done")
    /\ UNCHANGED <<graphVars, dagVars, remaining, queueVars, cur, todo, ready,
                   response, mainVars, crashed>>

\* The catch block of nextRequest, outside the lock: nullptr, or BlockError
\* "execution graph is not a dag".
NoRequestLeft(w) ==
    /\ pc[w] = "underflow"
    /\ Goto(w, IF remaining # 0 THEN "threw" ELSE "done")
    /\ UNCHANGED <<graphVars, dagVars, remaining, queueVars, cur, todo, ready,
                   response, mainVars, crashed>>
-----------------------------------------------------------------------------
(* The workers: executeOne and RequestScheduler::submitResult *)

\* responseList[request->id] = executor.executeOne(request)
Execute(w) ==
    /\ pc[w] = "execute"
    /\ \E code \in StatusCodes : response' = [response EXCEPT ![cur[w]] = code]
    /\ Goto(w, "submit")
    /\ UNCHANGED <<graphVars, dagVars, remaining, queueVars, cur, todo, ready,
                   mainVars, crashed>>

\* executeOne throws: the worker's loop is left and its future keeps the exception.
ExecuteThrows(w) ==
    /\ ExecutorMayThrow
    /\ pc[w] = "execute"
    /\ Goto(w, "threw")
    /\ UNCHANGED <<graphVars, dagVars, remaining, queueVars, cur, todo, ready,
                   response, mainVars, crashed>>

FailedFeePayment(r) == response[r] > 400 /\ r \in payers

\* submitResult is entered with an acceptable status code.
Submit(w) ==
    /\ pc[w] = "submit"
    /\ ~FailedFeePayment(cur[w])
    /\ todo' = [todo EXCEPT ![w] = adj[cur[w]]]
    /\ Goto(w, "release")
    /\ UNCHANGED <<graphVars, dagVars, remaining, queueVars, cur, ready,
                   response, mainVars, crashed>>

\* BlockError "block contains a failed fee payment": nothing is released, and
\* removeProducer is not reached.
SubmitThrows(w) ==
    /\ pc[w] = "submit"
    /\ FailedFeePayment(cur[w])
    /\ Goto(w, "threw")
    /\ UNCHANGED <<graphVars, dagVars, remaining, queueVars, cur, todo, ready,
                   response, mainVars, crashed>>

\* The node is enqueued one predecessor too early.
DecrementTooEarly(w) ==
    /\ pc[w] = "release"
    /\ \E a \in todo[w] :
          /\ nodeIndex[a] = "live" /\ inDegree[a] > 0
          /\ inDegree' = [inDegree EXCEPT ![a] = @ - 1]
          /\ todo' = [todo EXCEPT ![w] = @ \ {a}]
          /\ IF inDegree[a] - 1 <= 1
             THEN ready' = [ready EXCEPT ![w] = a] /\ Goto(w, "enqueue")
             ELSE UNCHANGED <<ready, pc>>
    /\ UNCHANGED <<graphVars, nodeIndex, finalized, remaining, queueVars, cur,
                   response, mainVars, crashed>>

\* One turn of the loop over the adjacent nodes, which are visited in the order
\* of an unordered_set: the decrement that reaches zero makes the node ready.
Decrement(w) ==
    /\ pc[w] = "release"
    /\ \E a \in todo[w] :
          /\ nodeIndex[a] = "live" /\ inDegree[a] > 0
          /\ inDegree' = [inDegree EXCEPT ![a] = @ - 1]
          /\ todo' = [todo EXCEPT ![w] = @ \ {a}]
          /\ IF inDegree[a] - 1 = 0
             THEN ready' = [ready EXCEPT ![w] = a] /\ Goto(w, "enqueue")
             ELSE UNCHANGED <<ready, pc>>
    /\ UNCHANGED <<graphVars, nodeIndex, finalized, remaining, queueVars, cur,
                   response, mainVars, crashed>>

\* The adjacent node was reset, or assert(inDegree > 0) fails: the process ends.
DecrementCrashes(w) ==
    /\ pc[w] = "release"
    /\ \E a \in todo[w] : ~(nodeIndex[a] = "live" /\ inDegree[a] > 0)
    /\ crashed' = TRUE
    /\ UNCHANGED <<graphVars, dagVars, remaining, queueVars, workerVars,
                   response, mainVars>>

\* The slot of the ready node is cleared before it is used.
EnqueueCleared(w) ==
    /\ pc[w] = "enqueue"
    /\ content' = Append(content, NoRequest)
    /\ ready' = [ready EXCEPT ![w] = NoRequest]
    /\ Goto(w, "notify")
    /\ UNCHANGED <<graphVars, dagVars, remaining, producerCount, cur, todo,
                   response, mainVars, crashed>>

\* The critical section of enqueue.
Enqueue(w) ==
    /\ pc[w] = "enqueue"
    /\ content' = Append(content, ready[w])
    /\ ready' = [ready EXCEPT ![w] = NoRequest]
    /\ Goto(w, "notify")
    /\ UNCHANGED <<graphVars, dagVars, remaining, producerCount, cur, todo,
                   response, mainVars, crashed>>

Waiting == {w \in Worker : pc[w] = "waiting"}

\* notify_one: some waiter, if there is one, leaves the wait.
NotifyOne(w) ==
    /\ pc[w] = "notify"
    /\ \/ \E v \in Waiting : pc' = [pc EXCEPT ![w] = "release", ![v] = "dequeue"]
       \/ Waiting = {} /\ Goto(w, "release")
    /\ UNCHANGED <<graphVars, dagVars, remaining, queueVars, cur, todo, ready,
                   response, mainVars, crashed>>

\* reqNode.reset()
ResetNode(w) ==
    /\ pc[w] = "release" /\ todo[w] = {}
    /\ nodeIndex' = [nodeIndex EXCEPT ![cur[w]] = "freed"]
    /\ Goto(w, "countDown")
    /\ UNCHANGED <<graphVars, inDegree, finalized, remaining, queueVars, cur,
                   todo, ready, response, mainVars, crashed>>

\* --remaining
CountDown(w) ==
    /\ pc[w] = "countDown"
    /\ remaining' = remaining - 1
    /\ Goto(w, "retire")
    /\ UNCHANGED <<graphVars, dagVars, queueVars, cur, todo, ready, response,
                   mainVars, crashed>>

\* The last producer leaves without waking the waiters.
RemoveProducerSilent(w) ==
    /\ pc[w] = "retire"
    /\ producerCount' = producerCount - 1
    /\ cur' = [cur EXCEPT ![w] = NoRequest]
    /\ Goto(w, "dequeue")
    /\ UNCHANGED <<graphVars, dagVars, remaining, content, todo, ready,
                   response, mainVars, crashed>>

\* The critical section of removeProducer.
RemoveProducer(w) ==
    /\ pc[w] = "retire"
    /\ producerCount' = producerCount - 1
    /\ cur' = [cur EXCEPT ![w] = NoRequest]
    /\ Goto(w, IF producerCount - 1 = 0 THEN "notifyAll" ELSE "dequeue")
    /\ UNCHANGED <<graphVars, dagVars, remaining, content, todo, ready,
                   response, mainVars, crashed>>

\* notify_all: every waiter leaves the wait.
NotifyAll(w) ==
    /\ pc[w] = "notifyAll"
    /\ pc' = [v \in Worker |-> IF v = w \/ pc[v] = "waiting" THEN "dequeue" ELSE pc[v]]
    /\ UNCHANGED <<graphVars, dagVars, remaining, queueVars, cur, todo, ready,
                   response, mainVars, crashed>>

\* What a running worker does next; a waiter depends on the others.
WorkerStep(w) ==
    \/ Dequeue(w) \/ DequeueWaits(w) \/ DequeueUnderflows(w) \/ NoRequestLeft(w)
    \/ Execute(w) \/ ExecuteThrows(w)
    \/ Submit(w) \/ SubmitThrows(w)
    \/ Decrement(w) \/ DecrementCrashes(w)
    \/ Enqueue(w) \/ NotifyOne(w)
    \/ ResetNode(w) \/ CountDown(w) \/ RemoveProducer(w) \/ NotifyAll(w)

Next ==
    /\ ~crashed
    /\ \/ MainStep
       \/ \E w \in Worker : WorkerStep(w) \/ SpuriousWake(w)

Spec == Init /\ [][Next]_vars

\* The operating system runs every thread that can run, executeOne ends because
\* every application is timed out; nothing promises a spurious wake-up.
Fairness ==
    /\ WF_vars(~crashed /\ MainStep)
    /\ \A w \in Worker : WF_vars(~crashed /\ WorkerStep(w))

FairSpec == Spec /\ Fairness
-----------------------------------------------------------------------------
(* Properties *)

Producing == {"execute", "submit", "release", "enqueue", "notify", "countDown", "retire"}
Labels == Producing \cup Ended \cup
          {"unborn", "deferred", "dequeue", "waiting", "underflow", "notifyAll"}

\* Types of the state.
TypeOK ==
    /\ adj \in [Request -> SUBSET Request]
    /\ payers \subseteq Request
    /\ nodeIndex \in [Request -> {"live", "freed"}]
    /\ inDegree \in [Request -> Nat]
    /\ finalized \subseteq Request
    /\ remaining \in Int
    /\ content \in Seq(Request)
    /\ producerCount \in Int
    /\ pc \in [Worker -> Labels]
    /\ cur \in [Worker -> Request \cup {NoRequest}]
    /\ todo \in [Worker -> SUBSET Request]
    /\ ready \in [Worker -> Request \cup {NoRequest}]
    /\ response \in [Request -> Nat \cup {NoResponse}]
    /\ main \in {"finalize", "build", "spawn", "join", "unwind", "returned", "threw"}
    /\ joined \in 0 .. WorkersCount
    /\ crashed \in BOOLEAN

\* A request is executed only after every request it depends on has been
\* executed and its response stored (the reason the execution dag exists).
PredecessorsFirst ==
    \A w \in Worker : pc[w] = "execute" =>
        \A p \in Request : cur[w] \in adj[p] => response[p] # NoResponse

\* assert(inDegree > 0) never fails, and no node is used after submitResult has
\* reset it, whatever the graph is.
NoCrash == ~crashed

\* The process only ever stops at that assertion or at a reset node when runAll
\* left a finalizeRequest out whose node has successors.
CrashNeedsDroppedEdge ==
    crashed => \E p \in Request \ Covered(NumRequests, WorkersCount) : adj[p] # {}

\* A worker never takes a request that was executed before or that another worker
\* holds: whichever worker releases it and however wake-ups are spread, a request
\* is executed at most once.
ExecutedOnce ==
    [][\A w \in Worker : pc[w] # "execute" /\ pc'[w] = "execute" =>
           /\ response[cur'[w]] = NoResponse
           /\ \A v \in Worker : cur[v] # cur'[w]]_vars

\* producerCount is the number of workers between blockingDequeue and
\* removeProducer, so it is zero exactly when nobody can enqueue any more.
ProducersCounted ==
    producerCount = Cardinality({w \in Worker : cur[w] # NoRequest})

\* A worker that leaves by nullptr leaves nothing behind: all requests were
\* executed and all nodes freed (remaining is read after the lock was released).
NullMeansAllExecuted ==
    \A w \in Worker : pc[w] = "done" =>
        \A r \in Request : nodeIndex[r] = "freed" /\ response[r] # NoResponse

Predecessors(r) == {p \in Request : r \in adj[p]}

\* The ids buildExecDag enqueues in a given graph.
IsInitialSource(r) == \A q \in 0 .. r : Predecessors(q) = {}

\* The requests that execution can reach from those: the least closed set.
Runnable ==
    {r \in Request :
        \A S \in SUBSET Request :
            (\A q \in Request :
                (IsInitialSource(q) \/ (Predecessors(q) # {} /\ Predecessors(q) \subseteq S))
                    => q \in S)
            => r \in S}

\* The verdict depends on the graph alone, never on the schedule: the call
\* returns when every request is runnable, and throws BlockError when the graph
\* has a cycle or its sources are not its first ids.
VerdictByGraph ==
    /\ main = "returned" => Runnable = Request
    /\ main = "threw" => Runnable # Request \/ Request = {}

\* The call ends: no wake-up is lost, no worker waits for ever on the others.
Terminates == <>(main \in {"returned", "threw"})

-----------------------------------------------------------------------------
(* The inductive invariant behind PredecessorsFirst, CrashNeedsDroppedEdge and ExecutedOnce *)

Releasing == {"release", "enqueue", "notify"}

\* What a worker's place in the code says of the request it holds.
Held ==
    \A w \in Worker :
        /\ pc[w] \in Producing => cur[w] \in Request
        /\ pc[w] = "enqueue" => ready[w] \in Request

\* Request p has visited r in its adjacency list.
Released(p, r) ==
    \/ nodeIndex[p] = "freed"
    \/ \E w \in Worker : cur[w] = p /\ pc[w] \in Releasing /\ r \notin todo[w]

Unreleased(r) == {p \in finalized : r \in adj[p] /\ ~Released(p, r)}

\* An in-degree counts the predecessors that have still to visit the node.
InDegreeCounts == \A r \in Request : inDegree[r] = Cardinality(Unreleased(r))

Queued(r) == \E i \in 1 .. Len(content) : content[i] = r

\* The places a request can be in once its in-degree has reached zero.
Dispatched(r) ==
    \/ Queued(r)
    \/ \E w \in Worker : cur[w] = r \/ ready[w] = r
    \/ nodeIndex[r] = "freed"

DispatchedAtZero == \A r \in Request : Dispatched(r) => inDegree[r] = 0

\* No request is queued twice, and none that was freed.
QueueOnce ==
    /\ \A i, j \in 1 .. Len(content) : content[i] = content[j] => i = j
    /\ \A i \in 1 .. Len(content) : nodeIndex[content[i]] = "live"

\* What is true of the requests a worker has, according to where it is.
WorkerPlace(w) ==
    /\ ~Queued(cur[w]) /\ ~Queued(ready[w])
    /\ ready[w] \in Request => nodeIndex[ready[w]] = "live" /\ pc[w] = "enqueue"
    /\ cur[w] \in Request =>
          /\ nodeIndex[cur[w]] = "freed" <=> pc[w] \in {"countDown", "retire"}
          /\ pc[w] \in Producing \cup {"threw"}
    /\ pc[w] \in Releasing => todo[w] \subseteq adj[cur[w]]

\* No two workers have the same request.
WorkersApart ==
    \A w, v \in Worker :
        /\ cur[w] = cur[v] /\ cur[w] \in Request => w = v
        /\ ready[w] = ready[v] /\ ready[w] \in Request => w = v
        /\ cur[w] = ready[v] => cur[w] = NoRequest

\* A request is in one of those places only.
OnePlace == QueueOnce /\ (\A w \in Worker : WorkerPlace(w)) /\ WorkersApart

\* A response is there when, and only when, the request is past its execution.
PastExecution(r) ==
    \/ nodeIndex[r] = "freed"
    \/ \E w \in Worker : cur[w] = r /\ pc[w] \in {"submit"} \cup Releasing

ResponseWhenPast ==
    \A r \in Request :
        /\ PastExecution(r) => response[r] # NoResponse
        /\ response[r] # NoResponse =>
              PastExecution(r) \/ \E w \in Worker : cur[w] = r /\ pc[w] = "threw"

\* Nothing is dispatched before buildExecDag, and no worker runs before it.
Phases ==
    /\ main \in {"finalize", "build"} => \A r \in Request : ~Dispatched(r)
    /\ main \in {"finalize", "build"} => content = << >>
    /\ main \in {"finalize", "build", "spawn"} => \A w \in Worker : pc[w] = "unborn"
    /\ main # "finalize" => finalized = Covered(NumRequests, WorkersCount)

\* runAll left no request out that others wait for (CoverageCriterion of RunAll_proofs
\* says when it leaves none out at all).
NoDroppedEdge == \A p \in Request \ Covered(NumRequests, WorkersCount) : adj[p] = {}

CountsMatch == NoDroppedEdge => InDegreeCounts

OrderInv ==
    /\ Held /\ CountsMatch /\ DispatchedAtZero /\ OnePlace
    /\ ResponseWhenPast /\ Phases /\ CrashNeedsDroppedEdge
-----------------------------------------------------------------------------
Executed(r) == response[r] # NoResponse

\* How far every request has come, and what the call has come to.
Stage ==
    [r \in Request |->
        IF Executed(r) THEN "done"
        ELSE IF \E w \in Worker : cur[w] = r THEN "running" ELSE "pending"]
Outcome ==
    CASE main = "returned" -> "returned"
      [] main = "threw" -> "rejected"
      [] OTHER -> "open"

\* The same calls seen as an ExecutionOrder.
Order == INSTANCE ExecutionOrder WITH
    Request <- Request, Graphs <- Graphs, adj <- adj, stage <- Stage, outcome <- Outcome

\* Parallel execution implements the abstract ordering: starts after the
\* predecessors, one run each, a rejection only when nothing runs any more.
ImplementsOrder == Order!Spec
===============================================================================
