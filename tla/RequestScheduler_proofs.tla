----------------------- MODULE RequestScheduler_proofs -----------------------
(***************************************************************************)
(* Parallel execution for any number of requests and workers and any       *)
(* dependency graph: its invariants; which requests are reached and what a *)
(* worker's underflow means; and how the steps are those of the abstract   *)
(* ExecutionOrder.                                                         *)
(***************************************************************************)
EXTENDS RequestScheduler, FiniteSetTheorems, TLAPS

-----------------------------------------------------------------------------
(* Types *)

TypeInv == TypeOK /\ Held

\* Ids are integers, and the markers of their absence are not ids.
LEMMA Ids == /\ Request \subseteq Nat /\ Worker \subseteq Nat
             /\ NoRequest \notin Request /\ NoResponse \notin Nat
BY SchedulerAssumption DEF Request, Worker, NoRequest, NoResponse

LEMMA TypeInit == Init => TypeInv
<1> SUFFICES ASSUME Init  PROVE TypeInv
  OBVIOUS
<1> USE DEF Init, Labels, Producing, Ended
<1>1. adj \in [Request -> SUBSET Request] /\ payers \subseteq Request
  BY SchedulerAssumption
<1>2. remaining \in Int /\ joined \in 0 .. WorkersCount
  BY SchedulerAssumption
<1>3. content \in Seq(Request) /\ producerCount \in Int
  OBVIOUS
<1>4. /\ nodeIndex \in [Request -> {"live", "freed"}]
      /\ inDegree \in [Request -> Nat]
      /\ response \in [Request -> Nat \cup {NoResponse}]
  OBVIOUS
<1>5. /\ pc \in [Worker -> Labels]
      /\ cur \in [Worker -> Request \cup {NoRequest}]
      /\ todo \in [Worker -> SUBSET Request]
      /\ ready \in [Worker -> Request \cup {NoRequest}]
  OBVIOUS
<1>. QED  BY <1>1, <1>2, <1>3, <1>4, <1>5 DEF TypeInv, TypeOK, Held

\* The steps of the calling thread preserve the types.
LEMMA TypeMain ==
    ASSUME TypeInv, MainStep
    PROVE  TypeInv'
<1> USE Ids DEF TypeInv, TypeOK, Held, Labels, Producing, Ended, Goto,
        graphVars, dagVars, queueVars, workerVars, mainVars
<1>1. ASSUME NEW id \in Request, FinalizeRequest(id)
      PROVE  TypeInv'
  <2>1. inDegree' \in [Request -> Nat] /\ finalized' \subseteq Request
    BY <1>1 DEF FinalizeRequest
  <2>. QED  BY <1>1, <2>1 DEF FinalizeRequest
<1>2. CASE FinalizeEnds
  BY <1>2 DEF FinalizeEnds
<1>3. CASE BuildExecDag
  <2>1. PICK k \in 0 .. NumRequests : content' = [i \in 1 .. k |-> i - 1]
                                      /\ main' \in {"threw", "spawn"}
    BY <1>3 DEF BuildExecDag
  <2>2. content' \in Seq(Request)
    BY <2>1, SchedulerAssumption DEF Request
  <2>. QED  BY <1>3, <2>1, <2>2 DEF BuildExecDag
<1>4. CASE SpawnWorkers
  <2>1. pc' \in [Worker -> {"dequeue", "deferred"}]
    BY <1>4 DEF SpawnWorkers
  <2>. QED  BY <1>4, <2>1 DEF SpawnWorkers
<1>5. CASE RunDeferred
  BY <1>5 DEF RunDeferred
<1>6. CASE Join
  <2>1. joined' \in 0 .. WorkersCount
    BY <1>6, SchedulerAssumption DEF Join, Worker
  <2>. QED  BY <1>6, <2>1 DEF Join
<1>7. CASE Unwind
  BY <1>7 DEF Unwind
<1>8. CASE ReturnResponses
  BY <1>8 DEF ReturnResponses
<1>. QED
  BY <1>1, <1>2, <1>3, <1>4, <1>5, <1>6, <1>7, <1>8 DEF MainStep

\* The steps of a worker preserve the types.
LEMMA TypeWorker ==
    ASSUME TypeInv, NEW w \in Worker, WorkerStep(w) \/ SpuriousWake(w)
    PROVE  TypeInv'
<1> USE Ids DEF TypeInv, TypeOK, Held, Labels, Producing, Ended, Goto,
        graphVars, dagVars, queueVars, workerVars, mainVars
<1>1. CASE Dequeue(w)
  <2>1. Head(content) \in Request /\ Tail(content) \in Seq(Request)
    BY <1>1 DEF Dequeue
  <2>2. UNCHANGED <<adj, payers, nodeIndex, inDegree, finalized, remaining, todo, ready,
                    response, main, joined, crashed>>
    BY <1>1 DEF Dequeue
  <2>3. /\ content' \in Seq(Request) /\ producerCount' \in Int
        /\ cur' \in [Worker -> Request \cup {NoRequest}] /\ pc' \in [Worker -> Labels]
    BY <1>1, <2>1 DEF Dequeue
  <2>4. Held'
    BY <1>1, <2>1 DEF Dequeue
  <2>. QED  BY <2>2, <2>3, <2>4
<1>2. CASE DequeueWaits(w)
  BY <1>2 DEF DequeueWaits
<1>3. CASE DequeueUnderflows(w)
  BY <1>3 DEF DequeueUnderflows
<1>4. CASE NoRequestLeft(w)
  BY <1>4 DEF NoRequestLeft
<1>5. CASE Execute(w)
  <2>1. response' \in [Request -> Nat \cup {NoResponse}]
    BY <1>5, SchedulerAssumption DEF Execute
  <2>. QED  BY <1>5, <2>1 DEF Execute
<1>6. CASE ExecuteThrows(w)
  BY <1>6 DEF ExecuteThrows
<1>7. CASE Submit(w)
  BY <1>7 DEF Submit
<1>8. CASE SubmitThrows(w)
  BY <1>8 DEF SubmitThrows
<1>9. CASE Decrement(w)
  <2>1. PICK a \in todo[w] :
           /\ nodeIndex[a] = "live" /\ inDegree[a] > 0
           /\ inDegree' = [inDegree EXCEPT ![a] = @ - 1]
           /\ todo' = [todo EXCEPT ![w] = @ \ {a}]
           /\ IF inDegree[a] - 1 = 0
              THEN ready' = [ready EXCEPT ![w] = a] /\ Goto(w, "enqueue")
              ELSE UNCHANGED <<ready, pc>>
    BY <1>9 DEF Decrement
  <2>2. a \in Request
    OBVIOUS
  <2>3. inDegree' \in [Request -> Nat] /\ todo' \in [Worker -> SUBSET Request]
    BY <2>1, <2>2
  <2>4. /\ UNCHANGED <<adj, payers, nodeIndex, finalized, remaining, content,
                       producerCount, cur, response, main, joined, crashed>>
        /\ pc[w] = "release"
    BY <1>9 DEF Decrement
  <2>5. CASE inDegree[a] - 1 = 0
    <3>1. /\ ready' \in [Worker -> Request \cup {NoRequest}]
          /\ pc' \in [Worker -> Labels]
      BY <2>1, <2>2, <2>5
    <3>2. Held'
      BY <2>1, <2>2, <2>4, <2>5
    <3>. QED  BY <2>3, <2>4, <3>1, <3>2
  <2>6. CASE inDegree[a] - 1 # 0
    BY <2>1, <2>3, <2>4, <2>6
  <2>. QED  BY <2>5, <2>6
<1>10. CASE DecrementCrashes(w)
  BY <1>10 DEF DecrementCrashes
<1>11. CASE Enqueue(w)
  <2>1. content' \in Seq(Request)
    BY <1>11 DEF Enqueue
  <2>. QED  BY <1>11, <2>1 DEF Enqueue
<1>12. CASE NotifyOne(w)
  <2>1. /\ pc' \in [Worker -> Labels]
        /\ \A v \in Worker : pc'[v] = pc[v] \/ pc'[v] \in {"release", "dequeue"}
        /\ pc[w] = "notify"
        /\ \A v \in Worker : pc'[v] = "release" /\ pc[v] # "release" => v = w
    BY <1>12 DEF NotifyOne, Waiting
  <2>2. UNCHANGED <<adj, payers, nodeIndex, inDegree, finalized, remaining, content,
                    producerCount, cur, todo, ready, response, main, joined, crashed>>
    BY <1>12 DEF NotifyOne
  <2>3. Held'
    BY <2>1, <2>2
  <2>. QED  BY <2>1, <2>2, <2>3
<1>13. CASE ResetNode(w)
  BY <1>13 DEF ResetNode
<1>14. CASE CountDown(w)
  BY <1>14 DEF CountDown
<1>15. CASE RemoveProducer(w)
  <2>1. UNCHANGED <<adj, payers, nodeIndex, inDegree, finalized, remaining, content,
                    todo, ready, response, main, joined, crashed>>
    BY <1>15 DEF RemoveProducer
  <2>2. /\ producerCount' \in Int /\ pc' \in [Worker -> Labels]
        /\ cur' \in [Worker -> Request \cup {NoRequest}]
    BY <1>15 DEF RemoveProducer
  <2>3. Held'
    BY <1>15 DEF RemoveProducer
  <2>. QED  BY <2>1, <2>2, <2>3
<1>16. CASE NotifyAll(w)
  BY <1>16 DEF NotifyAll
<1>17. CASE SpuriousWake(w)
  BY <1>17 DEF SpuriousWake
<1>. QED
  BY <1>1, <1>2, <1>3, <1>4, <1>5, <1>6, <1>7, <1>8, <1>9, <1>10, <1>11, <1>12,
     <1>13, <1>14, <1>15, <1>16, <1>17 DEF WorkerStep

LEMMA TypeStutter ==
    ASSUME TypeInv, UNCHANGED vars
    PROVE  TypeInv'
BY DEF TypeInv, TypeOK, Held, vars, graphVars, dagVars, queueVars, workerVars, mainVars

LEMMA TypeInvariant == Spec => []TypeInv
<1>1. TypeInv /\ [Next]_vars => TypeInv'
  BY TypeMain, TypeWorker, TypeStutter DEF Next
<1>. QED  BY <1>1, TypeInit, PTL DEF Spec

\* The state keeps its types in every execution: in particular no in-degree ever
\* drops below zero and every queued id is the id of a request.
THEOREM TypeCorrect == Spec => []TypeOK
<1>1. TypeInv => TypeOK
  BY DEF TypeInv
<1>. QED  BY <1>1, TypeInvariant, PTL

-----------------------------------------------------------------------------
(* The order of execution *)

\* runAll leaves no request out (CoverageCriterion of RunAll_proofs says when).
SlicesCover == Covered(NumRequests, WorkersCount) = Request

\* Sets of requests are finite, so in-degrees count something.
LEMMA RequestsFinite ==
    ASSUME NEW S \in SUBSET Request
    PROVE  IsFiniteSet(S)
<1>1. IsFiniteSet(Request)
  BY FS_Interval, SchedulerAssumption DEF Request
<1>. QED  BY <1>1, FS_Subset

LEMMA OrderInit == Init => OrderInv
<1> SUFFICES ASSUME Init  PROVE OrderInv
  OBVIOUS
<1> USE Ids DEF Init
<1>1. Held
  BY DEF Held, Producing
<1>2. \A r \in Request : ~Dispatched(r)
  BY DEF Dispatched, Queued
<1>3. InDegreeCounts
  <2>1. \A r \in Request : Unreleased(r) = {}
    BY DEF Unreleased
  <2>. QED  BY <2>1, FS_EmptySet DEF InDegreeCounts
<1>4. OnePlace
  BY DEF OnePlace, QueueOnce, WorkerPlace, WorkersApart, Queued, Releasing
<1>5. ResponseWhenPast
  BY DEF ResponseWhenPast, PastExecution, Releasing
<1>6. Phases
  BY <1>2 DEF Phases
<1>. QED
  BY <1>1, <1>2, <1>3, <1>4, <1>5, <1>6 DEF OrderInv, DispatchedAtZero, CountsMatch, CrashNeedsDroppedEdge

\* A step that changes no visit to an adjacent node leaves the counts right.
LEMMA CountsUnchanged ==
    ASSUME TypeOK, CountsMatch,
           UNCHANGED <<adj, finalized, inDegree>>,
           \A p, r \in Request : r \in adj[p] => (Released(p, r)' <=> Released(p, r))
    PROVE  CountsMatch'
<1>1. ASSUME NEW r \in Request
      PROVE  Unreleased(r)' = Unreleased(r)
  BY DEF Unreleased, TypeOK
<1>2. NoDroppedEdge' <=> NoDroppedEdge
  BY DEF NoDroppedEdge
<1>. QED  BY <1>1, <1>2 DEF CountsMatch, InDegreeCounts

\* A dispatched request has no predecessor left to wait for.
LEMMA DispatchedReleased ==
    ASSUME TypeOK, OrderInv, NoDroppedEdge, NEW r \in Request, Dispatched(r)
    PROVE  \A p \in finalized : r \in adj[p] => Released(p, r)
<1>1. Cardinality(Unreleased(r)) = 0
  BY DEF OrderInv, DispatchedAtZero, CountsMatch, InDegreeCounts
<1>2. IsFiniteSet(Unreleased(r))
  BY RequestsFinite DEF Unreleased, TypeOK
<1>3. Unreleased(r) = {}
  BY <1>1, <1>2, FS_EmptySet
<1>. QED  BY <1>3 DEF Unreleased

\* A worker that is not producing has no request, and ready is set in enqueue only.
LEMMA IdleHoldsNothing ==
    ASSUME TypeInv, OrderInv, NEW w \in Worker
    PROVE  /\ pc[w] \notin Producing \cup {"threw"} => cur[w] = NoRequest
           /\ pc[w] # "enqueue" => ready[w] = NoRequest
<1>1. WorkerPlace(w)
  BY DEF OrderInv, OnePlace
<1>. QED  BY <1>1 DEF WorkerPlace, TypeInv, TypeOK

\* Steps that only move workers between places that say nothing new about the
\* requests they hold.
LEMMA OrderPcOnly ==
    ASSUME TypeInv, OrderInv,
           UNCHANGED <<adj, nodeIndex, inDegree, finalized, content, cur, todo,
                       ready, response, crashed>>,
           pc' \in [Worker -> Labels],
           main' # "finalize" => finalized = Covered(NumRequests, WorkersCount),
           main' \in {"finalize", "build"} => main' = main \/ main = "finalize",
           main' = "spawn" => main = "spawn" /\ pc' = pc,
           main \in {"finalize", "build"} => pc' = pc,
           \A w \in Worker :
              \/ pc'[w] = pc[w]
              \/ /\ cur[w] = NoRequest /\ pc[w] # "enqueue"
                 /\ pc'[w] \notin Producing
              \/ pc[w] \in {"execute", "submit"} /\ pc'[w] = "threw"
              \/ pc[w] = "notify" /\ pc'[w] = "release"
              \/ pc[w] = "countDown" /\ pc'[w] = "retire"
    PROVE  OrderInv'
<1> USE Ids
<1>1. Held'
  BY DEF OrderInv, Held, Producing, TypeInv, TypeOK
<1>2. \A r : Dispatched(r)' <=> Dispatched(r)
  BY DEF Dispatched, Queued
<1>3. DispatchedAtZero'
  BY <1>2 DEF OrderInv, DispatchedAtZero
<1>4. OnePlace'
  <2>1. QueueOnce' /\ WorkersApart'
    BY DEF OrderInv, OnePlace, QueueOnce, WorkersApart
  <2>2. ASSUME NEW w \in Worker
        PROVE  WorkerPlace(w)'
    <3>1. WorkerPlace(w)
      BY DEF OrderInv, OnePlace
    <3>2. /\ Queued(cur[w])' <=> Queued(cur[w])
          /\ Queued(ready[w])' <=> Queued(ready[w])
      BY DEF Queued
    <3>. QED
      BY <3>1, <3>2 DEF WorkerPlace, OrderInv, Held, TypeInv, TypeOK, Producing, Releasing
  <2>. QED  BY <2>1, <2>2 DEF OnePlace
<1>5. \A p, r \in Request : Released(p, r)' <=> Released(p, r)
  <2>1. \A w \in Worker : cur[w] \in Request => (pc'[w] \in Releasing <=> pc[w] \in Releasing)
    BY DEF Releasing
  <2>. QED  BY <2>1 DEF Released
<1>6. CountsMatch'
  BY <1>5, CountsUnchanged DEF OrderInv, TypeInv
<1>7. ResponseWhenPast'
  <2> DEFINE Past == {"submit"} \cup Releasing
  <2>1. \A w \in Worker : cur[w] \in Request =>
           /\ pc'[w] \in Past => pc[w] \in Past
           /\ pc[w] \in Past => pc'[w] \in Past \cup {"threw"}
           /\ pc[w] = "threw" => pc'[w] = "threw"
    BY DEF Releasing
  <2> HIDE DEF Past
  <2>2. \A r \in Request : PastExecution(r) <=>
           nodeIndex[r] = "freed" \/ \E w \in Worker : cur[w] = r /\ pc[w] \in Past
    BY DEF PastExecution, Past
  <2>3. \A r \in Request : PastExecution(r)' <=>
           nodeIndex[r] = "freed" \/ \E w \in Worker : cur[w] = r /\ pc'[w] \in Past
    BY DEF PastExecution, Past
  <2>4. ResponseWhenPast
    BY DEF OrderInv
  <2>. QED  BY <2>1, <2>2, <2>3, <2>4 DEF ResponseWhenPast
<1>8. Phases'
  BY <1>2 DEF OrderInv, Phases
<1>. QED  BY <1>1, <1>3, <1>4, <1>6, <1>7, <1>8 DEF OrderInv, CrashNeedsDroppedEdge

\* The worker steps of that kind.
LEMMA OrderWorkerPcOnly ==
    ASSUME TypeInv, OrderInv, TypeInv', NEW w \in Worker,
           \/ DequeueWaits(w) \/ DequeueUnderflows(w) \/ NoRequestLeft(w)
           \/ SpuriousWake(w) \/ ExecuteThrows(w) \/ SubmitThrows(w)
           \/ NotifyOne(w) \/ CountDown(w) \/ NotifyAll(w)
    PROVE  OrderInv'
<1> DEFINE Moves ==
        \A v \in Worker :
           \/ pc'[v] = pc[v]
           \/ /\ cur[v] = NoRequest /\ pc[v] # "enqueue"
              /\ pc'[v] \notin Producing
           \/ pc[v] \in {"execute", "submit"} /\ pc'[v] = "threw"
           \/ pc[v] = "notify" /\ pc'[v] = "release"
           \/ pc[v] = "countDown" /\ pc'[v] = "retire"
<1>1. pc \in [Worker -> Labels] /\ pc' \in [Worker -> Labels]
  BY DEF TypeInv, TypeOK
<1>2. \A v \in Worker : pc[v] \in {"dequeue", "waiting", "underflow", "notifyAll"} =>
                           cur[v] = NoRequest
  BY IdleHoldsNothing DEF Producing
<1>3. Moves
  <2> USE <1>1, <1>2 DEF Producing, Goto
  <2>1. CASE DequeueWaits(w) \/ DequeueUnderflows(w) \/ NoRequestLeft(w) \/ SpuriousWake(w)
    BY <2>1 DEF DequeueWaits, DequeueUnderflows, NoRequestLeft, SpuriousWake
  <2>2. CASE ExecuteThrows(w) \/ SubmitThrows(w) \/ CountDown(w)
    BY <2>2 DEF ExecuteThrows, SubmitThrows, CountDown
  <2>3. CASE NotifyOne(w)
    BY <2>3 DEF NotifyOne, Waiting
  <2>4. CASE NotifyAll(w)
    BY <2>4 DEF NotifyAll
  <2>. QED  BY <2>1, <2>2, <2>3, <2>4
<1>4. pc[w] # "unborn"
  BY DEF DequeueWaits, DequeueUnderflows, NoRequestLeft, SpuriousWake, ExecuteThrows,
         SubmitThrows, NotifyOne, CountDown, NotifyAll
<1>5. main \notin {"finalize", "build", "spawn"}
  BY <1>4 DEF OrderInv, Phases
<1>6. UNCHANGED <<adj, nodeIndex, inDegree, finalized, content, cur, todo, ready,
                  response, crashed, main>>
  BY DEF DequeueWaits, DequeueUnderflows, NoRequestLeft, SpuriousWake, ExecuteThrows,
         SubmitThrows, NotifyOne, CountDown, NotifyAll, graphVars, dagVars, queueVars,
         mainVars
<1> HIDE DEF Moves
<1>7. finalized = Covered(NumRequests, WorkersCount)
  BY <1>5 DEF OrderInv, Phases
<1>. QED  BY <1>1, <1>3, <1>5, <1>6, <1>7, OrderPcOnly DEF Moves

\* A worker takes the request at the head of the queue.
LEMMA OrderDequeue ==
    ASSUME TypeInv, OrderInv, TypeInv', NEW w \in Worker, Dequeue(w)
    PROVE  OrderInv'
<1> USE Ids DEF TypeInv, TypeOK
<1>1. PICK h \in Request :
         /\ h = Head(content) /\ h = content[1] /\ 1 \in 1 .. Len(content)
         /\ Len(content') = Len(content) - 1
         /\ \A i \in 1 .. Len(content') : /\ content'[i] = content[i + 1]
                                          /\ i + 1 \in 1 .. Len(content)
  <2>1. /\ content \in Seq(Request) /\ content # << >> /\ content' = Tail(content)
        /\ Len(content) \in Nat
    BY DEF Dequeue
  <2>2. Len(content) >= 1 /\ Head(content) = content[1] /\ content[1] \in Request
    BY <2>1
  <2>3. /\ Len(content') = Len(content) - 1
        /\ \A i \in 1 .. Len(content') : content'[i] = content[i + 1]
    BY <2>1, <2>2
  <2>4. 1 \in 1 .. Len(content)
    BY <2>1, <2>2
  <2>5. \A i \in 1 .. Len(content') : i + 1 \in 1 .. Len(content)
    BY <2>1, <2>2, <2>3
  <2> HIDE DEF TypeInv, TypeOK
  <2>. QED  BY <2>2, <2>3, <2>4, <2>5
<1>2. /\ cur' = [cur EXCEPT ![w] = h] /\ pc' = [pc EXCEPT ![w] = "execute"]
      /\ pc[w] = "dequeue"
      /\ UNCHANGED <<adj, nodeIndex, inDegree, finalized, todo, ready, response,
                     crashed, main>>
  BY <1>1 DEF Dequeue, Goto, graphVars, dagVars, mainVars
<1>3. cur[w] = NoRequest /\ ready[w] = NoRequest
  BY <1>2, IdleHoldsNothing DEF Producing
<1>4. Queued(h) /\ nodeIndex[h] = "live"
  BY <1>1 DEF Queued, OrderInv, OnePlace, QueueOnce
<1>5. \A v \in Worker : cur[v] # h /\ ready[v] # h
  BY <1>4 DEF OrderInv, OnePlace, WorkerPlace
<1>6. ~Queued(h)' /\ \A r : Queued(r)' => Queued(r)
  <2>1. \A i \in 1 .. Len(content') : content'[i] # h
    <3>1. ASSUME NEW i \in 1 .. Len(content'), content'[i] = h
          PROVE  FALSE
      <4>1. content[i + 1] = content[1] /\ i + 1 \in 1 .. Len(content) /\ i + 1 # 1
        BY <1>1, <3>1
      <4>. QED  BY <1>1, <4>1 DEF OrderInv, OnePlace, QueueOnce
    <3>. QED  BY <3>1
  <2>. QED  BY <1>1, <2>1 DEF Queued
<1>7. Held'
  BY <1>2 DEF Held
<1>8. \A p, r \in Request : Released(p, r)' <=> Released(p, r)
  BY <1>2, <1>3, <1>5 DEF Released, Releasing
<1>9. CountsMatch'
  BY <1>2, <1>8, CountsUnchanged DEF OrderInv
<1>10. DispatchedAtZero'
  <2>1. \A r \in Request : Dispatched(r)' => Dispatched(r)
    BY <1>2, <1>4, <1>6 DEF Dispatched
  <2>. QED  BY <1>2, <2>1 DEF OrderInv, DispatchedAtZero
<1>11. OnePlace'
  <2>1. QueueOnce'
    <3>1. QueueOnce
      BY DEF OrderInv, OnePlace
    <3>2. ASSUME NEW i \in 1 .. Len(content'), NEW j \in 1 .. Len(content'),
                 content'[i] = content'[j]
          PROVE  i = j
      <4>1. /\ i + 1 \in 1 .. Len(content) /\ j + 1 \in 1 .. Len(content)
            /\ content[i + 1] = content[j + 1]
        BY <1>1, <3>2
      <4>2. i + 1 = j + 1
        BY <3>1, <4>1 DEF QueueOnce
      <4>. QED  BY <4>2
    <3> HIDE DEF TypeInv, TypeOK
    <3>3. \A i \in 1 .. Len(content') : nodeIndex'[content'[i]] = "live"
      <4>1. \A i \in 1 .. Len(content) : nodeIndex[content[i]] = "live"
        BY <3>1 DEF QueueOnce
      <4>2. nodeIndex' = nodeIndex
        BY <1>2
      <4>. QED  BY <1>1, <4>1, <4>2
    <3>. QED  BY <3>2, <3>3 DEF QueueOnce
  <2>2. ASSUME NEW v \in Worker
        PROVE  WorkerPlace(v)'
    <3>1. WorkerPlace(v)
      BY DEF OrderInv, OnePlace
    <3> DEFINE Holds(x) == \E i \in 1 .. Len(content') : content'[i] = x
    <3>2. ~Holds(h) /\ \A r : Holds(r) => Queued(r)
      BY <1>6 DEF Queued
    <3> HIDE DEF Holds, TypeInv, TypeOK
    <3>3. CASE v = w
      <4>1. cur'[v] = h /\ pc'[v] = "execute" /\ ready'[v] = NoRequest
        BY <1>2, <1>3, <3>3 DEF TypeInv, TypeOK
      <4>2. ~Holds(cur'[v]) /\ ~Holds(ready'[v])
        BY <1>3, <3>1, <3>2, <3>3, <4>1 DEF WorkerPlace
      <4>. QED
        BY <1>2, <1>4, <4>1, <4>2 DEF WorkerPlace, Queued, Holds, Producing, Releasing
    <3>4. CASE v # w
      <4>1. cur'[v] = cur[v] /\ pc'[v] = pc[v] /\ ready'[v] = ready[v]
        BY <1>2, <3>4 DEF TypeInv, TypeOK
      <4>2. ~Holds(cur'[v]) /\ ~Holds(ready'[v])
        BY <3>1, <3>2, <4>1 DEF WorkerPlace
      <4>. QED  BY <1>2, <3>1, <4>1, <4>2 DEF WorkerPlace, Queued, Holds
    <3>. QED  BY <3>3, <3>4
  <2>3. WorkersApart'
    BY <1>1, <1>2, <1>5 DEF OrderInv, OnePlace, WorkersApart
  <2>. QED  BY <2>1, <2>2, <2>3 DEF OnePlace
<1>12. ResponseWhenPast'
  <2>1. \A r \in Request :
           /\ PastExecution(r)' <=> PastExecution(r)
           /\ (\E v \in Worker : cur'[v] = r /\ pc'[v] = "threw")
                 <=> (\E v \in Worker : cur[v] = r /\ pc[v] = "threw")
    BY <1>2, <1>3, <1>5 DEF PastExecution, Releasing
  <2>. QED  BY <1>2, <2>1 DEF OrderInv, ResponseWhenPast
<1>13. Phases'
  <2>1. main \notin {"finalize", "build", "spawn"}
    BY <1>2 DEF OrderInv, Phases
  <2>. QED  BY <1>2, <2>1 DEF OrderInv, Phases
<1>. QED
  BY <1>2, <1>7, <1>9, <1>10, <1>11, <1>12, <1>13 DEF OrderInv, CrashNeedsDroppedEdge

\* A worker executes its request and stores the response.
LEMMA OrderExecute ==
    ASSUME TypeInv, OrderInv, TypeInv', NEW w \in Worker, Execute(w)
    PROVE  OrderInv'
<1> USE Ids DEF TypeInv, TypeOK
<1>1. PICK code \in Nat : response' = [response EXCEPT ![cur[w]] = code]
  BY SchedulerAssumption DEF Execute
<1>2. /\ pc' = [pc EXCEPT ![w] = "submit"] /\ pc[w] = "execute"
      /\ UNCHANGED <<adj, nodeIndex, inDegree, finalized, content, cur, todo,
                     ready, crashed, main>>
  BY DEF Execute, Goto, graphVars, dagVars, queueVars, mainVars
<1>3. cur[w] \in Request
  BY <1>2 DEF OrderInv, Held, Producing
<1>4. Held'
  BY <1>2, <1>3 DEF OrderInv, Held, Producing
<1>5. \A r : Dispatched(r)' <=> Dispatched(r)
  BY <1>2 DEF Dispatched, Queued
<1>6. \A p, r \in Request : Released(p, r)' <=> Released(p, r)
  BY <1>2 DEF Released, Releasing
<1>7. CountsMatch'
  BY <1>2, <1>6, CountsUnchanged DEF OrderInv
<1>8. OnePlace'
  <2>1. QueueOnce' /\ WorkersApart'
    BY <1>2 DEF OrderInv, OnePlace, QueueOnce, WorkersApart
  <2>2. ASSUME NEW v \in Worker
        PROVE  WorkerPlace(v)'
    <3>1. WorkerPlace(v)
      BY DEF OrderInv, OnePlace
    <3>. QED  BY <1>2, <3>1 DEF WorkerPlace, Queued, Producing, Releasing
  <2>. QED  BY <2>1, <2>2 DEF OnePlace
<1>9. ResponseWhenPast'
  <2>1. WorkersApart /\ ResponseWhenPast
    BY DEF OrderInv, OnePlace
  <2> SUFFICES ASSUME NEW r \in Request
               PROVE  /\ PastExecution(r)' => response'[r] # NoResponse
                      /\ response'[r] # NoResponse =>
                            \/ PastExecution(r)'
                            \/ \E v \in Worker : cur'[v] = r /\ pc'[v] = "threw"
    BY DEF ResponseWhenPast
  <2>2. CASE r = cur[w]
    <3>1. PastExecution(r)' /\ response'[r] # NoResponse
      BY <1>1, <1>2, <1>3, <2>2 DEF PastExecution
    <3>. QED  BY <3>1
  <2>3. CASE r # cur[w]
    <3>1. /\ PastExecution(r)' <=> PastExecution(r)
          /\ response'[r] = response[r]
          /\ (\E v \in Worker : cur'[v] = r /\ pc'[v] = "threw")
                <=> (\E v \in Worker : cur[v] = r /\ pc[v] = "threw")
      BY <1>1, <1>2, <2>3 DEF PastExecution, Releasing
    <3>. QED  BY <2>1, <3>1 DEF ResponseWhenPast
  <2>. QED  BY <2>2, <2>3
<1>10. Phases'
  <2>1. main \notin {"finalize", "build", "spawn"}
    BY <1>2 DEF OrderInv, Phases
  <2>. QED  BY <1>2, <2>1 DEF OrderInv, Phases
<1>11. DispatchedAtZero'
  BY <1>2, <1>5 DEF OrderInv, DispatchedAtZero
<1>. QED
  BY <1>2, <1>4, <1>7, <1>8, <1>9, <1>10, <1>11 DEF OrderInv, CrashNeedsDroppedEdge

\* A worker enters submitResult's loop with every adjacent node still to visit.
LEMMA OrderSubmit ==
    ASSUME TypeInv, OrderInv, TypeInv', NEW w \in Worker, Submit(w)
    PROVE  OrderInv'
<1> USE Ids DEF TypeInv, TypeOK
<1>2. /\ pc' = [pc EXCEPT ![w] = "release"] /\ pc[w] = "submit"
      /\ todo' = [todo EXCEPT ![w] = adj[cur[w]]]
      /\ UNCHANGED <<adj, nodeIndex, inDegree, finalized, content, cur,
                     ready, response, crashed, main>>
  BY DEF Submit, Goto, graphVars, dagVars, queueVars, mainVars
<1>3. cur[w] \in Request
  BY <1>2 DEF OrderInv, Held, Producing
<1>4. Held'
  BY <1>2, <1>3 DEF OrderInv, Held, Producing
<1>5. \A r : Dispatched(r)' <=> Dispatched(r)
  BY <1>2 DEF Dispatched, Queued
<1>6. \A p, r \in Request : r \in adj[p] => (Released(p, r)' <=> Released(p, r))
  BY <1>2 DEF Released, Releasing
<1>7. CountsMatch'
  BY <1>2, <1>6, CountsUnchanged DEF OrderInv
<1>8. OnePlace'
  <2>1. QueueOnce' /\ WorkersApart'
    BY <1>2 DEF OrderInv, OnePlace, QueueOnce, WorkersApart
  <2>2. ASSUME NEW v \in Worker
        PROVE  WorkerPlace(v)'
    <3>1. WorkerPlace(v)
      BY DEF OrderInv, OnePlace
    <3>. QED  BY <1>2, <3>1 DEF WorkerPlace, Queued, Producing, Releasing
  <2>. QED  BY <2>1, <2>2 DEF OnePlace
<1>9. ResponseWhenPast'
  <2>1. \A r \in Request :
           /\ PastExecution(r)' <=> PastExecution(r)
           /\ (\E v \in Worker : cur'[v] = r /\ pc'[v] = "threw")
                 <=> (\E v \in Worker : cur[v] = r /\ pc[v] = "threw")
    BY <1>2 DEF PastExecution, Releasing
  <2>. QED  BY <1>2, <2>1 DEF OrderInv, ResponseWhenPast
<1>10. Phases'
  <2>1. main \notin {"finalize", "build", "spawn"}
    BY <1>2 DEF OrderInv, Phases
  <2>. QED  BY <1>2, <2>1 DEF OrderInv, Phases
<1>11. DispatchedAtZero'
  BY <1>2, <1>5 DEF OrderInv, DispatchedAtZero
<1>. QED
  BY <1>2, <1>4, <1>7, <1>8, <1>9, <1>10, <1>11 DEF OrderInv, CrashNeedsDroppedEdge

\* A worker that visits an adjacent node is one of those the node waits for.
LEMMA VisitedCounts ==
    ASSUME TypeInv, OrderInv, NoDroppedEdge, NEW w \in Worker, pc[w] = "release",
           NEW a \in todo[w]
    PROVE  /\ cur[w] \in Unreleased(a) /\ a \in Request
           /\ inDegree[a] > 0 /\ nodeIndex[a] = "live" /\ ~Dispatched(a)
<1> USE Ids DEF TypeInv, TypeOK
<1>1. cur[w] \in Request /\ a \in Request
  BY DEF OrderInv, Held, Producing
<1>2. WorkerPlace(w) /\ WorkersApart
  BY DEF OrderInv, OnePlace
<1>3. a \in adj[cur[w]] /\ nodeIndex[cur[w]] # "freed"
  BY <1>1, <1>2 DEF WorkerPlace, Releasing
<1>4. ~Released(cur[w], a)
  BY <1>1, <1>2, <1>3 DEF Released, WorkersApart
<1>5. cur[w] \in finalized
  <2>1. main # "finalize"
    BY DEF OrderInv, Phases
  <2>2. finalized = Covered(NumRequests, WorkersCount)
    BY <2>1 DEF OrderInv, Phases
  <2>3. adj[cur[w]] # {}
    BY <1>3
  <2> HIDE DEF TypeInv, TypeOK
  <2>. QED  BY <1>1, <2>2, <2>3 DEF NoDroppedEdge
<1>6. cur[w] \in Unreleased(a)
  BY <1>1, <1>3, <1>4, <1>5 DEF Unreleased
<1>7. IsFiniteSet(Unreleased(a))
  BY RequestsFinite DEF Unreleased
<1>8. inDegree[a] = Cardinality(Unreleased(a))
  BY <1>1 DEF OrderInv, CountsMatch, InDegreeCounts
<1>9. inDegree[a] # 0
  BY <1>6, <1>7, <1>8, FS_EmptySet
<1>10. ~Dispatched(a)
  BY <1>1, <1>9 DEF OrderInv, DispatchedAtZero
<1>11. nodeIndex[a] = "live"
  BY <1>1, <1>10 DEF Dispatched
<1>. QED  BY <1>1, <1>6, <1>9, <1>10, <1>11

\* The visit takes exactly this worker's request out of what the node waits for.
LEMMA VisitedLeaves ==
    ASSUME TypeInv, OrderInv, NoDroppedEdge, NEW w \in Worker, pc[w] = "release",
           NEW a \in todo[w],
           UNCHANGED <<adj, nodeIndex, finalized, cur>>,
           todo' = [todo EXCEPT ![w] = @ \ {a}],
           pc' = pc \/ pc' = [pc EXCEPT ![w] = "enqueue"]
    PROVE  \A r \in Request :
              Unreleased(r)' = IF r = a THEN Unreleased(r) \ {cur[w]} ELSE Unreleased(r)
<1> USE Ids DEF TypeInv, TypeOK
<1>1. cur[w] \in Unreleased(a) /\ a \in Request /\ cur[w] \in Request
  BY VisitedCounts DEF Unreleased
<1>2. \A v \in Worker : pc'[v] \in Releasing <=> pc[v] \in Releasing
  BY DEF Releasing
<1>3. Released(cur[w], a)'
  BY <1>2 DEF Released, Releasing
<1>4. ASSUME NEW p \in Request, NEW r \in Request, ~(p = cur[w] /\ r = a)
      PROVE  Released(p, r)' <=> Released(p, r)
  BY <1>1, <1>2, <1>4 DEF Released
<1>5. ASSUME NEW r \in Request, r # a
      PROVE  Unreleased(r)' = Unreleased(r)
  BY <1>4, <1>5 DEF Unreleased
<1>6. Unreleased(a)' = Unreleased(a) \ {cur[w]}
  BY <1>1, <1>3, <1>4 DEF Unreleased
<1>. QED  BY <1>5, <1>6

\* One visit: the in-degree follows what the node still waits for, and the node
\* becomes ready only when it was nowhere before.
LEMMA OrderDecrement ==
    ASSUME TypeInv, OrderInv, TypeInv', NEW w \in Worker, Decrement(w)
    PROVE  OrderInv'
<1> USE Ids DEF TypeInv, TypeOK
<1>1. PICK a \in todo[w] :
         /\ nodeIndex[a] = "live" /\ inDegree[a] > 0
         /\ inDegree' = [inDegree EXCEPT ![a] = @ - 1]
         /\ todo' = [todo EXCEPT ![w] = @ \ {a}]
         /\ IF inDegree[a] - 1 = 0
            THEN ready' = [ready EXCEPT ![w] = a] /\ pc' = [pc EXCEPT ![w] = "enqueue"]
            ELSE ready' = ready /\ pc' = pc
  BY DEF Decrement, Goto
<1>2. /\ pc[w] = "release"
      /\ UNCHANGED <<adj, nodeIndex, finalized, content, cur, response, crashed, main>>
  BY DEF Decrement, graphVars, queueVars, mainVars
<1>3. /\ a \in Request /\ inDegree[a] > 0 /\ nodeIndex[a] = "live"
      /\ ~Dispatched(a)
  BY <1>1 DEF OrderInv, DispatchedAtZero
<1>4. cur[w] \in Request /\ ready[w] = NoRequest
  BY <1>2, IdleHoldsNothing DEF OrderInv, Held, Producing
<1>5. Held'
  BY <1>1, <1>2, <1>3, <1>4 DEF OrderInv, Held, Producing
<1>6. CountsMatch'
  <2> SUFFICES ASSUME NoDroppedEdge  PROVE InDegreeCounts'
    BY <1>2 DEF CountsMatch, NoDroppedEdge
  <2>1. \A r \in Request :
           Unreleased(r)' = IF r = a THEN Unreleased(r) \ {cur[w]} ELSE Unreleased(r)
    BY <1>1, <1>2, VisitedLeaves
  <2>2. IsFiniteSet(Unreleased(a))
    BY RequestsFinite DEF Unreleased
  <2> DEFINE U == Unreleased(a)
  <2>3. Cardinality(U \ {cur[w]}) = Cardinality(U) - 1
    <3>1. IsFiniteSet(U) /\ cur[w] \in U
      BY <1>2, <2>2, VisitedCounts
    <3> HIDE DEF U, TypeInv, TypeOK
    <3>. QED  BY <3>1, FS_RemoveElement
  <2>. QED  BY <1>1, <1>3, <2>1, <2>3 DEF OrderInv, CountsMatch, InDegreeCounts
<1>7. DispatchedAtZero'
  <2>1. ASSUME NEW r \in Request, Dispatched(r)'
        PROVE  inDegree'[r] = 0
    <3>1. CASE r = a
      <4>1. inDegree[a] - 1 = 0
        BY <1>1, <1>2, <1>3, <2>1, <3>1 DEF Dispatched, Queued
      <4>. QED  BY <1>1, <1>3, <3>1, <4>1
    <3>2. CASE r # a
      <4>1. Dispatched(r)
        BY <1>1, <1>2, <2>1, <3>2 DEF Dispatched, Queued
      <4>. QED  BY <1>1, <1>3, <3>2, <4>1 DEF OrderInv, DispatchedAtZero
    <3>. QED  BY <3>1, <3>2
  <2>. QED  BY <2>1 DEF DispatchedAtZero
<1>8. OnePlace'
  <2>1. QueueOnce'
    BY <1>2 DEF OrderInv, OnePlace, QueueOnce
  <2>2. WorkersApart'
    <3>1. \A v \in Worker : cur[v] # a /\ ready[v] # a
      BY <1>3 DEF Dispatched
    <3>. QED  BY <1>1, <1>2, <1>3, <1>4, <3>1 DEF OrderInv, OnePlace, WorkersApart
  <2>3. ASSUME NEW v \in Worker
        PROVE  WorkerPlace(v)'
    <3>1. WorkerPlace(v)
      BY DEF OrderInv, OnePlace
    <3>2. ~Queued(a)
      BY <1>3 DEF Dispatched
    <3>3. ~Queued(cur[v])' /\ ~Queued(ready[v])'
      BY <1>1, <1>2, <3>1, <3>2 DEF WorkerPlace, Queued
    <3>4. CASE v = w /\ inDegree[a] - 1 = 0
      <4>1. cur'[v] = cur[v] /\ pc'[v] = "enqueue" /\ ready'[v] = a
            /\ todo'[v] = todo[v] \ {a}
        BY <1>1, <1>2, <3>4
      <4>. QED
        BY <1>2, <1>3, <1>4, <3>1, <3>3, <3>4, <4>1 DEF WorkerPlace, Producing, Releasing
    <3>5. CASE v = w /\ inDegree[a] - 1 # 0
      <4>1. cur'[v] = cur[v] /\ pc'[v] = pc[v] /\ ready'[v] = ready[v]
            /\ todo'[v] = todo[v] \ {a}
        BY <1>1, <1>2, <3>5
      <4>. QED  BY <1>2, <3>1, <3>3, <4>1 DEF WorkerPlace
    <3>6. CASE v # w
      <4>1. cur'[v] = cur[v] /\ pc'[v] = pc[v] /\ ready'[v] = ready[v]
            /\ todo'[v] = todo[v]
        BY <1>1, <1>2, <3>6
      <4>. QED  BY <1>2, <3>1, <3>3, <4>1 DEF WorkerPlace
    <3>. QED  BY <3>4, <3>5, <3>6
  <2>. QED  BY <2>1, <2>2, <2>3 DEF OnePlace
<1>9. ResponseWhenPast'
  <2>0. \A v \in Worker :
           /\ cur'[v] = cur[v] /\ (pc'[v] = "threw" <=> pc[v] = "threw")
           /\ pc'[v] \in {"submit"} \cup Releasing <=> pc[v] \in {"submit"} \cup Releasing
    BY <1>1, <1>2 DEF Releasing
  <2> HIDE DEF TypeInv, TypeOK
  <2>1. \A r \in Request :
           /\ PastExecution(r)' <=> PastExecution(r)
           /\ (\E v \in Worker : cur'[v] = r /\ pc'[v] = "threw")
                 <=> (\E v \in Worker : cur[v] = r /\ pc[v] = "threw")
    BY <1>2, <2>0 DEF PastExecution
  <2>. QED  BY <1>2, <2>1 DEF OrderInv, ResponseWhenPast
<1>10. Phases'
  <2>1. main \notin {"finalize", "build", "spawn"}
    BY <1>2 DEF OrderInv, Phases
  <2>. QED  BY <1>2, <2>1 DEF OrderInv, Phases
<1>. QED
  BY <1>2, <1>5, <1>6, <1>7, <1>8, <1>9, <1>10 DEF OrderInv, CrashNeedsDroppedEdge

\* The ready node moves to the end of the queue.
LEMMA OrderEnqueue ==
    ASSUME TypeInv, OrderInv, TypeInv', NEW w \in Worker, Enqueue(w)
    PROVE  OrderInv'
<1> USE Ids DEF TypeInv, TypeOK
<1>1. /\ pc' = [pc EXCEPT ![w] = "notify"] /\ pc[w] = "enqueue"
      /\ ready' = [ready EXCEPT ![w] = NoRequest]
      /\ UNCHANGED <<adj, nodeIndex, inDegree, finalized, cur, todo, response,
                     crashed, main>>
  BY DEF Enqueue, Goto, graphVars, dagVars, mainVars
<1>2. PICK a \in Request : a = ready[w]
  BY <1>1 DEF OrderInv, Held
<1>3. /\ Len(content) \in Nat /\ Len(content') = Len(content) + 1
      /\ content'[Len(content) + 1] = a
      /\ \A i \in 1 .. Len(content) : content'[i] = content[i]
  <2>1. content \in Seq(Request) /\ content' = Append(content, a)
    BY <1>2 DEF Enqueue
  <2> HIDE DEF TypeInv, TypeOK
  <2>. QED  BY <2>1
<1>4. WorkerPlace(w) /\ WorkersApart /\ QueueOnce
  BY DEF OrderInv, OnePlace
<1>5. cur[w] \in Request /\ nodeIndex[a] = "live" /\ ~Queued(a)
  BY <1>1, <1>2, <1>4 DEF OrderInv, Held, Producing, WorkerPlace
<1>6. \A v \in Worker : cur[v] # a /\ (ready[v] = a => v = w)
  BY <1>2, <1>4 DEF WorkersApart
<1>7. \A r : Queued(r)' <=> Queued(r) \/ r = a
  <2>1. ASSUME NEW r, Queued(r)'
        PROVE  Queued(r) \/ r = a
    <3>1. PICK i \in 1 .. Len(content') : content'[i] = r
      BY <2>1 DEF Queued
    <3>2. i \in 1 .. Len(content) \/ i = Len(content) + 1
      BY <1>3
    <3>. QED  BY <1>3, <3>1, <3>2 DEF Queued
  <2>2. ASSUME NEW r, Queued(r) \/ r = a
        PROVE  Queued(r)'
    <3>1. CASE Queued(r)
      <4>1. PICK i \in 1 .. Len(content) : content[i] = r
        BY <3>1 DEF Queued
      <4>2. i \in 1 .. Len(content')
        BY <1>3
      <4>. QED  BY <1>3, <4>1, <4>2 DEF Queued
    <3>2. CASE r = a
      <4>1. Len(content) + 1 \in 1 .. Len(content')
        BY <1>3
      <4>. QED  BY <1>3, <3>2, <4>1 DEF Queued
    <3>. QED  BY <2>2, <3>1, <3>2
  <2>. QED  BY <2>1, <2>2
<1>8. Held'
  BY <1>1, <1>5 DEF OrderInv, Held, Producing
<1>9. CountsMatch'
  <2>1. \A p, r \in Request : Released(p, r)' <=> Released(p, r)
    BY <1>1 DEF Released, Releasing
  <2>. QED  BY <1>1, <2>1, CountsUnchanged DEF OrderInv
<1>10. DispatchedAtZero'
  <2>1. \A r \in Request : Dispatched(r)' => Dispatched(r)
    BY <1>1, <1>2, <1>7 DEF Dispatched
  <2>. QED  BY <1>1, <2>1 DEF OrderInv, DispatchedAtZero
<1>11. OnePlace'
  <2>1. QueueOnce'
    <3>1. \A i \in 1 .. Len(content) : content[i] # a
      BY <1>5 DEF Queued
    <3>2. ASSUME NEW i \in 1 .. Len(content')
          PROVE  \/ i \in 1 .. Len(content) /\ content'[i] = content[i]
                 \/ i = Len(content) + 1 /\ content'[i] = a
      BY <1>3
    <3>3. ASSUME NEW i \in 1 .. Len(content'), NEW j \in 1 .. Len(content'),
                 content'[i] = content'[j]
          PROVE  i = j
      BY <1>4, <3>1, <3>2, <3>3 DEF QueueOnce
    <3>4. ASSUME NEW i \in 1 .. Len(content')
          PROVE  nodeIndex'[content'[i]] = "live"
      BY <1>1, <1>4, <1>5, <3>2 DEF QueueOnce
    <3>. QED  BY <3>3, <3>4 DEF QueueOnce
  <2>2. ASSUME NEW v \in Worker
        PROVE  WorkerPlace(v)'
    <3>1. WorkerPlace(v)
      BY DEF OrderInv, OnePlace
    <3>2. ~Queued(cur[v])'
      <4>1. cur'[v] = cur[v] /\ cur[v] # a /\ ~Queued(cur[v])
        BY <1>1, <1>6, <3>1 DEF WorkerPlace
      <4>2. \A i \in 1 .. Len(content') : content'[i] # cur[v]
        BY <1>7, <4>1 DEF Queued
      <4>. QED  BY <4>1, <4>2 DEF Queued
    <3>3. ~Queued(ready[v])'
      <4>1. ready'[v] # a /\ (ready'[v] = NoRequest \/ ready'[v] = ready[v])
        BY <1>1, <1>2, <1>6
      <4>2. ~Queued(NoRequest) /\ ~Queued(ready[v])
        BY <3>1 DEF WorkerPlace, Queued
      <4>3. \A i \in 1 .. Len(content') : content'[i] # ready'[v]
        BY <1>7, <4>1, <4>2 DEF Queued
      <4>. QED  BY <4>3 DEF Queued
    <3>. QED
      BY <1>1, <1>2, <1>5, <3>1, <3>2, <3>3 DEF WorkerPlace, Producing, Releasing
  <2>3. WorkersApart'
    BY <1>1, <1>4 DEF WorkersApart
  <2>. QED  BY <2>1, <2>2, <2>3 DEF OnePlace
<1>12. ResponseWhenPast'
  <2>1. \A r \in Request :
           /\ PastExecution(r)' <=> PastExecution(r)
           /\ (\E v \in Worker : cur'[v] = r /\ pc'[v] = "threw")
                 <=> (\E v \in Worker : cur[v] = r /\ pc[v] = "threw")
    BY <1>1 DEF PastExecution, Releasing
  <2>. QED  BY <1>1, <2>1 DEF OrderInv, ResponseWhenPast
<1>13. Phases'
  <2>1. main \notin {"finalize", "build", "spawn"}
    BY <1>1 DEF OrderInv, Phases
  <2>. QED  BY <1>1, <2>1 DEF OrderInv, Phases
<1>. QED
  BY <1>1, <1>8, <1>9, <1>10, <1>11, <1>12, <1>13 DEF OrderInv, CrashNeedsDroppedEdge

\* The node is freed after its last visit, so it counts as released all along.
LEMMA OrderReset ==
    ASSUME TypeInv, OrderInv, TypeInv', NEW w \in Worker, ResetNode(w)
    PROVE  OrderInv'
<1> USE Ids DEF TypeInv, TypeOK
<1>1. PICK c \in Request : c = cur[w]
  BY DEF ResetNode, OrderInv, Held, Producing
<1>2. /\ pc' = [pc EXCEPT ![w] = "countDown"] /\ pc[w] = "release" /\ todo[w] = {}
      /\ nodeIndex' = [nodeIndex EXCEPT ![c] = "freed"]
      /\ UNCHANGED <<adj, inDegree, finalized, content, cur, todo, ready, response,
                     crashed, main>>
  BY <1>1 DEF ResetNode, Goto, graphVars, queueVars, mainVars
<1>3. WorkerPlace(w) /\ WorkersApart /\ QueueOnce
  BY DEF OrderInv, OnePlace
<1>4. ~Queued(c) /\ \A v \in Worker : ready[v] # c /\ (cur[v] = c => v = w)
  BY <1>1, <1>3 DEF WorkerPlace, WorkersApart
<1>5. Held'
  BY <1>1, <1>2 DEF OrderInv, Held, Producing
<1>6. CountsMatch'
  <2>1. ASSUME NEW p \in Request, NEW r \in Request
        PROVE  Released(p, r)' <=> Released(p, r)
    <3>1. CASE p = c
      BY <1>1, <1>2, <3>1 DEF Released, Releasing
    <3>2. CASE p # c
      BY <1>1, <1>2, <3>2 DEF Released
    <3>. QED  BY <3>1, <3>2
  <2>. QED  BY <1>2, <2>1, CountsUnchanged DEF OrderInv
<1>7. DispatchedAtZero'
  <2>1. \A r \in Request : Dispatched(r)' => Dispatched(r)
    BY <1>1, <1>2 DEF Dispatched, Queued
  <2>. QED  BY <1>2, <2>1 DEF OrderInv, DispatchedAtZero
<1>8. OnePlace'
  <2>1. QueueOnce'
    BY <1>2, <1>3, <1>4 DEF QueueOnce, Queued
  <2>2. WorkersApart'
    BY <1>2, <1>3 DEF WorkersApart
  <2>3. ASSUME NEW v \in Worker
        PROVE  WorkerPlace(v)'
    <3>1. WorkerPlace(v)
      BY DEF OrderInv, OnePlace
    <3>2. ~Queued(cur[v])' /\ ~Queued(ready[v])'
      BY <1>2, <3>1 DEF WorkerPlace, Queued
    <3>. QED
      BY <1>1, <1>2, <1>4, <3>1, <3>2 DEF WorkerPlace, Producing, Releasing
  <2>. QED  BY <2>1, <2>2, <2>3 DEF OnePlace
<1>9. ResponseWhenPast'
  <2>1. \A r \in Request : PastExecution(r)' <=> PastExecution(r)
    BY <1>1, <1>2 DEF PastExecution, Releasing
  <2>2. \A r \in Request :
           (\E v \in Worker : cur'[v] = r /\ pc'[v] = "threw")
              <=> (\E v \in Worker : cur[v] = r /\ pc[v] = "threw")
    BY <1>2
  <2>. QED  BY <1>2, <2>1, <2>2 DEF OrderInv, ResponseWhenPast
<1>10. Phases'
  <2>1. main \notin {"finalize", "build", "spawn"}
    BY <1>2 DEF OrderInv, Phases
  <2>. QED  BY <1>2, <2>1 DEF OrderInv, Phases
<1>. QED
  BY <1>2, <1>5, <1>6, <1>7, <1>8, <1>9, <1>10 DEF OrderInv, CrashNeedsDroppedEdge

\* The worker gives up a request that was freed already.
LEMMA OrderRetire ==
    ASSUME TypeInv, OrderInv, TypeInv', NEW w \in Worker, RemoveProducer(w)
    PROVE  OrderInv'
<1> USE Ids DEF TypeInv, TypeOK
<1>1. /\ pc[w] = "retire" /\ cur' = [cur EXCEPT ![w] = NoRequest]
      /\ \/ pc' = [pc EXCEPT ![w] = "notifyAll"]
         \/ pc' = [pc EXCEPT ![w] = "dequeue"]
      /\ UNCHANGED <<adj, nodeIndex, inDegree, finalized, content, todo, ready,
                     response, crashed, main>>
  BY DEF RemoveProducer, Goto, graphVars, dagVars, mainVars
<1>2. WorkerPlace(w) /\ WorkersApart /\ QueueOnce
  BY DEF OrderInv, OnePlace
<1>3. cur[w] \in Request /\ nodeIndex[cur[w]] = "freed"
  BY <1>1, <1>2 DEF OrderInv, Held, Producing, WorkerPlace
<1>4. Held'
  BY <1>1 DEF OrderInv, Held, Producing
<1>5. CountsMatch'
  <2>1. \A p, r \in Request : Released(p, r)' <=> Released(p, r)
    BY <1>1 DEF Released, Releasing
  <2>. QED  BY <1>1, <2>1, CountsUnchanged DEF OrderInv
<1>6. DispatchedAtZero'
  <2>1. \A r \in Request : Dispatched(r)' => Dispatched(r)
    BY <1>1 DEF Dispatched, Queued
  <2>. QED  BY <1>1, <2>1 DEF OrderInv, DispatchedAtZero
<1>7. OnePlace'
  <2>1. QueueOnce'
    BY <1>1, <1>2 DEF QueueOnce
  <2>2. WorkersApart'
    BY <1>1, <1>2 DEF WorkersApart
  <2>3. ASSUME NEW v \in Worker
        PROVE  WorkerPlace(v)'
    <3>1. WorkerPlace(v)
      BY DEF OrderInv, OnePlace
    <3>2. ~Queued(cur[v])' /\ ~Queued(ready[v])'
      BY <1>1, <3>1 DEF WorkerPlace, Queued
    <3>3. CASE v = w
      <4>1. cur'[v] = NoRequest /\ pc'[v] \in {"notifyAll", "dequeue"}
            /\ ready'[v] = ready[v]
        BY <1>1, <3>3
      <4>. QED  BY <1>1, <3>1, <3>2, <3>3, <4>1 DEF WorkerPlace, Producing, Releasing
    <3>4. CASE v # w
      <4>1. cur'[v] = cur[v] /\ pc'[v] = pc[v]
        BY <1>1, <3>4
      <4>. QED  BY <1>1, <3>1, <3>2, <4>1 DEF WorkerPlace
    <3>. QED  BY <3>3, <3>4
  <2>. QED  BY <2>1, <2>2, <2>3 DEF OnePlace
<1>8. ResponseWhenPast'
  <2>0. /\ \A v \in Worker \ {w} : cur'[v] = cur[v] /\ pc'[v] = pc[v]
        /\ cur'[w] = NoRequest /\ pc[w] = "retire" /\ nodeIndex[cur[w]] = "freed"
    BY <1>1, <1>3
  <2> HIDE DEF TypeInv, TypeOK
  <2>1. \A r \in Request : PastExecution(r)' <=> PastExecution(r)
    BY <1>1, <2>0 DEF PastExecution, Releasing
  <2>2. \A r \in Request :
           (\E v \in Worker : cur'[v] = r /\ pc'[v] = "threw")
              <=> (\E v \in Worker : cur[v] = r /\ pc[v] = "threw")
    BY <2>0
  <2>. QED  BY <1>1, <2>1, <2>2 DEF OrderInv, ResponseWhenPast
<1>9. Phases'
  <2>1. main \notin {"finalize", "build", "spawn"}
    BY <1>1 DEF OrderInv, Phases
  <2>. QED  BY <1>1, <2>1 DEF OrderInv, Phases
<1>. QED
  BY <1>1, <1>4, <1>5, <1>6, <1>7, <1>8, <1>9 DEF OrderInv, CrashNeedsDroppedEdge

\* The assertion or a reset node stops the process only where an edge was dropped.
LEMMA OrderCrash ==
    ASSUME TypeInv, OrderInv, NEW w \in Worker, DecrementCrashes(w)
    PROVE  OrderInv'
<1>1. UNCHANGED <<adj, nodeIndex, inDegree, finalized, content, pc, cur, todo, ready,
                  response, main>>
  BY DEF DecrementCrashes, graphVars, dagVars, queueVars, workerVars, mainVars
<1>2. ~NoDroppedEdge
  <2>1. NoDroppedEdge /\ pc[w] = "release" =>
           \A a \in todo[w] : nodeIndex[a] = "live" /\ inDegree[a] > 0
    BY VisitedCounts
  <2>. QED  BY <2>1 DEF DecrementCrashes
<1>3. CrashNeedsDroppedEdge'
  BY <1>1, <1>2 DEF CrashNeedsDroppedEdge, NoDroppedEdge
<1>. QED
  BY <1>1, <1>3 DEF OrderInv, Held, InDegreeCounts, Unreleased, Released,
     DispatchedAtZero, Dispatched, Queued, OnePlace, QueueOnce, WorkerPlace, WorkersApart,
     ResponseWhenPast, PastExecution, Phases, CountsMatch, NoDroppedEdge

\* No step of a worker disturbs the order.
LEMMA OrderWorker ==
    ASSUME TypeInv, OrderInv, TypeInv', NEW w \in Worker,
           WorkerStep(w) \/ SpuriousWake(w)
    PROVE  OrderInv'
BY OrderWorkerPcOnly, OrderDequeue, OrderExecute, OrderSubmit, OrderDecrement, OrderCrash,
   OrderEnqueue, OrderReset, OrderRetire DEF WorkerStep

\* Before buildExecDag nothing is dispatched, so finalizing a request adds it to
\* what each of its adjacent nodes waits for, and the increments keep up.
LEMMA OrderFinalize ==
    ASSUME TypeInv, OrderInv, TypeInv', NEW id \in Request, FinalizeRequest(id)
    PROVE  OrderInv'
<1> USE Ids DEF TypeInv, TypeOK
<1>1. /\ main = "finalize" /\ id \notin finalized /\ finalized' = finalized \cup {id}
      /\ inDegree' = [r \in Request |-> IF r \in adj[id] THEN inDegree[r] + 1
                                                         ELSE inDegree[r]]
      /\ UNCHANGED <<adj, nodeIndex, content, pc, cur, todo, ready, response,
                     crashed, main>>
  BY DEF FinalizeRequest, graphVars, queueVars, workerVars, mainVars
<1>2. \A r \in Request : ~Dispatched(r) /\ ~Dispatched(r)'
  BY <1>1 DEF OrderInv, Phases, Dispatched, Queued
<1>3. \A r \in Request, p \in Request : ~Released(p, r) /\ ~Released(p, r)'
  BY <1>1, <1>2 DEF Released, Dispatched
<1>4. CountsMatch'
  <2> SUFFICES ASSUME NoDroppedEdge  PROVE InDegreeCounts'
    BY <1>1 DEF CountsMatch, NoDroppedEdge
  <2>1. ASSUME NEW r \in Request
        PROVE  inDegree'[r] = Cardinality(Unreleased(r)')
    <3> DEFINE U == Unreleased(r)
    <3>1. IsFiniteSet(U) /\ id \notin U /\ inDegree[r] = Cardinality(U)
      BY <1>1, RequestsFinite DEF Unreleased, OrderInv, CountsMatch, InDegreeCounts
    <3>2. CASE r \in adj[id]
      <4>1. Unreleased(r)' = U \cup {id}
        BY <1>1, <1>3, <3>2 DEF Unreleased
      <4>2. inDegree'[r] = inDegree[r] + 1
        BY <1>1, <3>2
      <4> HIDE DEF U, TypeInv, TypeOK
      <4>3. Cardinality(U \cup {id}) = Cardinality(U) + 1
        BY <3>1, FS_AddElement
      <4>. QED  BY <3>1, <4>1, <4>2, <4>3
    <3>3. CASE r \notin adj[id]
      <4>1. Unreleased(r)' = U
        BY <1>1, <1>3, <3>3 DEF Unreleased
      <4>. QED  BY <1>1, <3>1, <3>3, <4>1
    <3>. QED  BY <3>2, <3>3
  <2>. QED  BY <2>1 DEF InDegreeCounts
<1>5. Held' /\ QueueOnce' /\ WorkersApart'
  BY <1>1 DEF OrderInv, Held, OnePlace, QueueOnce, WorkersApart
<1>6. ASSUME NEW v \in Worker
      PROVE  WorkerPlace(v)'
  <2>1. WorkerPlace(v)
    BY DEF OrderInv, OnePlace
  <2>. QED  BY <1>1, <2>1 DEF WorkerPlace, Queued
<1>7. ResponseWhenPast'
  BY <1>1 DEF OrderInv, ResponseWhenPast, PastExecution
<1>8. Phases'
  BY <1>1, <1>2 DEF OrderInv, Phases
<1>. QED
  BY <1>1, <1>2, <1>4, <1>5, <1>6, <1>7, <1>8
     DEF OrderInv, OnePlace, DispatchedAtZero, CrashNeedsDroppedEdge

\* buildExecDag dispatches nodes of in-degree zero only, each once.
LEMMA OrderBuild ==
    ASSUME TypeInv, OrderInv, TypeInv', BuildExecDag
    PROVE  OrderInv'
<1> USE Ids DEF TypeInv, TypeOK
<1>1. PICK k \in 0 .. NumRequests :
         /\ IsSourceCount(k) /\ content' = [i \in 1 .. k |-> i - 1]
         /\ main' \in {"threw", "spawn"}
  BY DEF BuildExecDag
<1>2. /\ main = "build"
      /\ UNCHANGED <<adj, nodeIndex, inDegree, finalized, pc, cur, todo, ready,
                     response, crashed>>
  BY DEF BuildExecDag, graphVars, dagVars, workerVars
<1>3. k \in Nat /\ Len(content') = k /\ \A i \in 1 .. k : content'[i] = i - 1
  BY <1>1, SchedulerAssumption
<1>4. \A r : Queued(r)' => r \in Request /\ inDegree[r] = 0
  BY <1>1, <1>3, SchedulerAssumption DEF Queued, IsSourceCount, Request
<1>5. \A r \in Request : ~Dispatched(r)
  BY <1>2 DEF OrderInv, Phases
<1>6. \A v \in Worker : cur[v] = NoRequest /\ ready[v] = NoRequest
  BY <1>5 DEF Dispatched
<1>7. \A r \in Request : nodeIndex[r] = "live"
  BY <1>5 DEF Dispatched
<1>8. Held' /\ WorkersApart'
  BY <1>2 DEF OrderInv, Held, OnePlace, WorkersApart
<1>9. CountsMatch'
  <2>1. \A p, r \in Request : Released(p, r)' <=> Released(p, r)
    BY <1>2 DEF Released
  <2>. QED  BY <1>2, <2>1, CountsUnchanged DEF OrderInv
<1>10. DispatchedAtZero'
  BY <1>2, <1>4, <1>6, <1>7 DEF DispatchedAtZero, Dispatched
<1>11. QueueOnce'
  BY <1>2, <1>3, <1>4, <1>7 DEF QueueOnce, Queued
<1>12. ASSUME NEW v \in Worker
       PROVE  WorkerPlace(v)'
  <2>1. ~Queued(NoRequest)'
    BY <1>4
  <2>2. ~Queued(cur[v])' /\ ~Queued(ready[v])'
    BY <1>2, <1>6, <2>1 DEF Queued
  <2>3. pc[v] = "unborn"
    BY <1>2 DEF OrderInv, Phases
  <2>. QED  BY <1>2, <1>6, <2>2, <2>3 DEF WorkerPlace, Releasing
<1>13. ResponseWhenPast'
  BY <1>2 DEF OrderInv, ResponseWhenPast, PastExecution
<1>14. Phases'
  BY <1>1, <1>2 DEF OrderInv, Phases
<1>. QED
  BY <1>2, <1>8, <1>9, <1>10, <1>11, <1>12, <1>13, <1>14 DEF OrderInv, OnePlace, CrashNeedsDroppedEdge

\* The other steps of the calling thread start, join and abandon workers.
LEMMA OrderMain ==
    ASSUME TypeInv, OrderInv, TypeInv', MainStep
    PROVE  OrderInv'
<1> USE Ids
<1>1. pc \in [Worker -> Labels] /\ pc' \in [Worker -> Labels]
  BY DEF TypeInv, TypeOK
<1>2. ASSUME FinalizeEnds \/ Join \/ Unwind \/ ReturnResponses
      PROVE  OrderInv'
  <2>1. /\ UNCHANGED <<adj, nodeIndex, inDegree, finalized, content, cur, todo,
                       ready, response, crashed, pc>>
        /\ main' # "finalize" => finalized = Covered(NumRequests, WorkersCount)
        /\ main' \in {"finalize", "build"} => main' = main \/ main = "finalize"
        /\ main' # "spawn"
    BY <1>2 DEF FinalizeEnds, Join, Unwind, ReturnResponses, graphVars, dagVars,
                queueVars, workerVars, mainVars, OrderInv, Phases
  <2>. QED  BY <1>1, <2>1, OrderPcOnly
<1>3. ASSUME SpawnWorkers \/ RunDeferred
      PROVE  OrderInv'
  <2>1. /\ UNCHANGED <<adj, nodeIndex, inDegree, finalized, content, cur, todo,
                       ready, response, crashed>>
        /\ main \in {"spawn", "join"} /\ main' = "join"
    BY <1>3 DEF SpawnWorkers, RunDeferred, graphVars, dagVars, queueVars, workerVars,
                mainVars
  <2>2. \A v \in Worker :
           pc'[v] = pc[v] \/ (pc[v] \in {"unborn", "deferred"} /\ pc'[v] \notin Producing)
    <3>1. CASE SpawnWorkers
      BY <3>1 DEF SpawnWorkers, OrderInv, Phases, Producing
    <3>2. CASE RunDeferred
      BY <1>1, <3>2 DEF RunDeferred, Goto, Producing
    <3>. QED  BY <1>3, <3>1, <3>2
  <2>3. \A v \in Worker : pc[v] \in {"unborn", "deferred"} => cur[v] = NoRequest
    BY IdleHoldsNothing DEF Producing
  <2>4. \A v \in Worker :
           \/ pc'[v] = pc[v]
           \/ /\ cur[v] = NoRequest /\ pc[v] # "enqueue"
              /\ pc'[v] \notin Producing
    BY <2>2, <2>3
  <2>5. finalized = Covered(NumRequests, WorkersCount)
    BY <2>1 DEF OrderInv, Phases
  <2>. QED  BY <1>1, <2>1, <2>4, <2>5, OrderPcOnly
<1>. QED
  BY <1>2, <1>3, OrderFinalize, OrderBuild DEF MainStep

LEMMA OrderStutter ==
    ASSUME OrderInv, UNCHANGED vars
    PROVE  OrderInv'
<1>1. UNCHANGED <<adj, nodeIndex, inDegree, finalized, content, pc, cur, todo, ready,
                  response, crashed, main>>
  BY DEF vars, graphVars, dagVars, queueVars, workerVars, mainVars
<1>. QED
  BY <1>1 DEF OrderInv, Held, InDegreeCounts, Unreleased, Released, DispatchedAtZero,
     Dispatched, Queued, OnePlace, QueueOnce, WorkerPlace, WorkersApart,
     ResponseWhenPast, PastExecution, Phases, CountsMatch, NoDroppedEdge, CrashNeedsDroppedEdge

\* The strengthened invariant is inductive.
LEMMA OrderInvariant == Spec => [](TypeInv /\ OrderInv)
<1>1. Init => TypeInv /\ OrderInv
  BY TypeInit, OrderInit
<1>2. TypeInv /\ OrderInv /\ [Next]_vars => (TypeInv /\ OrderInv)'
  BY TypeMain, TypeWorker, TypeStutter, OrderMain, OrderWorker, OrderStutter DEF Next
<1>. QED  BY <1>1, <1>2, PTL DEF Spec

\* The counters say where the workers are: a request that waits for nothing is in the
\* queue once, with one worker, or past its execution; and as long as runAll dropped no
\* edge an in-degree is the number of finalized predecessors that have not decremented
\* it yet.
THEOREM CountersMatchWorkers == Spec => []OrderInv
BY OrderInvariant, PTL

\* The process stops at assert(inDegree > 0) or at a freed node only if runAll left out a
\* finalizeRequest whose node has successors: on no other graph, cycles and self-loops
\* included, and with no other schedule or failure.
THEOREM CrashOnlyAtDroppedEdge == Spec => []CrashNeedsDroppedEdge
<1>1. OrderInv => CrashNeedsDroppedEdge
  BY DEF OrderInv
<1>. QED  BY <1>1, OrderInvariant, PTL

\* No edge is dropped for ever if none is at the start: the graph does not change.
LEMMA EdgesKept == Spec /\ NoDroppedEdge => []NoDroppedEdge
<1>1. NoDroppedEdge /\ [Next]_vars => NoDroppedEdge'
  <2>1. [Next]_vars => adj' = adj
    BY DEF Next, MainStep, WorkerStep, vars, graphVars,
       FinalizeRequest, FinalizeEnds, BuildExecDag, SpawnWorkers, RunDeferred, Join,
       Unwind, ReturnResponses, Dequeue, DequeueWaits, DequeueUnderflows, NoRequestLeft,
       Execute, ExecuteThrows, Submit, SubmitThrows, Decrement, DecrementCrashes,
       Enqueue, NotifyOne, ResetNode, CountDown, RemoveProducer, NotifyAll, SpuriousWake
  <2>. QED  BY <2>1 DEF NoDroppedEdge
<1>. QED  BY <1>1, PTL DEF Spec

\* A run of runAll that finalizes every request drops no edge.
LEMMA CoverDropsNone == SlicesCover => NoDroppedEdge
BY DEF SlicesCover, NoDroppedEdge

\* When runAll drops no edge, every worker that executes a request finds all the
\* requests it depends on executed, for any graph and any schedule.
THEOREM ExecutionRespectsOrder == Spec /\ NoDroppedEdge => []PredecessorsFirst
<1>1. ASSUME TypeInv, OrderInv, NoDroppedEdge
      PROVE  PredecessorsFirst
  <2> SUFFICES ASSUME NEW w \in Worker, pc[w] = "execute",
                      NEW p \in Request, cur[w] \in adj[p]
               PROVE  response[p] # NoResponse
    BY DEF PredecessorsFirst
  <2>1. cur[w] \in Request /\ Dispatched(cur[w])
    BY <1>1 DEF OrderInv, Held, Producing, Dispatched
  <2>2. main # "finalize"
    BY <1>1, <2>1 DEF OrderInv, Phases
  <2>3. p \in finalized
    BY <1>1, <2>2 DEF OrderInv, Phases, NoDroppedEdge
  <2>4. Released(p, cur[w])
    BY <1>1, <2>1, <2>3, DispatchedReleased DEF TypeInv
  <2>5. PastExecution(p)
    BY <2>4 DEF Released, PastExecution
  <2>. QED  BY <1>1, <2>5 DEF OrderInv, ResponseWhenPast
<1>2. TypeInv /\ OrderInv /\ NoDroppedEdge => PredecessorsFirst
  BY <1>1
<1>. QED  BY <1>2, OrderInvariant, EdgesKept, PTL

\* When runAll finalizes every request, assert(inDegree > 0) never fails and no freed
\* node is used.
THEOREM NeverCrashes == SlicesCover => (Spec => []NoCrash)
<1> SUFFICES ASSUME SlicesCover  PROVE Spec => []NoCrash
  OBVIOUS
<1>1. CrashNeedsDroppedEdge => NoCrash
  BY DEF CrashNeedsDroppedEdge, NoCrash, SlicesCover
<1>. QED  BY <1>1, CrashOnlyAtDroppedEdge, PTL

\* No request is executed twice, whatever runAll left out.
THEOREM ExecutesOnce == Spec => ExecutedOnce
<1> DEFINE Once ==
        \A w \in Worker : pc[w] # "execute" /\ pc'[w] = "execute" =>
            /\ response[cur'[w]] = NoResponse
            /\ \A v \in Worker : cur[v] # cur'[w]
<1>1. ASSUME TypeInv, OrderInv, [Next]_vars, NEW w \in Worker,
             pc[w] # "execute", pc'[w] = "execute"
      PROVE  /\ response[cur'[w]] = NoResponse
             /\ \A v \in Worker : cur[v] # cur'[w]
  <2>1. Dequeue(w)
    BY <1>1 DEF TypeInv, TypeOK, Next, MainStep, WorkerStep, vars, workerVars, Goto,
       FinalizeRequest, FinalizeEnds, BuildExecDag, SpawnWorkers, RunDeferred, Join,
       Unwind, ReturnResponses, Dequeue, DequeueWaits, DequeueUnderflows, NoRequestLeft,
       Execute, ExecuteThrows, Submit, SubmitThrows, Decrement, DecrementCrashes,
       Enqueue, NotifyOne, Waiting, ResetNode, CountDown, RemoveProducer, NotifyAll,
       SpuriousWake
  <2>2. cur'[w] = Head(content) /\ content # << >>
    BY <1>1, <2>1 DEF Dequeue, TypeInv, TypeOK
  <2>3. PICK h \in Request : h = cur'[w] /\ Queued(h)
    <3>1. content \in Seq(Request)
      BY <1>1 DEF TypeInv, TypeOK
    <3>2. Head(content) = content[1] /\ content[1] \in Request /\ 1 \in 1 .. Len(content)
      BY <2>2, <3>1
    <3>. QED  BY <2>2, <3>2 DEF Queued
  <2>4. \A v \in Worker : cur[v] # h
    BY <1>1, <2>3 DEF OrderInv, OnePlace, WorkerPlace
  <2>5. nodeIndex[h] = "live"
    BY <1>1, <2>3 DEF OrderInv, OnePlace, QueueOnce, Queued
  <2>6. response[h] = NoResponse
    BY <1>1, <2>4, <2>5 DEF OrderInv, ResponseWhenPast, PastExecution
  <2>. QED  BY <2>3, <2>4, <2>6
<1>2. TypeInv /\ OrderInv /\ [Next]_vars => [Once]_vars
  BY <1>1
<1>. QED  BY <1>2, OrderInvariant, PTL DEF Spec, ExecutedOnce

-----------------------------------------------------------------------------
(* The counters of the queue and of the scheduler *)

LEMMA WorkersFinite ==
    ASSUME NEW S \in SUBSET Worker
    PROVE  IsFiniteSet(S)
<1>1. IsFiniteSet(Worker)
  BY FS_Interval, SchedulerAssumption DEF Worker
<1>. QED  BY <1>1, FS_Subset

LEMMA ProducersInit == Init => ProducersCounted
<1> SUFFICES ASSUME Init  PROVE ProducersCounted
  OBVIOUS
<1>1. {w \in Worker : cur[w] # NoRequest} = {}
  BY DEF Init
<1>. QED  BY <1>1, FS_EmptySet DEF Init, ProducersCounted

\* blockingDequeue and removeProducer each change the count and the worker's request in
\* one critical section; no other step touches either.
LEMMA ProducersStep ==
    ASSUME TypeInv, OrderInv, ProducersCounted, [Next]_vars
    PROVE  ProducersCounted'
<1> DEFINE P == {v \in Worker : cur[v] # NoRequest}
<1>1. IsFiniteSet(P)
  BY WorkersFinite
<1>2. ASSUME NEW w \in Worker, Dequeue(w)
      PROVE  ProducersCounted'
  <2>1. w \notin P
    BY <1>2, IdleHoldsNothing DEF Dequeue, Producing
  <2>2. P' = P \cup {w} /\ producerCount' = producerCount + 1
    <3>1. Head(content) \in Request
      BY <1>2 DEF Dequeue, TypeInv, TypeOK
    <3>2. cur' = [cur EXCEPT ![w] = Head(content)] /\ Head(content) # NoRequest
      BY <1>2, <3>1, Ids DEF Dequeue
    <3>. QED  BY <1>2, <3>2 DEF Dequeue, TypeInv, TypeOK
  <2> HIDE DEF P
  <2>3. Cardinality(P \cup {w}) = Cardinality(P) + 1
    BY <1>1, <2>1, FS_AddElement
  <2>. QED  BY <2>2, <2>3 DEF ProducersCounted, P
<1>3. ASSUME NEW w \in Worker, RemoveProducer(w)
      PROVE  ProducersCounted'
  <2>1. w \in P
    BY <1>3, Ids DEF RemoveProducer, OrderInv, Held, Producing
  <2>2. P' = P \ {w} /\ producerCount' = producerCount - 1
    BY <1>3 DEF RemoveProducer, TypeInv, TypeOK
  <2> HIDE DEF P
  <2>3. Cardinality(P \ {w}) = Cardinality(P) - 1
    BY <1>1, <2>1, FS_RemoveElement
  <2>. QED  BY <2>2, <2>3 DEF ProducersCounted, P
<1>4. ASSUME UNCHANGED <<cur, producerCount>>
      PROVE  ProducersCounted'
  BY <1>4 DEF ProducersCounted
<1>5. \/ \E w \in Worker : Dequeue(w) \/ RemoveProducer(w)
      \/ UNCHANGED <<cur, producerCount>>
  BY DEF Next, MainStep, WorkerStep, vars, queueVars, workerVars,
     FinalizeRequest, FinalizeEnds, BuildExecDag, SpawnWorkers, RunDeferred, Join,
     Unwind, ReturnResponses, DequeueWaits, DequeueUnderflows, NoRequestLeft,
     Execute, ExecuteThrows, Submit, SubmitThrows, Decrement, DecrementCrashes,
     Enqueue, NotifyOne, ResetNode, CountDown, NotifyAll, SpuriousWake
<1>. QED  BY <1>2, <1>3, <1>4, <1>5

\* producerCount is the number of workers that hold a request, also when workers throw
\* (they are never removed) and after a crash.
THEOREM ProducersAreCounted == Spec => []ProducersCounted
<1>1. TypeInv /\ OrderInv /\ ProducersCounted /\ [Next]_vars => ProducersCounted'
  BY ProducersStep
<1>. QED  BY <1>1, ProducersInit, OrderInvariant, PTL DEF Spec

\* remaining lags behind the live nodes by the workers between reset and --remaining.
LiveNodes == {r \in Request : nodeIndex[r] = "live"}
CountingDown == {w \in Worker : pc[w] = "countDown"}
RemainingCounts == remaining = Cardinality(LiveNodes) + Cardinality(CountingDown)

LEMMA RemainingInit == Init => RemainingCounts
<1> SUFFICES ASSUME Init  PROVE RemainingCounts
  OBVIOUS
<1>1. LiveNodes = Request /\ CountingDown = {} /\ remaining = NumRequests
  BY DEF Init, LiveNodes, CountingDown
<1>2. Cardinality(Request) = NumRequests
  <2>1. 0 \in Int /\ NumRequests - 1 \in Int /\ NumRequests \in Nat
    BY SchedulerAssumption
  <2>2. Cardinality(0 .. NumRequests - 1)
           = IF 0 > NumRequests - 1 THEN 0 ELSE (NumRequests - 1) - 0 + 1
    BY <2>1, FS_Interval
  <2>. QED  BY <2>1, <2>2 DEF Request
<1>. QED  BY <1>1, <1>2, FS_EmptySet, SchedulerAssumption DEF RemainingCounts

\* A node leaves LiveNodes when its worker enters CountingDown, and the worker leaves
\* CountingDown when it decrements.
LEMMA RemainingStep ==
    ASSUME TypeInv, OrderInv, RemainingCounts, [Next]_vars
    PROVE  RemainingCounts'
<1>1. IsFiniteSet(LiveNodes) /\ IsFiniteSet(CountingDown)
  BY RequestsFinite, WorkersFinite DEF LiveNodes, CountingDown
<1>2. Cardinality(LiveNodes) \in Nat /\ Cardinality(CountingDown) \in Nat
  BY <1>1, FS_CardinalityType
<1>3. ASSUME NEW w \in Worker, ResetNode(w)
      PROVE  RemainingCounts'
  <2>1. PICK c \in Request : c = cur[w]
    BY <1>3 DEF ResetNode, OrderInv, Held, Producing
  <2>2. c \in LiveNodes /\ w \notin CountingDown
    <3>1. pc[w] = "release" /\ WorkerPlace(w)
      BY <1>3 DEF ResetNode, OrderInv, OnePlace
    <3>2. nodeIndex[c] # "freed"
      BY <2>1, <3>1 DEF WorkerPlace
    <3>. QED  BY <3>1, <3>2 DEF LiveNodes, CountingDown, TypeInv, TypeOK
  <2>3. /\ LiveNodes' = LiveNodes \ {c}
        /\ CountingDown' = CountingDown \cup {w}
        /\ remaining' = remaining
    BY <1>3, <2>1 DEF ResetNode, Goto, LiveNodes, CountingDown, TypeInv, TypeOK
  <2>4. Cardinality(LiveNodes \ {c}) = Cardinality(LiveNodes) - 1
    BY <1>1, <2>2, FS_RemoveElement
  <2>5. Cardinality(CountingDown \cup {w}) = Cardinality(CountingDown) + 1
    BY <1>1, <2>2, FS_AddElement
  <2>. QED  BY <1>2, <2>3, <2>4, <2>5 DEF RemainingCounts
<1>4. ASSUME NEW w \in Worker, CountDown(w)
      PROVE  RemainingCounts'
  <2>1. /\ LiveNodes' = LiveNodes /\ w \in CountingDown
        /\ CountingDown' = CountingDown \ {w}
        /\ remaining' = remaining - 1
    BY <1>4 DEF CountDown, Goto, dagVars, LiveNodes, CountingDown, TypeInv, TypeOK
  <2>2. Cardinality(CountingDown \ {w}) = Cardinality(CountingDown) - 1
    BY <1>1, <2>1, FS_RemoveElement
  <2>. QED  BY <1>2, <2>1, <2>2 DEF RemainingCounts
<1>5. ASSUME UNCHANGED <<nodeIndex, remaining>>, CountingDown' = CountingDown
      PROVE  RemainingCounts'
  BY <1>5 DEF RemainingCounts, LiveNodes
<1>6. \/ \E w \in Worker : ResetNode(w) \/ CountDown(w)
      \/ UNCHANGED <<nodeIndex, remaining>> /\ CountingDown' = CountingDown
  <2> USE DEF CountingDown
  <2>1. ASSUME MainStep
        PROVE  UNCHANGED <<nodeIndex, remaining>> /\ CountingDown' = CountingDown
    <3>1. UNCHANGED <<nodeIndex, remaining>>
      BY <2>1 DEF MainStep, dagVars, FinalizeRequest, FinalizeEnds, BuildExecDag,
         SpawnWorkers, RunDeferred, Join, Unwind, ReturnResponses
    <3>2. CASE SpawnWorkers
      BY <3>1, <3>2 DEF SpawnWorkers, OrderInv, Phases
    <3>3. CASE RunDeferred
      BY <3>1, <3>3 DEF RunDeferred, Goto, TypeInv, TypeOK
    <3>4. CASE ~SpawnWorkers /\ ~RunDeferred
      BY <2>1, <3>1, <3>4 DEF MainStep, workerVars, FinalizeRequest, FinalizeEnds,
         BuildExecDag, Join, Unwind, ReturnResponses
    <3>. QED  BY <3>2, <3>3, <3>4
  <2>2. ASSUME NEW w \in Worker, WorkerStep(w) \/ SpuriousWake(w),
               ~ResetNode(w), ~CountDown(w)
        PROVE  UNCHANGED <<nodeIndex, remaining>> /\ CountingDown' = CountingDown
    <3>1. UNCHANGED <<nodeIndex, remaining>>
      BY <2>2 DEF WorkerStep, dagVars, Dequeue, DequeueWaits, DequeueUnderflows,
         NoRequestLeft, Execute, ExecuteThrows, Submit, SubmitThrows, Decrement,
         DecrementCrashes, Enqueue, NotifyOne, RemoveProducer, NotifyAll, SpuriousWake
    <3>2. \A v \in Worker : pc'[v] = "countDown" <=> pc[v] = "countDown"
      BY <2>2 DEF WorkerStep, workerVars, Goto, Dequeue, DequeueWaits, DequeueUnderflows,
         NoRequestLeft, Execute, ExecuteThrows, Submit, SubmitThrows, Decrement,
         DecrementCrashes, Enqueue, NotifyOne, RemoveProducer, NotifyAll, SpuriousWake,
         Waiting, TypeInv, TypeOK
    <3>. QED  BY <3>1, <3>2
  <2>3. ASSUME UNCHANGED vars
        PROVE  UNCHANGED <<nodeIndex, remaining>> /\ CountingDown' = CountingDown
    BY <2>3 DEF vars, dagVars, workerVars
  <2>. QED  BY <2>1, <2>2, <2>3 DEF Next
<1>. QED  BY <1>3, <1>4, <1>5, <1>6

\* A worker that reads remaining = 0 finds every node freed, and nodes stay freed.
LEMMA NullStep ==
    ASSUME TypeInv, OrderInv, OrderInv', RemainingCounts, NullMeansAllExecuted, [Next]_vars
    PROVE  NullMeansAllExecuted'
<1> SUFFICES ASSUME NEW w \in Worker, pc'[w] = "done"
             PROVE  \A r \in Request : nodeIndex'[r] = "freed" /\ response'[r] # NoResponse
  BY DEF NullMeansAllExecuted
<1>1. \A r \in Request : nodeIndex[r] = "freed" => nodeIndex'[r] = "freed"
  BY DEF TypeInv, TypeOK, Next, MainStep, WorkerStep, vars, dagVars,
     FinalizeRequest, FinalizeEnds, BuildExecDag, SpawnWorkers, RunDeferred, Join,
     Unwind, ReturnResponses, Dequeue, DequeueWaits, DequeueUnderflows, NoRequestLeft,
     Execute, ExecuteThrows, Submit, SubmitThrows, Decrement, DecrementCrashes,
     Enqueue, NotifyOne, ResetNode, CountDown, RemoveProducer, NotifyAll, SpuriousWake
<1>2. CASE pc[w] = "done"
  BY <1>1, <1>2 DEF NullMeansAllExecuted, OrderInv, ResponseWhenPast, PastExecution
<1>3. CASE pc[w] # "done"
  <2>0. ~MainStep
    <3>1. CASE SpawnWorkers
      BY <3>1 DEF SpawnWorkers
    <3>2. CASE RunDeferred
      BY <1>3, <3>2 DEF RunDeferred, Goto, TypeInv, TypeOK
    <3>3. ASSUME MainStep, ~SpawnWorkers, ~RunDeferred  PROVE pc' = pc
      BY <3>3 DEF MainStep, workerVars, FinalizeRequest, FinalizeEnds, BuildExecDag,
         Join, Unwind, ReturnResponses
    <3>. QED  BY <1>3, <3>1, <3>2, <3>3
  <2>1. NoRequestLeft(w) /\ remaining = 0
    <3>1. PICK v \in Worker : WorkerStep(v) \/ SpuriousWake(v)
      BY <1>3, <2>0 DEF Next, vars, workerVars
    <3>. QED
      BY <1>3, <3>1 DEF TypeInv, TypeOK, WorkerStep, workerVars, Goto, Dequeue,
         DequeueWaits, DequeueUnderflows, NoRequestLeft, Execute, ExecuteThrows, Submit,
         SubmitThrows, Decrement, DecrementCrashes, Enqueue, NotifyOne, Waiting,
         ResetNode, CountDown, RemoveProducer, NotifyAll, SpuriousWake
  <2>2. IsFiniteSet(LiveNodes) /\ IsFiniteSet(CountingDown)
    BY RequestsFinite, WorkersFinite DEF LiveNodes, CountingDown
  <2>3. Cardinality(LiveNodes) = 0
    BY <2>1, <2>2, FS_CardinalityType DEF RemainingCounts
  <2>4. LiveNodes = {}
    BY <2>2, <2>3, FS_EmptySet
  <2>5. \A r \in Request : nodeIndex[r] = "freed"
    BY <2>4 DEF LiveNodes, TypeInv, TypeOK
  <2>. QED  BY <1>1, <2>5 DEF OrderInv, ResponseWhenPast, PastExecution
<1>. QED  BY <1>2, <1>3

\* remaining never runs ahead of the nodes.
LEMMA RemainingInvariant == Spec => []RemainingCounts
<1>1. TypeInv /\ OrderInv /\ RemainingCounts /\ [Next]_vars => RemainingCounts'
  BY RemainingStep
<1>. QED  BY <1>1, RemainingInit, OrderInvariant, PTL DEF Spec

\* A worker that nextRequest ends with a null pointer leaves no request behind, although
\* it reads remaining after it has left the queue's critical section.
THEOREM NullMeansTheEnd == Spec => []NullMeansAllExecuted
<1>1. Init => NullMeansAllExecuted
  BY DEF Init, NullMeansAllExecuted
<1>2. TypeInv /\ OrderInv /\ OrderInv' /\ RemainingCounts /\ NullMeansAllExecuted /\ [Next]_vars
         => NullMeansAllExecuted'
  BY NullStep
<1>. QED  BY <1>1, <1>2, OrderInvariant, RemainingInvariant, PTL DEF Spec

-----------------------------------------------------------------------------
(* The verdict *)

\* Nothing but the graph can make the call throw.
NoFailures == ~ExecutorMayThrow /\ PayerSets \subseteq {{}}

-----------------------------------------------------------------------------
(* The graph *)

\* The graph stays what it was when the requests were added.
LEMMA GraphKept == [Next]_vars => UNCHANGED <<adj, payers>>
BY DEF Next, MainStep, WorkerStep, vars, graphVars,
   FinalizeRequest, FinalizeEnds, BuildExecDag, SpawnWorkers, RunDeferred, Join,
   Unwind, ReturnResponses, Dequeue, DequeueWaits, DequeueUnderflows, NoRequestLeft,
   Execute, ExecuteThrows, Submit, SubmitThrows, Decrement, DecrementCrashes,
   Enqueue, NotifyOne, ResetNode, CountDown, RemoveProducer, NotifyAll, SpuriousWake

LEMMA GraphFacts ==
    ASSUME [Next]_vars
    PROVE  /\ Runnable' = Runnable
           /\ \A r : IsInitialSource(r)' <=> IsInitialSource(r)
           /\ \A r : Predecessors(r)' = Predecessors(r)
           /\ NoDroppedEdge' <=> NoDroppedEdge
<1>1. adj' = adj
  BY GraphKept
<1>2. \A r : Predecessors(r)' = Predecessors(r)
  BY <1>1 DEF Predecessors
<1>3. \A r : IsInitialSource(r)' <=> IsInitialSource(r)
  BY <1>2 DEF IsInitialSource
<1>4. Runnable' = Runnable
  BY <1>2, <1>3 DEF Runnable
<1>. QED  BY <1>1, <1>2, <1>3, <1>4 DEF NoDroppedEdge

\* Runnable is closed under execution.
LEMMA RunnableClosed ==
    ASSUME NEW r \in Request,
           \/ IsInitialSource(r)
           \/ Predecessors(r) # {} /\ Predecessors(r) \subseteq Runnable
    PROVE  r \in Runnable
BY DEF Runnable

\* ... and it is the least such set.
LEMMA RunnableLeast ==
    ASSUME NEW S \in SUBSET Request,
           \A q \in Request :
              (IsInitialSource(q) \/ (Predecessors(q) # {} /\ Predecessors(q) \subseteq S))
                 => q \in S
    PROVE  Runnable \subseteq S
BY DEF Runnable

-----------------------------------------------------------------------------
(* What is dispatched *)

\* A dispatched request stays dispatched, from the queue to the freed node.
LEMMA DispatchedKept ==
    ASSUME TypeInv, OrderInv, [Next]_vars, NEW r \in Request, Dispatched(r)
    PROVE  Dispatched(r)'
<1> USE Ids DEF TypeInv, TypeOK
<1>1. CASE Queued(r)
  <2>1. PICK i \in 1 .. Len(content) : content[i] = r
    BY <1>1 DEF Queued
  <2>2. ASSUME NEW w \in Worker, Dequeue(w)
        PROVE  Dispatched(r)'
    <3>1. /\ content \in Seq(Request) /\ content # << >> /\ content' = Tail(content)
          /\ cur' = [cur EXCEPT ![w] = Head(content)]
      BY <2>2 DEF Dequeue
    <3>2. CASE i = 1
      <4>1. cur'[w] = r
        BY <2>1, <3>1, <3>2
      <4>. QED  BY <4>1 DEF Dispatched
    <3>3. CASE i # 1
      <4>1. i - 1 \in 1 .. Len(content') /\ content'[i - 1] = r
        BY <2>1, <3>1, <3>3
      <4>. QED  BY <4>1 DEF Dispatched, Queued
    <3>. QED  BY <3>2, <3>3
  <2>3. ASSUME NEW w \in Worker, Enqueue(w)
        PROVE  Dispatched(r)'
    <3>1. ready[w] \in Request /\ content' = Append(content, ready[w])
      BY <2>3 DEF Enqueue, OrderInv, Held
    <3>2. i \in 1 .. Len(content') /\ content'[i] = r
      BY <2>1, <3>1
    <3>. QED  BY <3>2 DEF Dispatched, Queued
  <2>4. ~BuildExecDag
    BY <1>1 DEF BuildExecDag, OrderInv, Phases, Dispatched
  <2>5. CASE content' = content
    BY <1>1, <2>5 DEF Dispatched, Queued
  <2>6. content' = content \/ \E w \in Worker : Dequeue(w) \/ Enqueue(w)
    BY <2>4 DEF Next, MainStep, WorkerStep, vars, queueVars,
       FinalizeRequest, FinalizeEnds, SpawnWorkers, RunDeferred, Join,
       Unwind, ReturnResponses, DequeueWaits, DequeueUnderflows, NoRequestLeft,
       Execute, ExecuteThrows, Submit, SubmitThrows, Decrement, DecrementCrashes,
       NotifyOne, ResetNode, CountDown, RemoveProducer, NotifyAll, SpuriousWake
  <2>. QED  BY <2>2, <2>3, <2>5, <2>6
<1>2. CASE nodeIndex[r] = "freed"
  <2>1. nodeIndex'[r] = "freed"
    BY <1>2 DEF Next, MainStep, WorkerStep, vars, dagVars,
       FinalizeRequest, FinalizeEnds, BuildExecDag, SpawnWorkers, RunDeferred, Join,
       Unwind, ReturnResponses, Dequeue, DequeueWaits, DequeueUnderflows, NoRequestLeft,
       Execute, ExecuteThrows, Submit, SubmitThrows, Decrement, DecrementCrashes,
       Enqueue, NotifyOne, ResetNode, CountDown, RemoveProducer, NotifyAll, SpuriousWake
  <2>. QED  BY <2>1 DEF Dispatched
<1>3. ASSUME NEW v \in Worker, cur[v] = r, nodeIndex[r] # "freed"
      PROVE  Dispatched(r)'
  <2>1. ASSUME NEW w \in Worker, Dequeue(w)
        PROVE  cur'[v] = r
    <3>1. v # w
      BY <1>3, <2>1, IdleHoldsNothing DEF Dequeue, Producing
    <3>. QED  BY <1>3, <2>1, <3>1 DEF Dequeue
  <2>2. ASSUME NEW w \in Worker, RemoveProducer(w)
        PROVE  cur'[v] = r
    <3>1. WorkerPlace(v)
      BY DEF OrderInv, OnePlace
    <3>2. v # w
      BY <1>3, <2>2, <3>1 DEF RemoveProducer, WorkerPlace
    <3>. QED  BY <1>3, <2>2, <3>2 DEF RemoveProducer
  <2>3. cur' = cur \/ \E w \in Worker : Dequeue(w) \/ RemoveProducer(w)
    BY DEF Next, MainStep, WorkerStep, vars, workerVars,
       FinalizeRequest, FinalizeEnds, BuildExecDag, SpawnWorkers, RunDeferred, Join,
       Unwind, ReturnResponses, DequeueWaits, DequeueUnderflows, NoRequestLeft,
       Execute, ExecuteThrows, Submit, SubmitThrows, Decrement, DecrementCrashes,
       Enqueue, NotifyOne, ResetNode, CountDown, NotifyAll, SpuriousWake
  <2>4. cur'[v] = r
    BY <1>3, <2>1, <2>2, <2>3
  <2>. QED  BY <2>4 DEF Dispatched
<1>4. ASSUME NEW v \in Worker, ready[v] = r
      PROVE  Dispatched(r)'
  <2>1. pc[v] = "enqueue"
    BY <1>4, IdleHoldsNothing
  <2>2. ASSUME NEW w \in Worker, Enqueue(w)
        PROVE  Dispatched(r)'
    <3>1. CASE v = w
      <4>1. content \in Seq(Request) /\ content' = Append(content, r)
        BY <1>4, <2>2, <3>1 DEF Enqueue
      <4>2. Len(content) + 1 \in 1 .. Len(content') /\ content'[Len(content) + 1] = r
        BY <4>1
      <4>. QED  BY <4>2 DEF Dispatched, Queued
    <3>2. CASE v # w
      BY <1>4, <2>2, <3>2 DEF Enqueue, Dispatched
    <3>. QED  BY <3>1, <3>2
  <2>3. ASSUME NEW w \in Worker, Decrement(w)
        PROVE  Dispatched(r)'
    <3>1. v # w /\ \/ ready' = ready
                   \/ \E a \in Request : ready' = [ready EXCEPT ![w] = a]
      BY <2>1, <2>3 DEF Decrement
    <3>2. ready'[v] = r
      BY <1>4, <3>1
    <3>. QED  BY <3>2 DEF Dispatched
  <2>4. ready' = ready \/ \E w \in Worker : Enqueue(w) \/ Decrement(w)
    BY DEF Next, MainStep, WorkerStep, vars, workerVars,
       FinalizeRequest, FinalizeEnds, BuildExecDag, SpawnWorkers, RunDeferred, Join,
       Unwind, ReturnResponses, Dequeue, DequeueWaits, DequeueUnderflows, NoRequestLeft,
       Execute, ExecuteThrows, Submit, SubmitThrows, DecrementCrashes,
       NotifyOne, ResetNode, CountDown, RemoveProducer, NotifyAll, SpuriousWake
  <2>5. CASE ready' = ready
    BY <1>4, <2>5 DEF Dispatched
  <2>. QED  BY <2>2, <2>3, <2>4, <2>5
<1>. QED  BY <1>1, <1>2, <1>3, <1>4 DEF Dispatched

\* A request is dispatched by buildExecDag or by the visit that brings its in-degree to
\* zero, and by nothing else.
LEMMA DispatchedNew ==
    ASSUME TypeInv, OrderInv, [Next]_vars, NEW r \in Request, ~Dispatched(r), Dispatched(r)'
    PROVE  \/ BuildExecDag /\ Queued(r)'
           \/ \E w \in Worker : Decrement(w) /\ r \in todo[w] /\ inDegree[r] = 1
<1> USE Ids DEF TypeInv, TypeOK
<1>1. ASSUME NEW w \in Worker, Dequeue(w)
      PROVE  FALSE
  <2>1. /\ content \in Seq(Request) /\ content # << >> /\ content' = Tail(content)
        /\ cur' = [cur EXCEPT ![w] = Head(content)] /\ Head(content) = content[1]
        /\ 1 \in 1 .. Len(content) /\ UNCHANGED <<ready, nodeIndex>>
    BY <1>1 DEF Dequeue, dagVars
  <2>2. \A i \in 1 .. Len(content') : content'[i] = content[i + 1]
                                      /\ i + 1 \in 1 .. Len(content)
    BY <2>1
  <2>. QED  BY <2>1, <2>2 DEF Dispatched, Queued
<1>2. ASSUME NEW w \in Worker, Enqueue(w)
      PROVE  FALSE
  <2>1. PICK a \in Request : /\ a = ready[w] /\ content' = Append(content, a)
                             /\ content \in Seq(Request)
                             /\ ready' = [ready EXCEPT ![w] = NoRequest]
                             /\ UNCHANGED <<cur, nodeIndex>>
    BY <1>2 DEF Enqueue, OrderInv, Held, dagVars
  <2>2. ASSUME NEW i \in 1 .. Len(content')
        PROVE  \/ content'[i] = a
               \/ i \in 1 .. Len(content) /\ content'[i] = content[i]
    <3>1. Len(content) \in Nat /\ Len(content') = Len(content) + 1
      BY <2>1
    <3>2. i = Len(content) + 1 \/ i \in 1 .. Len(content)
      BY <3>1
    <3> HIDE DEF TypeInv, TypeOK
    <3>. QED  BY <2>1, <3>1, <3>2
  <2>. QED  BY <2>1, <2>2 DEF Dispatched, Queued
<1>3. ASSUME NEW w \in Worker, Decrement(w)
      PROVE  r \in todo[w] /\ inDegree[r] = 1
  <2>1. PICK a \in todo[w] :
           /\ IF inDegree[a] - 1 = 0
              THEN ready' = [ready EXCEPT ![w] = a]
              ELSE UNCHANGED ready
           /\ UNCHANGED <<content, cur, nodeIndex>>
    BY <1>3 DEF Decrement, queueVars
  <2>2. r = a /\ inDegree[a] - 1 = 0
    BY <2>1 DEF Dispatched, Queued
  <2>. QED  BY <2>2
<1>4. ASSUME NEW w \in Worker, RemoveProducer(w)
      PROVE  FALSE
  BY <1>4 DEF RemoveProducer, Dispatched, Queued, dagVars
<1>5. ASSUME NEW w \in Worker, ResetNode(w)
      PROVE  FALSE
  BY <1>5 DEF ResetNode, Dispatched, Queued, queueVars
<1>6. ASSUME BuildExecDag
      PROVE  Queued(r)'
  BY <1>6 DEF BuildExecDag, Dispatched, Queued, dagVars, workerVars
<1>7. ASSUME UNCHANGED <<content, cur, ready, nodeIndex>>
      PROVE  FALSE
  BY <1>7 DEF Dispatched, Queued
<1>8. \/ UNCHANGED <<content, cur, ready, nodeIndex>>
      \/ BuildExecDag
      \/ \E w \in Worker : Dequeue(w) \/ Enqueue(w) \/ Decrement(w) \/ RemoveProducer(w)
                           \/ ResetNode(w)
  BY DEF Next, MainStep, WorkerStep, vars, dagVars, queueVars, workerVars,
     FinalizeRequest, FinalizeEnds, SpawnWorkers, RunDeferred, Join, Unwind,
     ReturnResponses, DequeueWaits, DequeueUnderflows, NoRequestLeft,
     Execute, ExecuteThrows, Submit, SubmitThrows, DecrementCrashes,
     NotifyOne, CountDown, NotifyAll, SpuriousWake
<1>. QED  BY <1>1, <1>2, <1>3, <1>4, <1>5, <1>6, <1>7, <1>8

\* What is dispatched can be run, and after buildExecDag whatever has nothing to wait for
\* is dispatched, except a source that is not among the first ids.
DispatchIsClosed ==
    /\ \A r \in Request : Dispatched(r) => r \in Runnable
    /\ main \notin {"finalize", "build"} =>
          \A r \in Request :
              IsInitialSource(r) \/ (Predecessors(r) # {} /\ inDegree[r] = 0)
                  => Dispatched(r)

\* The scheduler has come to rest: nothing is queued and nobody holds a request.
Quiet == content = << >> /\ \A v \in Worker : cur[v] = NoRequest

\* An underflow means rest: nobody can enqueue any more.
UnderflowIsRest == \A w \in Worker : pc[w] = "underflow" => Quiet

\* A worker throws at rest, with requests left over, and then the call throws; it returns
\* after every worker it joined has ended.
ThrewStuck ==
    /\ \A w \in Worker : pc[w] = "threw" =>
          Quiet /\ \E r \in Request : nodeIndex[r] = "live"
    /\ main = "unwind" => \E w \in Worker : pc[w] = "threw"
    /\ main = "threw" => Runnable # Request \/ Request = {}
JoinedDone ==
    /\ \A w \in Worker : w < joined => pc[w] = "done"
    /\ main = "returned" => joined \notin Worker
    /\ main \in {"returned", "threw"} => \A w \in Worker : pc[w] \in Ended \cup {"unborn", "deferred"}

VerdictInv ==
    /\ payers = {} /\ DispatchIsClosed /\ UnderflowIsRest /\ ThrewStuck /\ JoinedDone

LEMMA VerdictInit == NoFailures => (Init => VerdictInv)
<1> SUFFICES ASSUME NoFailures, Init  PROVE VerdictInv
  OBVIOUS
<1>1. payers = {}
  BY DEF NoFailures, Init
<1>2. \A r \in Request : ~Dispatched(r)
  BY Ids DEF Init, Dispatched, Queued
<1>. QED
  BY <1>1, <1>2, SchedulerAssumption DEF Init, VerdictInv, DispatchIsClosed,
     UnderflowIsRest, ThrewStuck, JoinedDone, Worker

\* buildExecDag enqueues the ids of IsInitialSource, because after runAll an in-degree of
\* zero means that nobody has the request in an adjacency list.
LEMMA BuildSources ==
    ASSUME TypeInv, OrderInv, NoDroppedEdge, BuildExecDag, NEW r \in Request
    PROVE  /\ inDegree[r] = 0 <=> Predecessors(r) = {}
           /\ Queued(r)' <=> IsInitialSource(r)
<1> USE Ids DEF TypeInv, TypeOK
<1>1. main = "build"
  BY DEF BuildExecDag
<1>2. finalized = Covered(NumRequests, WorkersCount) /\ \A p \in Request : ~Dispatched(p)
  BY <1>1 DEF OrderInv, Phases
<1>3. \A q \in Request : inDegree[q] = 0 <=> Predecessors(q) = {}
  <2> SUFFICES ASSUME NEW q \in Request
               PROVE  inDegree[q] = 0 <=> Predecessors(q) = {}
    OBVIOUS
  <2>1. \A p \in Request : ~Released(p, q)
    BY <1>2 DEF Released, Dispatched
  <2>2. \A p \in Request : q \in adj[p] => p \in finalized
    BY <1>2 DEF NoDroppedEdge
  <2>3. Unreleased(q) = Predecessors(q)
    BY <2>1, <2>2 DEF Unreleased, Predecessors
  <2>4. inDegree[q] = Cardinality(Predecessors(q))
    BY <2>3 DEF OrderInv, CountsMatch, InDegreeCounts
  <2>5. IsFiniteSet(Predecessors(q))
    BY RequestsFinite DEF Predecessors
  <2>. QED  BY <2>4, <2>5, FS_EmptySet
<1>4. PICK k \in 0 .. NumRequests : IsSourceCount(k) /\ content' = [i \in 1 .. k |-> i - 1]
  BY DEF BuildExecDag
<1>5. k \in Nat /\ NumRequests \in Nat
  BY SchedulerAssumption
<1>6. Queued(r)' <=> r < k
  <2>1. ASSUME Queued(r)'  PROVE r < k
    <3>1. PICK i \in 1 .. Len(content') : content'[i] = r
      BY <2>1 DEF Queued
    <3>. QED  BY <1>4, <1>5, <3>1
  <2>2. ASSUME r < k  PROVE Queued(r)'
    <3>1. r + 1 \in 1 .. Len(content') /\ content'[r + 1] = r
      BY <1>4, <1>5, <2>2
    <3>. QED  BY <3>1 DEF Queued
  <2>. QED  BY <2>1, <2>2
<1>7. IsInitialSource(r) <=> r < k
  <2>1. ASSUME r < k, NEW q \in 0 .. r  PROVE Predecessors(q) = {}
    <3>1. q \in Request /\ q < k
      BY <2>1, <1>5 DEF Request
    <3>. QED  BY <1>3, <1>4, <3>1 DEF IsSourceCount
  <2>2. ASSUME ~(r < k), IsInitialSource(r)  PROVE FALSE
    <3>1. k \in Request /\ k \in 0 .. r
      BY <2>2, <1>5 DEF Request
    <3>. QED  BY <1>3, <1>4, <2>2, <3>1 DEF IsSourceCount, IsInitialSource
  <2>. QED  BY <2>1, <2>2 DEF IsInitialSource
<1>. QED  BY <1>3, <1>6, <1>7

\* The last predecessor to visit a node was dispatched like all the others.
LEMMA VisitRunnable ==
    ASSUME TypeInv, OrderInv, NoDroppedEdge, DispatchIsClosed,
           NEW w \in Worker, pc[w] = "release", NEW r \in todo[w], inDegree[r] = 1
    PROVE  r \in Runnable
<1> USE Ids DEF TypeInv, TypeOK
<1>1. r \in Request /\ cur[w] \in Unreleased(r)
  BY VisitedCounts
<1>2. main \notin {"finalize", "build"}
  BY DEF OrderInv, Phases
<1>3. Unreleased(r) = {cur[w]}
  <2>1. IsFiniteSet(Unreleased(r)) /\ Cardinality(Unreleased(r)) = 1
    BY <1>1, RequestsFinite DEF Unreleased, OrderInv, CountsMatch, InDegreeCounts
  <2> HIDE DEF TypeInv, TypeOK
  <2>2. \E x : Unreleased(r) = {x}
    BY <2>1, FS_Singleton
  <2>. QED  BY <1>1, <2>2
<1>4. ASSUME NEW p \in Predecessors(r)
      PROVE  p \in Runnable
  <2>1. p \in Request /\ r \in adj[p]
    BY DEF Predecessors
  <2>2. finalized = Covered(NumRequests, WorkersCount)
    BY <1>2 DEF OrderInv, Phases
  <2>3. p \in finalized
    BY <2>1, <2>2 DEF NoDroppedEdge
  <2>4. p = cur[w] \/ Released(p, r)
    BY <1>3, <2>1, <2>3 DEF Unreleased
  <2>5. Dispatched(p)
    BY <2>4 DEF Released, Dispatched
  <2>. QED  BY <2>1, <2>5 DEF DispatchIsClosed
<1>5. cur[w] \in Predecessors(r)
  BY <1>1 DEF Unreleased, Predecessors
<1>. QED  BY <1>1, <1>4, <1>5, RunnableClosed

LEMMA DispatchStep ==
    ASSUME TypeInv, OrderInv, OrderInv', NoDroppedEdge, DispatchIsClosed, [Next]_vars
    PROVE  DispatchIsClosed'
<1> USE Ids DEF TypeInv, TypeOK
<1>1. ASSUME NEW r \in Request, Dispatched(r)'
      PROVE  r \in Runnable'
  <2>1. CASE Dispatched(r)
    BY <2>1, GraphFacts DEF DispatchIsClosed
  <2>2. CASE ~Dispatched(r) /\ BuildExecDag /\ Queued(r)'
    <3>1. IsInitialSource(r)
      BY <2>2, BuildSources
    <3>. QED  BY <3>1, GraphFacts, RunnableClosed
  <2>3. ASSUME NEW w \in Worker, Decrement(w), r \in todo[w], inDegree[r] = 1
        PROVE  r \in Runnable'
    <3>1. pc[w] = "release"
      BY <2>3 DEF Decrement
    <3>. QED  BY <2>3, <3>1, GraphFacts, VisitRunnable
  <2>. QED  BY <1>1, <2>1, <2>2, <2>3, DispatchedNew
<1>2. ASSUME main' \notin {"finalize", "build"}, NEW r \in Request,
             IsInitialSource(r)' \/ (Predecessors(r)' # {} /\ inDegree'[r] = 0)
      PROVE  Dispatched(r)'
  <2>1. IsInitialSource(r) \/ (Predecessors(r) # {} /\ inDegree'[r] = 0)
    BY <1>2, GraphFacts
  <2>2. CASE main \in {"finalize", "build"}
    <3>1. BuildExecDag
      <4>1. \A w \in Worker : ~WorkerStep(w) /\ ~SpuriousWake(w)
        <5>1. \A w \in Worker : pc[w] = "unborn"
          BY <2>2 DEF OrderInv, Phases
        <5>. QED
          BY <5>1 DEF WorkerStep, Dequeue, DequeueWaits, DequeueUnderflows, NoRequestLeft,
             Execute, ExecuteThrows, Submit, SubmitThrows, Decrement, DecrementCrashes,
             Enqueue, NotifyOne, ResetNode, CountDown, RemoveProducer, NotifyAll,
             SpuriousWake
      <4>. QED
        BY <1>2, <2>2, <4>1 DEF Next, MainStep, vars, mainVars, FinalizeRequest,
           FinalizeEnds, SpawnWorkers, RunDeferred, Join, Unwind, ReturnResponses
    <3>2. inDegree' = inDegree
      BY <3>1 DEF BuildExecDag, dagVars
    <3>. QED  BY <2>1, <3>1, <3>2, BuildSources DEF Dispatched
  <2>3. CASE main \notin {"finalize", "build"} /\ (IsInitialSource(r) \/ inDegree[r] = 0)
    BY <2>1, <2>3, DispatchedKept DEF DispatchIsClosed
  <2>4. CASE main \notin {"finalize", "build"} /\ inDegree[r] # 0 /\ inDegree'[r] = 0
    <3>1. PICK w \in Worker : Decrement(w)
      BY <2>4 DEF Next, MainStep, WorkerStep, vars, dagVars,
         FinalizeRequest, FinalizeEnds, BuildExecDag, SpawnWorkers, RunDeferred, Join,
         Unwind, ReturnResponses, Dequeue, DequeueWaits, DequeueUnderflows, NoRequestLeft,
         Execute, ExecuteThrows, Submit, SubmitThrows, DecrementCrashes,
         Enqueue, NotifyOne, ResetNode, CountDown, RemoveProducer, NotifyAll, SpuriousWake
    <3>2. ready'[w] = r
      BY <2>4, <3>1 DEF Decrement
    <3>. QED  BY <3>2 DEF Dispatched
  <2>. QED  BY <2>1, <2>2, <2>3, <2>4
<1>. QED  BY <1>1, <1>2 DEF DispatchIsClosed

\* At rest what is dispatched is freed, so the freed requests are closed under execution.
LEMMA RestReachesAll ==
    ASSUME TypeInv, OrderInv, NoDroppedEdge, DispatchIsClosed, Quiet,
           main \notin {"finalize", "build"}
    PROVE  Runnable = {r \in Request : nodeIndex[r] = "freed"}
<1> USE Ids DEF TypeInv, TypeOK
<1> DEFINE S == {r \in Request : nodeIndex[r] = "freed"}
<1>1. \A r \in Request : Dispatched(r) <=> nodeIndex[r] = "freed"
  <2>1. \A v \in Worker : cur[v] = NoRequest /\ ready[v] = NoRequest
    BY IdleHoldsNothing DEF Quiet, OrderInv, Held, Producing
  <2>2. \A r : ~Queued(r)
    BY DEF Quiet, Queued
  <2>. QED  BY <2>1, <2>2 DEF Dispatched
<1>2. S \subseteq Runnable
  BY <1>1 DEF DispatchIsClosed
<1>3. ASSUME NEW q \in Request, Predecessors(q) # {}, Predecessors(q) \subseteq S
      PROVE  q \in S
  <2>1. Unreleased(q) = {}
    BY <1>3 DEF Unreleased, Released, Predecessors
  <2>2. inDegree[q] = 0
    BY <2>1, FS_EmptySet DEF OrderInv, CountsMatch, InDegreeCounts
  <2>. QED  BY <1>1, <1>3, <2>2 DEF DispatchIsClosed
<1>4. \A q \in Request : IsInitialSource(q) => q \in S
  BY <1>1 DEF DispatchIsClosed
<1>5. Runnable \subseteq S
  <2> HIDE DEF S
  <2>1. S \in SUBSET Request
    BY DEF S
  <2>. QED  BY <1>3, <1>4, <2>1, RunnableLeast
<1>. QED  BY <1>2, <1>5

\* Rest is for ever: what would end it is in the queue or in a worker's hands.
LEMMA QuietKept ==
    ASSUME TypeInv, OrderInv, Quiet, [Next]_vars, main \notin {"finalize", "build"}
    PROVE  Quiet' /\ nodeIndex' = nodeIndex
<1>1. \A v \in Worker : pc[v] \notin Producing
  BY Ids DEF Quiet, OrderInv, Held
<1>2. ASSUME NEW w \in Worker, WorkerStep(w)
      PROVE  UNCHANGED <<content, cur, nodeIndex>>
  BY <1>1, <1>2 DEF Producing, Quiet, WorkerStep, dagVars, queueVars, workerVars, Dequeue,
     DequeueWaits, DequeueUnderflows, NoRequestLeft, Execute, ExecuteThrows, Submit,
     SubmitThrows, Decrement, DecrementCrashes, Enqueue, NotifyOne, ResetNode, CountDown,
     RemoveProducer, NotifyAll
<1>3. ASSUME NEW w \in Worker, SpuriousWake(w)
      PROVE  UNCHANGED <<content, cur, nodeIndex>>
  BY <1>3 DEF SpuriousWake, dagVars, queueVars
<1>4. ASSUME MainStep
      PROVE  UNCHANGED <<content, cur, nodeIndex>>
  BY <1>4 DEF MainStep, dagVars, queueVars, workerVars, FinalizeRequest, FinalizeEnds,
     BuildExecDag, SpawnWorkers, RunDeferred, Join, Unwind, ReturnResponses
<1>5. UNCHANGED <<content, cur, nodeIndex>>
  BY <1>2, <1>3, <1>4 DEF Next, vars, dagVars, queueVars, workerVars
<1>. QED  BY <1>5 DEF Quiet

\* Who gets into the places where a worker ends, and from where.
LEMMA EndingMoves ==
    ASSUME TypeInv, [Next]_vars, NEW v \in Worker, pc'[v] # pc[v],
           pc'[v] \in {"underflow"} \cup Ended
    PROVE  \/ DequeueUnderflows(v) \/ NoRequestLeft(v) \/ ExecuteThrows(v) \/ SubmitThrows(v)
<1>1. ~MainStep
  <2>1. CASE SpawnWorkers
    BY <2>1 DEF SpawnWorkers, Ended
  <2>2. CASE RunDeferred
    BY <2>2 DEF RunDeferred, Goto, TypeInv, TypeOK, Ended
  <2>3. ASSUME MainStep, ~SpawnWorkers, ~RunDeferred  PROVE pc' = pc
    BY <2>3 DEF MainStep, workerVars, FinalizeRequest, FinalizeEnds, BuildExecDag,
       Join, Unwind, ReturnResponses
  <2>. QED  BY <2>1, <2>2, <2>3
<1>2. PICK w \in Worker : WorkerStep(w) \/ SpuriousWake(w)
  BY <1>1 DEF Next, vars, workerVars
<1>. QED
  BY <1>2 DEF TypeInv, TypeOK, WorkerStep, workerVars, Goto, Ended, Dequeue,
     DequeueWaits, DequeueUnderflows, NoRequestLeft, Execute, ExecuteThrows, Submit,
     SubmitThrows, Decrement, DecrementCrashes, Enqueue, NotifyOne, Waiting,
     ResetNode, CountDown, RemoveProducer, NotifyAll, SpuriousWake

\* A worker that has ended does nothing any more.
LEMMA EndedStay ==
    ASSUME TypeInv, OrderInv, [Next]_vars, NEW v \in Worker, pc[v] \in Ended
    PROVE  pc'[v] = pc[v]
<1>1. CASE MainStep
  <2>1. CASE SpawnWorkers
    BY <2>1 DEF SpawnWorkers, OrderInv, Phases, Ended
  <2>2. CASE RunDeferred
    BY <2>2 DEF RunDeferred, Goto, TypeInv, TypeOK, Ended
  <2>3. ASSUME MainStep, ~SpawnWorkers, ~RunDeferred  PROVE pc' = pc
    BY <2>3 DEF MainStep, workerVars, FinalizeRequest, FinalizeEnds, BuildExecDag,
       Join, Unwind, ReturnResponses
  <2>. QED  BY <1>1, <2>1, <2>2, <2>3
<1>2. ASSUME NEW w \in Worker, WorkerStep(w) \/ SpuriousWake(w)
      PROVE  pc'[v] = pc[v]
  BY <1>2 DEF TypeInv, TypeOK, WorkerStep, workerVars, Goto, Ended, Dequeue,
     DequeueWaits, DequeueUnderflows, NoRequestLeft, Execute, ExecuteThrows, Submit,
     SubmitThrows, Decrement, DecrementCrashes, Enqueue, NotifyOne, Waiting,
     ResetNode, CountDown, RemoveProducer, NotifyAll, SpuriousWake
<1>. QED  BY <1>1, <1>2 DEF Next, vars, workerVars

\* Without payers nothing throws but nextRequest.
LEMMA OnlyNextRequestThrows ==
    ASSUME NoFailures, TypeInv, OrderInv, payers = {}, NEW w \in Worker
    PROVE  ~ExecuteThrows(w) /\ ~SubmitThrows(w)
<1>1. ~ExecuteThrows(w)
  BY DEF NoFailures, ExecuteThrows
<1>2. ~SubmitThrows(w)
  BY DEF SubmitThrows, FailedFeePayment
<1>. QED  BY <1>1, <1>2

\* The last producer has left and the queue is empty: nobody holds anything.
LEMMA UnderflowStep ==
    ASSUME TypeInv, OrderInv, ProducersCounted, UnderflowIsRest, NoFailures, payers = {},
           [Next]_vars
    PROVE  UnderflowIsRest'
<1> SUFFICES ASSUME NEW w \in Worker, pc'[w] = "underflow"
             PROVE  Quiet'
  BY DEF UnderflowIsRest
<1>1. Quiet /\ pc[w] # "unborn"
  <2>1. CASE pc[w] = "underflow"
    BY <2>1 DEF UnderflowIsRest
  <2>2. CASE pc[w] # "underflow"
    <3>1. DequeueUnderflows(w)
      <4>1. \/ DequeueUnderflows(w) \/ NoRequestLeft(w) \/ ExecuteThrows(w) \/ SubmitThrows(w)
        BY <2>2, EndingMoves
      <4>. QED
        BY <2>2, <4>1, OnlyNextRequestThrows DEF NoRequestLeft
    <3>2. content = << >> /\ producerCount <= 0 /\ pc[w] = "dequeue"
      BY <3>1 DEF DequeueUnderflows
    <3> DEFINE P == {v \in Worker : cur[v] # NoRequest}
    <3>3. IsFiniteSet(P)
      BY WorkersFinite
    <3>4. Cardinality(P) \in Nat /\ Cardinality(P) <= 0
      BY <3>2, <3>3, FS_CardinalityType DEF ProducersCounted
    <3>5. P = {}
      BY <3>3, <3>4, FS_EmptySet
    <3>. QED  BY <3>2, <3>5 DEF Quiet
  <2>. QED  BY <2>1, <2>2
<1>2. main \notin {"finalize", "build"}
  BY <1>1 DEF OrderInv, Phases
<1>. QED  BY <1>1, <1>2, QuietKept

\* A worker throws because remaining is not zero at rest: a node is live, and no step
\* will ever free it.
LEMMA ThrewStep ==
    ASSUME TypeInv, OrderInv, NoDroppedEdge, RemainingCounts, NoFailures, VerdictInv,
           [Next]_vars
    PROVE  ThrewStuck'
<1>1. ASSUME NEW w \in Worker, pc'[w] = "threw"
      PROVE  Quiet' /\ \E r \in Request : nodeIndex'[r] = "live"
  <2>1. (Quiet /\ \E r \in Request : nodeIndex[r] = "live") /\ pc[w] # "unborn"
    <3>1. CASE pc[w] = "threw"
      BY <3>1 DEF VerdictInv, ThrewStuck
    <3>2. CASE pc[w] # "threw"
      <4>1. NoRequestLeft(w)
        <5>1. \/ DequeueUnderflows(w) \/ NoRequestLeft(w) \/ ExecuteThrows(w) \/ SubmitThrows(w)
          BY <1>1, <3>2, EndingMoves DEF Ended
        <5>2. ~DequeueUnderflows(w)
          BY <1>1 DEF DequeueUnderflows, Goto, TypeInv, TypeOK
        <5>. QED  BY <5>1, <5>2, OnlyNextRequestThrows DEF VerdictInv
      <4>2. pc[w] = "underflow" /\ remaining # 0
        BY <1>1, <4>1 DEF NoRequestLeft, Goto, TypeInv, TypeOK
      <4>3. Quiet
        BY <4>2 DEF VerdictInv, UnderflowIsRest
      <4>4. CountingDown = {}
        BY <4>3, Ids DEF Quiet, CountingDown, OrderInv, Held, Producing
      <4>5. LiveNodes # {}
        BY <4>2, <4>4, FS_EmptySet DEF RemainingCounts
      <4>. QED  BY <4>2, <4>3, <4>5 DEF LiveNodes
    <3>. QED  BY <3>1, <3>2
  <2>2. main \notin {"finalize", "build"}
    BY <2>1 DEF OrderInv, Phases
  <2>. QED  BY <2>1, <2>2, QuietKept
<1>2. ASSUME main' = "unwind"
      PROVE  \E w \in Worker : pc'[w] = "threw"
  <2>1. \E w \in Worker : pc[w] = "threw"
    <3>1. CASE main = "unwind"
      BY <3>1 DEF VerdictInv, ThrewStuck
    <3>2. CASE main # "unwind"
      <4>1. Join
        BY <1>2, <3>2 DEF Next, MainStep, WorkerStep, vars, mainVars, FinalizeRequest,
           FinalizeEnds, BuildExecDag, SpawnWorkers, RunDeferred, Unwind, ReturnResponses,
           Dequeue, DequeueWaits, DequeueUnderflows, NoRequestLeft, Execute, ExecuteThrows,
           Submit, SubmitThrows, Decrement, DecrementCrashes, Enqueue, NotifyOne, ResetNode,
           CountDown, RemoveProducer, NotifyAll, SpuriousWake
      <4>. QED  BY <1>2, <3>2, <4>1 DEF Join
    <3>. QED  BY <3>1, <3>2
  <2>2. PICK w \in Worker : pc[w] = "threw"
    BY <2>1
  <2>. QED  BY <2>2, EndedStay DEF Ended
<1>3. ASSUME main' = "threw"
      PROVE  Runnable' # Request \/ Request = {}
  <2>1. CASE main = "threw"
    BY <2>1, GraphFacts DEF VerdictInv, ThrewStuck
  <2>2. CASE BuildExecDag /\ NumRequests > 0
    <3>1. 0 \in Request
      BY <2>2, SchedulerAssumption DEF Request
    <3>2. PICK k \in 0 .. NumRequests : IsSourceCount(k) /\ k = 0
      BY <1>3, <2>2 DEF BuildExecDag
    <3>3. inDegree[0] # 0
      BY <3>1, <3>2 DEF IsSourceCount
    <3>4. Predecessors(0) # {}
      BY <2>2, <3>1, <3>3, BuildSources
    <3>5. \A q \in Request : ~IsInitialSource(q)
      <4>1. \A q \in Request : 0 \in 0 .. q
        BY DEF Request
      <4>. QED  BY <3>4, <4>1 DEF IsInitialSource
    <3>6. Runnable \subseteq {}
      <4>1. \A q \in Request : Predecessors(q) # {} => ~(Predecessors(q) \subseteq {})
        OBVIOUS
      <4>2. {} \in SUBSET Request
        OBVIOUS
      <4>. QED  BY <3>5, <4>1, <4>2, RunnableLeast
    <3>. QED  BY <3>1, <3>6, GraphFacts
  <2>3. CASE NumRequests = 0
    BY <2>3 DEF Request
  <2>4. CASE Unwind
    <3>1. main = "unwind"
      BY <2>4 DEF Unwind
    <3>2. Quiet /\ \E r \in Request : nodeIndex[r] = "live"
      BY <3>1 DEF VerdictInv, ThrewStuck
    <3>3. Runnable # Request
      BY <3>1, <3>2, RestReachesAll DEF VerdictInv
    <3>. QED  BY <3>3, GraphFacts
  <2>5. main = "threw" \/ BuildExecDag \/ Unwind
    BY <1>3 DEF Next, MainStep, WorkerStep, vars, mainVars, FinalizeRequest,
       FinalizeEnds, SpawnWorkers, RunDeferred, Join, ReturnResponses,
       Dequeue, DequeueWaits, DequeueUnderflows, NoRequestLeft, Execute, ExecuteThrows,
       Submit, SubmitThrows, Decrement, DecrementCrashes, Enqueue, NotifyOne, ResetNode,
       CountDown, RemoveProducer, NotifyAll, SpuriousWake
  <2>6. NumRequests = 0 \/ NumRequests > 0
    BY SchedulerAssumption
  <2>. QED  BY <2>1, <2>2, <2>3, <2>4, <2>5, <2>6
<1>. QED  BY <1>1, <1>2, <1>3 DEF ThrewStuck

LEMMA JoinedStep ==
    ASSUME TypeInv, OrderInv, JoinedDone, [Next]_vars
    PROVE  JoinedDone'
<1>1. ASSUME NEW w \in Worker, w < joined'
      PROVE  pc'[w] = "done"
  <2>1. /\ joined \in Nat /\ w \in Nat
        /\ joined' = joined \/ (joined' = joined + 1 /\ pc[joined] = "done")
    <3>1. joined' = joined \/ Join
      BY DEF Next, MainStep, WorkerStep, vars, mainVars, FinalizeRequest,
         FinalizeEnds, BuildExecDag, SpawnWorkers, RunDeferred, Unwind, ReturnResponses,
         Dequeue, DequeueWaits, DequeueUnderflows, NoRequestLeft, Execute, ExecuteThrows,
         Submit, SubmitThrows, Decrement, DecrementCrashes, Enqueue, NotifyOne, ResetNode,
         CountDown, RemoveProducer, NotifyAll, SpuriousWake
    <3>2. Join => joined' = joined \/ (joined' = joined + 1 /\ pc[joined] = "done")
      BY DEF Join
    <3>3. joined \in Nat /\ w \in Nat
      BY Ids, SchedulerAssumption DEF TypeInv, TypeOK
    <3>. QED  BY <3>1, <3>2, <3>3
  <2>2. pc[w] = "done"
    <3>1. w < joined \/ (w = joined /\ pc[joined] = "done")
      <4>1. CASE joined' = joined
        BY <1>1, <4>1
      <4>2. CASE joined' = joined + 1 /\ pc[joined] = "done"
        BY <1>1, <2>1, <4>2
      <4>. QED  BY <2>1, <4>1, <4>2
    <3>. QED  BY <3>1 DEF JoinedDone
  <2>. QED  BY <2>2, EndedStay DEF Ended
<1>2. ASSUME main' = "returned"
      PROVE  joined' \notin Worker
  <2>1. \/ main = "returned" /\ UNCHANGED joined
        \/ ReturnResponses
    BY <1>2 DEF Next, MainStep, WorkerStep, vars, mainVars, FinalizeRequest,
       FinalizeEnds, BuildExecDag, SpawnWorkers, RunDeferred, Join, Unwind,
       Dequeue, DequeueWaits, DequeueUnderflows, NoRequestLeft, Execute, ExecuteThrows,
       Submit, SubmitThrows, Decrement, DecrementCrashes, Enqueue, NotifyOne, ResetNode,
       CountDown, RemoveProducer, NotifyAll, SpuriousWake
  <2>. QED  BY <2>1 DEF JoinedDone, ReturnResponses
<1>3. ASSUME main' \in {"returned", "threw"}, NEW w \in Worker
      PROVE  pc'[w] \in Ended \cup {"unborn", "deferred"}
  <2>1. CASE main \in {"returned", "threw"}
    <3>1. \A v \in Worker : pc[v] \in Ended \cup {"unborn", "deferred"}
      BY <2>1 DEF JoinedDone
    <3>2. ~MainStep
      BY <2>1 DEF MainStep, FinalizeRequest, FinalizeEnds, BuildExecDag, SpawnWorkers,
         RunDeferred, Join, Unwind, ReturnResponses
    <3>3. \A v \in Worker : ~WorkerStep(v) /\ ~SpuriousWake(v)
      BY <3>1 DEF Ended, WorkerStep, Dequeue, DequeueWaits, DequeueUnderflows,
         NoRequestLeft, Execute, ExecuteThrows, Submit, SubmitThrows, Decrement,
         DecrementCrashes, Enqueue, NotifyOne, ResetNode, CountDown, RemoveProducer,
         NotifyAll, SpuriousWake
    <3>. QED  BY <3>1, <3>2, <3>3 DEF Next, vars, workerVars
  <2>2. CASE BuildExecDag
    BY <2>2 DEF BuildExecDag, workerVars, OrderInv, Phases
  <2>3. CASE Unwind
    BY <2>3 DEF Unwind, workerVars
  <2>4. CASE ReturnResponses
    <3>1. w < joined
      BY <2>4, Ids, SchedulerAssumption DEF ReturnResponses, Worker, TypeInv, TypeOK
    <3>. QED  BY <2>4, <3>1 DEF ReturnResponses, workerVars, JoinedDone, Ended
  <2>5. main \in {"returned", "threw"} \/ BuildExecDag \/ Unwind \/ ReturnResponses
    BY <1>3 DEF Next, MainStep, WorkerStep, vars, mainVars, FinalizeRequest,
       FinalizeEnds, SpawnWorkers, RunDeferred, Join,
       Dequeue, DequeueWaits, DequeueUnderflows, NoRequestLeft, Execute, ExecuteThrows,
       Submit, SubmitThrows, Decrement, DecrementCrashes, Enqueue, NotifyOne, ResetNode,
       CountDown, RemoveProducer, NotifyAll, SpuriousWake
  <2>. QED  BY <2>1, <2>2, <2>3, <2>4, <2>5
<1>. QED  BY <1>1, <1>2, <1>3 DEF JoinedDone

\* The strengthened invariant behind the verdict.
LEMMA VerdictInvariant == NoFailures => (Spec /\ NoDroppedEdge => []VerdictInv)
<1> SUFFICES ASSUME NoFailures  PROVE Spec /\ NoDroppedEdge => []VerdictInv
  OBVIOUS
<1>1. Init => VerdictInv
  BY VerdictInit
<1>2. TypeInv /\ OrderInv /\ OrderInv' /\ ProducersCounted /\ RemainingCounts /\ NoDroppedEdge
         /\ VerdictInv /\ [Next]_vars => VerdictInv'
  <2> SUFFICES ASSUME TypeInv, OrderInv, OrderInv', ProducersCounted, RemainingCounts,
                      NoDroppedEdge, VerdictInv, [Next]_vars
               PROVE  VerdictInv'
    OBVIOUS
  <2>1. payers' = {}
    BY GraphKept DEF VerdictInv
  <2>2. DispatchIsClosed'
    BY DispatchStep DEF VerdictInv
  <2>3. UnderflowIsRest'
    BY UnderflowStep DEF VerdictInv
  <2>4. ThrewStuck'
    BY ThrewStep
  <2>5. JoinedDone'
    BY JoinedStep DEF VerdictInv
  <2>. QED  BY <2>1, <2>2, <2>3, <2>4, <2>5 DEF VerdictInv
<1>. QED
  BY <1>1, <1>2, OrderInvariant, ProducersAreCounted, RemainingInvariant, EdgesKept, PTL
     DEF Spec

\* The verdict depends on the graph alone: unless an execution fails, the call returns
\* only when every request can be reached from the sources buildExecDag looks at, and
\* throws only when some cannot, however the workers are scheduled.
THEOREM VerdictDependsOnGraph == NoFailures => (Spec /\ NoDroppedEdge => []VerdictByGraph)
<1> SUFFICES ASSUME NoFailures  PROVE Spec /\ NoDroppedEdge => []VerdictByGraph
  OBVIOUS
<1>1. ASSUME TypeInv, OrderInv, VerdictInv, NullMeansAllExecuted, main = "returned"
      PROVE  Runnable = Request
  <2>1. joined = WorkersCount
    BY <1>1, SchedulerAssumption DEF VerdictInv, JoinedDone, TypeInv, TypeOK, Worker
  <2>2. 0 \in Worker /\ 0 < joined
    BY <2>1, SchedulerAssumption DEF Worker
  <2>3. pc[0] = "done"
    BY <1>1, <2>2 DEF VerdictInv, JoinedDone
  <2>4. \A r \in Request : Dispatched(r)
    BY <1>1, <2>2, <2>3 DEF NullMeansAllExecuted, Dispatched
  <2>5. Runnable \subseteq Request
    BY DEF Runnable
  <2>. QED  BY <1>1, <2>4, <2>5 DEF VerdictInv, DispatchIsClosed
<1>2. TypeInv /\ OrderInv /\ VerdictInv /\ NullMeansAllExecuted => VerdictByGraph
  BY <1>1 DEF VerdictByGraph, VerdictInv, ThrewStuck
<1>. QED  BY <1>2, OrderInvariant, VerdictInvariant, NullMeansTheEnd, PTL

-----------------------------------------------------------------------------
(* Parallel execution implements ExecutionOrder *)

LEMMA RefinesInit == Init => Order!Init
<1> SUFFICES ASSUME Init  PROVE Order!Init
  OBVIOUS
<1>1. \A r \in Request : ~Executed(r) /\ \A w \in Worker : cur[w] # r
  BY Ids DEF Init, Executed
<1>2. Stage = [r \in Request |-> "pending"]
  BY <1>1 DEF Stage
<1>3. Outcome = "open"
  BY DEF Init, Outcome
<1>. QED  BY <1>2, <1>3 DEF Order!Init, Init

\* blockingDequeue starts the request it takes.
LEMMA RefinesStart ==
    ASSUME TypeInv, OrderInv, VerdictInv, PredecessorsFirst', NEW w \in Worker, Dequeue(w)
    PROVE  \E r \in Request : Order!Start(r)
<1> USE Ids DEF TypeInv, TypeOK
<1>1. PICK h \in Request : h = Head(content) /\ Queued(h)
  <2>1. content \in Seq(Request) /\ content # << >>
    BY DEF Dequeue
  <2>2. Head(content) = content[1] /\ content[1] \in Request /\ 1 \in 1 .. Len(content)
    BY <2>1
  <2>. QED  BY <2>2 DEF Queued
<1>2. /\ cur' = [cur EXCEPT ![w] = h] /\ pc[w] = "dequeue" /\ pc'[w] = "execute"
      /\ UNCHANGED <<adj, response, main>>
  BY <1>1 DEF Dequeue, Goto, graphVars, mainVars
<1>3. (\A v \in Worker : cur[v] # h) /\ nodeIndex[h] = "live" /\ cur[w] = NoRequest
  <2>1. \A v \in Worker : WorkerPlace(v)
    BY DEF OrderInv, OnePlace
  <2>2. QueueOnce
    BY DEF OrderInv, OnePlace
  <2>3. cur[w] = NoRequest
    BY <1>2, IdleHoldsNothing DEF Producing
  <2>4. \A v \in Worker : cur[v] # h
    BY <1>1, <2>1 DEF WorkerPlace
  <2>5. nodeIndex[h] = "live"
    BY <1>1, <2>2 DEF QueueOnce, Queued
  <2>. QED  BY <2>3, <2>4, <2>5
<1>4. ~Executed(h)
  BY <1>3 DEF OrderInv, ResponseWhenPast, PastExecution, Executed
<1>5. \A p \in Request : h \in adj[p] => Executed(p)
  BY <1>2 DEF PredecessorsFirst, Executed
<1>6. Outcome = "open" /\ Outcome' = "open"
  BY <1>2 DEF VerdictInv, JoinedDone, Ended, Outcome
<1>7. ASSUME NEW r \in Request
      PROVE  /\ Executed(r)' <=> Executed(r)
             /\ (\E v \in Worker : cur'[v] = r) <=> (r = h \/ \E v \in Worker : cur[v] = r)
  <2>1. cur'[w] = h /\ \A v \in Worker \ {w} : cur'[v] = cur[v]
    BY <1>2
  <2> HIDE DEF TypeInv, TypeOK
  <2>. QED  BY <1>2, <1>3, <2>1 DEF Executed
<1>8. Stage' = [Stage EXCEPT ![h] = "running"] /\ Stage[h] = "pending"
  <2> HIDE DEF TypeInv, TypeOK
  <2>1. Stage[h] = "pending"
    BY <1>3, <1>4 DEF Stage
  <2>2. \A r \in Request : Stage'[r] = IF r = h THEN "running" ELSE Stage[r]
    BY <1>4, <1>7 DEF Stage
  <2>3. /\ Stage' = [r \in Request |-> Stage'[r]]
        /\ [Stage EXCEPT ![h] = "running"]
              = [r \in Request |-> IF r = h THEN "running" ELSE Stage[r]]
    BY DEF Stage
  <2>. QED  BY <2>1, <2>2, <2>3
<1>9. \A p \in Request : h \in adj[p] => Stage[p] = "done"
  BY <1>5 DEF Stage
<1>. QED
  BY <1>2, <1>6, <1>8, <1>9 DEF Order!Start, Order!Predecessors

\* executeOne finishes it.
LEMMA RefinesFinish ==
    ASSUME TypeInv, OrderInv, NEW w \in Worker, Execute(w)
    PROVE  \E r \in Request : Order!Finish(r)
<1> USE Ids DEF TypeInv, TypeOK
<1>1. PICK code \in Nat : response' = [response EXCEPT ![cur[w]] = code]
  BY SchedulerAssumption DEF Execute
<1>2. pc[w] = "execute" /\ UNCHANGED <<adj, cur, main>>
  BY DEF Execute, graphVars, mainVars
<1>3. PICK c \in Request : c = cur[w]
  BY <1>2 DEF OrderInv, Held, Producing
<1>4. ~Executed(c)
  <2>1. WorkerPlace(w) /\ WorkersApart
    BY DEF OrderInv, OnePlace
  <2>2. \A v \in Worker : cur[v] = c => pc[v] = "execute"
    BY <1>2, <1>3, <2>1 DEF WorkersApart
  <2>3. ~PastExecution(c)
    BY <1>2, <1>3, <2>1, <2>2 DEF WorkerPlace, PastExecution, Releasing
  <2>. QED  BY <2>2, <2>3 DEF OrderInv, ResponseWhenPast, Executed
<1>5. \A r \in Request : Executed(r)' <=> Executed(r) \/ r = c
  BY <1>1, <1>3 DEF Executed
<1>6. Stage' = [Stage EXCEPT ![c] = "done"] /\ Stage[c] = "running"
  BY <1>2, <1>3, <1>4, <1>5 DEF Stage
<1>7. Outcome' = Outcome
  BY <1>2 DEF Outcome
<1>. QED  BY <1>2, <1>6, <1>7 DEF Order!Finish

\* A request that is given up was executed, so it stays where it was.
LEMMA RefinesRetire ==
    ASSUME TypeInv, OrderInv, NEW w \in Worker, RemoveProducer(w)
    PROVE  UNCHANGED Order!vars
<1> USE Ids DEF TypeInv, TypeOK
<1>1. /\ cur' = [cur EXCEPT ![w] = NoRequest] /\ pc[w] = "retire"
      /\ UNCHANGED <<adj, response, main>>
  BY DEF RemoveProducer, graphVars, mainVars
<1>2. Executed(cur[w])
  <2>1. WorkerPlace(w) /\ cur[w] \in Request
    BY <1>1 DEF OrderInv, OnePlace, Held, Producing
  <2>. QED
    BY <1>1, <2>1 DEF WorkerPlace, OrderInv, ResponseWhenPast, PastExecution, Executed
<1>3. \A r \in Request : ~Executed(r) =>
         ((\E v \in Worker : cur'[v] = r) <=> (\E v \in Worker : cur[v] = r))
  BY <1>1, <1>2
<1>4. Stage' = Stage
  BY <1>1, <1>3 DEF Stage, Executed
<1>. QED  BY <1>1, <1>4 DEF Order!vars, Outcome

\* The call rejects a block with no source at all, or at rest with requests left over.
LEMMA RefinesReject ==
    ASSUME TypeInv, OrderInv, VerdictInv, BuildExecDag \/ Unwind
    PROVE  Order!Reject \/ UNCHANGED Order!vars
<1> USE Ids DEF TypeInv, TypeOK
<1>1. UNCHANGED <<adj, cur, response>> /\ main \in {"build", "unwind"}
  BY DEF BuildExecDag, Unwind, graphVars, workerVars
<1>2. Stage' = Stage /\ Outcome = "open"
  BY <1>1 DEF Stage, Executed, Outcome
<1>3. CASE main' = "threw"
  <2>1. \A v \in Worker : cur[v] = NoRequest
    <3>1. CASE main = "build"
      BY <3>1 DEF OrderInv, Phases, Dispatched
    <3>2. CASE main = "unwind"
      BY <3>2 DEF VerdictInv, ThrewStuck, Quiet
    <3>. QED  BY <1>1, <3>1, <3>2
  <2>2. \A r \in Request : nodeIndex[r] = "live" => ~Executed(r)
    BY <2>1 DEF OrderInv, ResponseWhenPast, PastExecution, Executed
  <2>3. Request = {} \/ \E r \in Request : nodeIndex[r] = "live"
    <3>1. CASE main = "build"
      BY <3>1 DEF OrderInv, Phases, Dispatched
    <3>2. CASE main = "unwind"
      BY <3>2 DEF VerdictInv, ThrewStuck
    <3>. QED  BY <1>1, <3>1, <3>2
  <2>4. \A r \in Request : Stage[r] # "running"
    BY <2>1 DEF Stage
  <2>5. Request = {} \/ \E r \in Request : Stage[r] = "pending"
    BY <2>1, <2>2, <2>3 DEF Stage
  <2>6. Outcome' = "rejected"
    BY <1>3 DEF Outcome
  <2>. QED  BY <1>1, <1>2, <2>4, <2>5, <2>6 DEF Order!Reject
<1>4. CASE main' # "threw"
  <2>1. Outcome' = "open"
    BY <1>4 DEF BuildExecDag, Unwind, Outcome
  <2>. QED  BY <1>1, <1>2, <2>1 DEF Order!vars
<1>. QED  BY <1>3, <1>4

\* The call returns when the workers it joined left nothing behind.
LEMMA RefinesReturn ==
    ASSUME TypeInv, VerdictInv, NullMeansAllExecuted, ReturnResponses
    PROVE  Order!Return
<1>1. UNCHANGED <<adj, cur, response>> /\ main = "join" /\ main' = "returned"
  BY DEF ReturnResponses, graphVars, workerVars
<1>2. Stage' = Stage /\ Outcome = "open" /\ Outcome' = "returned"
  BY <1>1 DEF Stage, Executed, Outcome
<1>3. 0 \in Worker /\ 0 < joined
  BY SchedulerAssumption DEF ReturnResponses, Worker, TypeInv, TypeOK
<1>4. pc[0] = "done"
  BY <1>3 DEF VerdictInv, JoinedDone
<1>5. \A r \in Request : Executed(r)
  BY <1>3, <1>4 DEF NullMeansAllExecuted, Executed
<1>6. \A r \in Request : Stage[r] = "done"
  BY <1>5 DEF Stage
<1>. QED  BY <1>1, <1>2, <1>6 DEF Order!Return

\* Every other step is inside the scheduler.
LEMMA RefinesStutter ==
    ASSUME [Next]_vars, ~BuildExecDag, ~Unwind, ~ReturnResponses,
           \A w \in Worker : ~Dequeue(w) /\ ~Execute(w) /\ ~RemoveProducer(w)
    PROVE  UNCHANGED Order!vars
<1>1. UNCHANGED <<adj, cur, response>>
  BY DEF Next, MainStep, WorkerStep, vars, graphVars, workerVars, FinalizeRequest,
     FinalizeEnds, SpawnWorkers, RunDeferred, Join, DequeueWaits, DequeueUnderflows,
     NoRequestLeft, ExecuteThrows, Submit, SubmitThrows, Decrement, DecrementCrashes,
     Enqueue, NotifyOne, ResetNode, CountDown, NotifyAll, SpuriousWake
<1>2. main' = main \/ (main \in {"finalize", "spawn", "join"} /\ main' \in {"build", "join", "unwind"})
  BY DEF Next, MainStep, WorkerStep, vars, mainVars, FinalizeRequest,
     FinalizeEnds, SpawnWorkers, RunDeferred, Join, DequeueWaits, DequeueUnderflows,
     NoRequestLeft, ExecuteThrows, Submit, SubmitThrows, Decrement, DecrementCrashes,
     Enqueue, NotifyOne, ResetNode, CountDown, NotifyAll, SpuriousWake
<1>3. Outcome' = Outcome
  BY <1>2 DEF Outcome
<1>. QED  BY <1>1, <1>3 DEF Order!vars, Stage, Executed

\* Queue, counters, wake-ups and threads implement the abstract order, for any graph, any
\* number of workers and any schedule: a request starts after those it depends on have
\* finished, runs once, and the call returns or rejects exactly when it may.
THEOREM ImplementsExecutionOrder == NoFailures => (Spec /\ NoDroppedEdge => ImplementsOrder)
<1> SUFFICES ASSUME NoFailures  PROVE Spec /\ NoDroppedEdge => ImplementsOrder
  OBVIOUS
<1>1. TypeInv /\ OrderInv /\ VerdictInv /\ NullMeansAllExecuted /\ PredecessorsFirst'
         /\ [Next]_vars => [Order!Next]_(Order!vars)
  <2> SUFFICES ASSUME TypeInv, OrderInv, VerdictInv, NullMeansAllExecuted,
                      PredecessorsFirst', [Next]_vars
               PROVE  Order!Next \/ UNCHANGED Order!vars
    OBVIOUS
  <2>1. CASE \E w \in Worker : Dequeue(w) \/ Execute(w) \/ RemoveProducer(w)
    BY <2>1, RefinesStart, RefinesFinish, RefinesRetire DEF Order!Next
  <2>2. CASE BuildExecDag \/ Unwind \/ ReturnResponses
    BY <2>2, RefinesReject, RefinesReturn DEF Order!Next
  <2>. QED  BY <2>1, <2>2, RefinesStutter
<1>. QED
  BY <1>1, RefinesInit, OrderInvariant, VerdictInvariant, NullMeansTheEnd,
     ExecutionRespectsOrder, PTL DEF Spec, ImplementsOrder, Order!Spec
=============================================================================
