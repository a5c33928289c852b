---------------------------- MODULE RunAll_proofs ----------------------------
(***************************************************************************)
(* runAll for any number of tasks and workers, any mix of threads and      *)
(* deferred slices, and any tasks that throw.                              *)
(***************************************************************************)
EXTENDS RunAll, TLAPS
-----------------------------------------------------------------------------
(* The division of work *)

\* The length of a slice is a positive integer.
LEMMA StepType ==
    ASSUME NEW T \in Nat, NEW W \in Nat \ {0}
    PROVE  Step(T, W) \in Nat \ {0}
BY DEF Step

\* No task belongs to the slices of two futures: runAll never enters a task twice.
THEOREM SlicesDisjoint ==
    ASSUME NEW T \in Nat, NEW W \in Nat \ {0},
           NEW i \in Futures(W), NEW j \in Futures(W), i # j
    PROVE  Slice(i, T, W) \cap Slice(j, T, W) = {}
<1> DEFINE s == Step(T, W)
<1>1. s \in Nat \ {0}
  BY StepType
<1>2. i \in Nat /\ j \in Nat
  BY DEF Futures
<1> HIDE DEF s
<1>3. ASSUME NEW t \in Int, i * s <= t, t < (i + 1) * s, j * s <= t, t < (j + 1) * s
      PROVE  FALSE
  <2>1. CASE i < j
    <3>1. (i + 1) * s <= j * s
      BY <1>1, <1>2, <2>1
    <3>. QED  BY <1>1, <1>2, <1>3, <3>1
  <2>2. CASE j < i
    <3>1. (j + 1) * s <= i * s
      BY <1>1, <1>2, <2>2
    <3>. QED  BY <1>1, <1>2, <1>3, <3>1
  <2>. QED  BY <1>2, <2>1, <2>2
<1>. QED  BY <1>3 DEF Slice, s

\* The futures together go through the first (W + 1) * Step(T, W) ids and no other.
LEMMA CoveredIsPrefix ==
    ASSUME NEW T \in Nat, NEW W \in Nat \ {0}
    PROVE  Covered(T, W) = {t \in 0 .. T - 1 : t < (W + 1) * Step(T, W)}
<1> DEFINE s == Step(T, W)
<1>1. s \in Nat \ {0}
  BY StepType
<1> HIDE DEF s
<1>2. ASSUME NEW t \in 0 .. T - 1, NEW i \in Futures(W), t < (i + 1) * s
      PROVE  t < (W + 1) * s
  <2>1. i \in Nat /\ i <= W
    BY DEF Futures
  <2>2. (i + 1) * s <= (W + 1) * s
    BY <1>1, <2>1
  <2>. QED  BY <1>1, <1>2, <2>1, <2>2
<1>3. ASSUME NEW t \in 0 .. T - 1, t < (W + 1) * s
      PROVE  \E i \in Futures(W) : i * s <= t /\ t < (i + 1) * s
  <2> DEFINE q == t \div s
  <2>1. q \in Nat /\ q * s <= t /\ t < (q + 1) * s
    BY <1>1
  <2>2. q <= W
    <3>1. SUFFICES ASSUME q >= W + 1  PROVE FALSE
      BY <2>1
    <3>2. q * s >= (W + 1) * s
      BY <1>1, <2>1, <3>1
    <3>. QED  BY <1>1, <1>3, <2>1, <3>2
  <2>. QED  BY <2>1, <2>2 DEF Futures
<1>. QED  BY <1>2, <1>3 DEF Covered, Slice, s

\* When the remainder of the division exceeds the quotient, tasks are left out, and
\* otherwise none is: the exact criterion for runAll to keep its word.
THEOREM CoverageCriterion ==
    ASSUME NEW T \in Nat, NEW W \in Nat \ {0}, T >= W
    PROVE  Covered(T, W) = 0 .. T - 1 <=> T % W <= T \div W
<1> DEFINE q == T \div W
           r == T % W
<1>1. q \in Nat /\ r \in 0 .. W - 1 /\ T = W * q + r /\ q >= 1
  OBVIOUS
<1>2. Step(T, W) = q
  BY <1>1 DEF Step
<1> HIDE DEF q, r
<1>3. (W + 1) * q = W * q + q
  BY <1>1
<1>4. Covered(T, W) = {t \in 0 .. T - 1 : t < W * q + q}
  BY <1>2, <1>3, CoveredIsPrefix
<1> DEFINE p == W * q
<1>5. p \in Nat
  BY <1>1
<1>6. CASE r <= q
  BY <1>1, <1>4, <1>5, <1>6 DEF q, r
<1>7. CASE r > q
  <2>1. T - 1 \in 0 .. T - 1 /\ ~(T - 1 < W * q + q)
    BY <1>1, <1>5, <1>7
  <2>2. T - 1 \notin Covered(T, W)
    BY <1>4, <2>1
  <2>. QED  BY <1>1, <1>7, <2>1, <2>2 DEF q, r
<1>. QED  BY <1>1, <1>6, <1>7

\* With fewer tasks than workers nothing is left out.
THEOREM FewTasksCovered ==
    ASSUME NEW T \in Nat, NEW W \in Nat \ {0}, T <= W
    PROVE  Covered(T, W) = 0 .. T - 1
<1>1. Step(T, W) = 1
  BY DEF Step
<1>2. Covered(T, W) = {t \in 0 .. T - 1 : t < (W + 1) * 1}
  BY <1>1, CoveredIsPrefix
<1>3. \A t \in 0 .. T - 1 : t < (W + 1) * 1
  OBVIOUS
<1>. QED  BY <1>2, <1>3
-----------------------------------------------------------------------------
(* The waiting *)

SliceOf(i) == Slice(i, tasksCount, workersCount)

\* The task was called by a future: the ones before its loop variable, and the one
\* that threw.
EnteredBy(t, i) ==
    t \in SliceOf(i) /\ (t < taskID[i] \/ (t = taskID[i] /\ future[i] = "threw"))
Entered(t) == \E i \in Futures(workersCount) : EnteredBy(t, i)

\* A slice that has ended has left its range, the futures that were joined have
\* ended, and the caller leaves only when no slice runs.
RunAllInv ==
    /\ TypeOK
    /\ \A i \in Futures(workersCount) :
          /\ taskID[i] >= i * Step(tasksCount, workersCount)
          /\ future[i] = "ready" => ~HasTask(i)
          /\ i < joined => future[i] = "ready"
          /\ caller \in {"returned", "threw"} => future[i] # "running"
    /\ \A t \in 0 .. tasksCount - 1 : runs[t] = IF Entered(t) THEN 1 ELSE 0
    /\ caller = "returned" => joined \notin Futures(workersCount)

\* A slice is a set of tasks, and its futures are numbered from zero.
LEMMA Numbers ==
    ASSUME TypeOK
    PROVE  /\ tasksCount \in Nat /\ workersCount \in Nat \ {0}
           /\ Futures(workersCount) \subseteq Nat
           /\ \A i \in Futures(workersCount) :
                 /\ i * Step(tasksCount, workersCount) \in Nat
                 /\ SliceOf(i) \subseteq 0 .. tasksCount - 1
<1>1. tasksCount \in Nat /\ workersCount \in Nat \ {0}
  BY RunAllAssumption DEF TypeOK
<1>2. Step(tasksCount, workersCount) \in Nat
  BY <1>1, StepType
<1>3. \A i \in Futures(workersCount) : i \in Nat
  BY <1>1 DEF Futures
<1>. QED  BY <1>1, <1>2, <1>3 DEF SliceOf, Slice

LEMMA InitInv == Init => RunAllInv
<1> SUFFICES ASSUME Init  PROVE RunAllInv
  OBVIOUS
<1>1. tasksCount \in Nat /\ workersCount \in Nat \ {0} /\ Launched \subseteq {"running", "deferred"}
  BY RunAllAssumption DEF Init
<1>2. \A i \in Futures(workersCount) : i \in Nat /\ i * Step(tasksCount, workersCount) \in Nat
  BY <1>1, StepType DEF Futures
<1>3. TypeOK
  BY <1>1, <1>2 DEF Init, TypeOK
<1>4. \A i \in Futures(workersCount) :
         taskID[i] = i * Step(tasksCount, workersCount) /\ future[i] \in {"running", "deferred"}
  BY <1>1 DEF Init
<1>5. \A t \in 0 .. tasksCount - 1 : ~Entered(t) /\ runs[t] = 0
  BY <1>2, <1>4 DEF Entered, EnteredBy, SliceOf, Slice, Init
<1>. QED  BY <1>2, <1>3, <1>4, <1>5 DEF RunAllInv, Init

\* A future calls the task at its loop variable: no future has called it before.
LEMMA TaskIsNew ==
    ASSUME RunAllInv, NEW i \in Futures(workersCount), future[i] = "running", HasTask(i)
    PROVE  /\ taskID[i] \in 0 .. tasksCount - 1 /\ runs[taskID[i]] = 0
           /\ \A j \in Futures(workersCount) \ {i} : taskID[i] \notin SliceOf(j)
<1>1. taskID[i] \in SliceOf(i) /\ taskID[i] \in 0 .. tasksCount - 1
  BY Numbers DEF HasTask, SliceOf, RunAllInv
<1>2. ASSUME NEW j \in Futures(workersCount) \ {i}
      PROVE  taskID[i] \notin SliceOf(j)
  BY <1>1, <1>2, Numbers, SlicesDisjoint DEF SliceOf, RunAllInv
<1>3. ~EnteredBy(taskID[i], i)
  BY <1>1 DEF EnteredBy, RunAllInv, TypeOK
<1>. QED  BY <1>1, <1>2, <1>3 DEF RunAllInv, Entered, EnteredBy

\* The step of a future that calls a task, which returns or throws.
LEMMA CallInv ==
    ASSUME RunAllInv, NEW i \in Futures(workersCount), RunTask(i) \/ TaskThrows(i)
    PROVE  RunAllInv'
<1> DEFINE task == taskID[i]
<1>1. /\ future[i] = "running" /\ HasTask(i)
      /\ runs' = [runs EXCEPT ![task] = @ + 1]
      /\ UNCHANGED <<tasksCount, workersCount, joined, caller>>
      /\ \/ taskID' = [taskID EXCEPT ![i] = @ + 1] /\ future' = future
         \/ taskID' = taskID /\ future' = [future EXCEPT ![i] = "threw"]
  BY DEF RunTask, TaskThrows
<1>2. /\ task \in 0 .. tasksCount - 1 /\ runs[task] = 0 /\ task \in Nat
      /\ \A j \in Futures(workersCount) \ {i} : task \notin SliceOf(j)
      /\ task \in SliceOf(i)
  BY <1>1, TaskIsNew DEF HasTask, SliceOf
<1>3. TypeOK
  BY DEF RunAllInv
<1>4. TypeOK'
  <2>1. taskID' \in [Futures(workersCount) -> Nat]
    <3>1. taskID \in [Futures(workersCount) -> Nat]
      BY <1>3 DEF TypeOK
    <3>2. taskID[i] + 1 \in Nat
      BY <1>2
    <3>3. taskID' = [taskID EXCEPT ![i] = taskID[i] + 1] \/ taskID' = taskID
      BY <1>1
    <3>. QED  BY <1>1, <3>1, <3>2, <3>3
  <2>2. future' \in [Futures(workersCount) -> {"deferred", "running", "ready", "threw"}]
    BY <1>1, <1>3 DEF TypeOK
  <2>3. runs' \in [0 .. tasksCount - 1 -> Nat]
    BY <1>1, <1>2, <1>3 DEF TypeOK
  <2>. QED  BY <1>1, <1>3, <2>1, <2>2, <2>3 DEF TypeOK
<1>5. /\ \A j \in Futures(workersCount) \ {i} : taskID'[j] = taskID[j] /\ future'[j] = future[j]
      /\ \/ taskID'[i] = task + 1 /\ future'[i] = "running"
         \/ taskID'[i] = task /\ future'[i] = "threw"
  BY <1>1, <1>3 DEF TypeOK
<1>6. \A j : SliceOf(j)' = SliceOf(j)
  BY <1>1 DEF SliceOf
<1>7. ASSUME NEW t \in 0 .. tasksCount - 1
      PROVE  Entered(t)' <=> Entered(t) \/ t = task
  <2>1. \A j \in Futures(workersCount) \ {i} : EnteredBy(t, j)' <=> EnteredBy(t, j)
    BY <1>1, <1>5, <1>6 DEF EnteredBy, SliceOf
  <2>2. EnteredBy(t, i)' <=> EnteredBy(t, i) \/ t = task
    BY <1>1, <1>2, <1>5, <1>6 DEF EnteredBy, SliceOf
  <2>3. \A j \in Futures(workersCount) : EnteredBy(t, j)' <=> EnteredBy(t, j) \/ (j = i /\ t = task)
    BY <2>1, <2>2
  <2>. QED  BY <1>1, <2>3 DEF Entered
<1>8. \A t \in 0 .. tasksCount - 1 : runs'[t] = IF Entered(t)' THEN 1 ELSE 0
  <2>1. runs'[task] = 1 /\ \A t \in (0 .. tasksCount - 1) \ {task} : runs'[t] = runs[t]
    BY <1>1, <1>2, <1>3 DEF TypeOK
  <2>2. \A t \in 0 .. tasksCount - 1 : runs[t] = IF Entered(t) THEN 1 ELSE 0
    BY DEF RunAllInv
  <2> HIDE DEF task
  <2>. QED  BY <1>2, <1>7, <2>1, <2>2
<1>9. ASSUME NEW j \in Futures(workersCount)
      PROVE  /\ taskID'[j] >= j * Step(tasksCount, workersCount)
             /\ future'[j] = "ready" => ~HasTask(j)'
             /\ j < joined => future'[j] = "ready"
             /\ caller \in {"returned", "threw"} => future'[j] # "running"
  <2>1. /\ taskID[j] >= j * Step(tasksCount, workersCount)
        /\ future[j] = "ready" => ~HasTask(j)
        /\ j < joined => future[j] = "ready"
        /\ caller \in {"returned", "threw"} => future[j] # "running"
    BY DEF RunAllInv
  <2>2. CASE j = i
    <3>1. task >= i * Step(tasksCount, workersCount) /\ i * Step(tasksCount, workersCount) \in Nat
      BY <1>3, <2>1, <2>2, Numbers
    <3>. QED  BY <1>1, <1>2, <1>5, <2>1, <2>2, <3>1
  <2>3. CASE j # i
    BY <1>1, <1>5, <2>1, <2>3 DEF HasTask
  <2>. QED  BY <2>2, <2>3
<1>10. caller' = "returned" => joined' \notin Futures(workersCount)
  BY <1>1 DEF RunAllInv
<1>. QED  BY <1>1, <1>4, <1>8, <1>9, <1>10 DEF RunAllInv

\* The steps that call no task.
LEMMA OtherInv ==
    ASSUME RunAllInv,
           (\E i \in Futures(workersCount) : SliceEnds(i)) \/ CallerStep
    PROVE  RunAllInv'
<1>1. /\ UNCHANGED <<tasksCount, workersCount, taskID, runs>> /\ TypeOK
      /\ \A i \in Futures(workersCount) : future[i] # "threw" => future'[i] # "threw"
      /\ \A i \in Futures(workersCount) : future[i] = "threw" => future'[i] = "threw"
  BY DEF SliceEnds, CallerStep, RunDeferred, Get, Return, Unwind, RunAllInv, TypeOK
<1>2. \A t \in 0 .. tasksCount - 1 : Entered(t)' <=> Entered(t)
  <2>1. \A t, i : SliceOf(i)' = SliceOf(i)
    BY <1>1 DEF SliceOf
  <2>2. \A t, i : i \in Futures(workersCount) => (EnteredBy(t, i)' <=> EnteredBy(t, i))
    BY <1>1, <2>1 DEF EnteredBy
  <2>. QED  BY <1>1, <2>2 DEF Entered
<1>3. TypeOK'
  BY <1>1 DEF TypeOK, SliceEnds, CallerStep, RunDeferred, Get, Return, Unwind
<1>4. \A t \in 0 .. tasksCount - 1 : runs'[t] = IF Entered(t)' THEN 1 ELSE 0
  BY <1>1, <1>2 DEF RunAllInv
<1>5. ASSUME NEW j \in Futures(workersCount)
      PROVE  /\ taskID'[j] >= j * Step(tasksCount, workersCount)
             /\ future'[j] = "ready" => ~HasTask(j)'
             /\ j < joined' => future'[j] = "ready"
             /\ caller' \in {"returned", "threw"} => future'[j] # "running"
  <2>1. /\ taskID[j] >= j * Step(tasksCount, workersCount)
        /\ future[j] = "ready" => ~HasTask(j)
        /\ j < joined => future[j] = "ready"
        /\ caller \in {"returned", "threw"} => future[j] # "running"
        /\ HasTask(j)' <=> HasTask(j)
        /\ j \in Nat /\ joined \in Nat
    BY <1>1, Numbers DEF RunAllInv, HasTask, TypeOK
  <2>2. ASSUME NEW i \in Futures(workersCount), SliceEnds(i)
        PROVE  /\ future'[j] = "ready" => ~HasTask(j)
               /\ j < joined' => future'[j] = "ready"
               /\ caller' \in {"returned", "threw"} => future'[j] # "running"
    BY <1>1, <2>1, <2>2 DEF SliceEnds, TypeOK
  <2>3. CASE RunDeferred
    BY <1>1, <2>1, <2>3 DEF RunDeferred, TypeOK
  <2>4. CASE Get
    BY <1>1, <2>1, <2>4 DEF Get
  <2>5. CASE Return
    <3>1. j < joined
      BY <1>1, <2>1, <2>5, Numbers DEF Return, Futures
    <3>. QED  BY <2>1, <2>5, <3>1 DEF Return
  <2>6. CASE Unwind
    BY <2>1, <2>6 DEF Unwind
  <2>. QED  BY <1>1, <2>1, <2>2, <2>3, <2>4, <2>5, <2>6 DEF CallerStep
<1>6. caller' = "returned" => joined' \notin Futures(workersCount)
  BY DEF RunAllInv, SliceEnds, CallerStep, RunDeferred, Get, Return, Unwind
<1>. QED  BY <1>1, <1>3, <1>4, <1>5, <1>6 DEF RunAllInv

LEMMA StutterInv ==
    ASSUME RunAllInv, UNCHANGED vars
    PROVE  RunAllInv'
<1> USE DEF vars
<1>1. \A t : Entered(t)' <=> Entered(t)
  BY DEF Entered, EnteredBy, SliceOf
<1>. QED  BY <1>1 DEF RunAllInv, TypeOK, HasTask

LEMMA RunAllInvariant == Spec => []RunAllInv
<1>1. RunAllInv /\ [Next]_vars => RunAllInv'
  BY CallInv, OtherInv, StutterInv DEF Next, FutureStep
<1>. QED  BY <1>1, InitInv, PTL DEF Spec

\* The loop variables and counts stay numbers, whatever is thrown and however the caller
\* leaves runAll.
THEOREM RunAllTypes == Spec => []TypeOK
<1>1. RunAllInv => TypeOK
  BY DEF RunAllInv
<1>. QED  BY <1>1, RunAllInvariant, PTL

\* No task is called twice, whatever the numbers of tasks and workers are and
\* whichever tasks throw.
THEOREM TasksRunOnce == Spec => []AtMostOnce
<1>1. RunAllInv => AtMostOnce
  BY DEF RunAllInv, AtMostOnce
<1>. QED  BY <1>1, RunAllInvariant, PTL

\* When runAll returns, the tasks it has run are the ones its slices cover: with
\* CoverageCriterion, all of them only if the remainder of the division is small.
THEOREM ReturnCovers == Spec => []ReturnMeansCovered
<1>1. ASSUME RunAllInv, caller = "returned"
      PROVE  /\ \A i \in Futures(workersCount) : future[i] = "ready"
             /\ {t \in 0 .. tasksCount - 1 : runs[t] = 1} = Covered(tasksCount, workersCount)
  <2>1. TypeOK
    BY <1>1 DEF RunAllInv
  <2>2. \A i \in Futures(workersCount) : future[i] = "ready"
    <3>1. \A i \in Futures(workersCount) : i < joined
      BY <1>1, <2>1, Numbers DEF RunAllInv, Futures, TypeOK
    <3>. QED  BY <1>1, <3>1 DEF RunAllInv
  <2>3. ASSUME NEW i \in Futures(workersCount), NEW t \in SliceOf(i)
        PROVE  EnteredBy(t, i)
    <3>1. ~HasTask(i) /\ taskID[i] >= i * Step(tasksCount, workersCount)
      BY <1>1, <2>2 DEF RunAllInv
    <3> DEFINE first == i * Step(tasksCount, workersCount)
    <3> DEFINE last == (i + 1) * Step(tasksCount, workersCount)
    <3>2. /\ t \in 0 .. tasksCount - 1 /\ first <= t /\ t < last
          /\ taskID[i] \in 0 .. tasksCount - 1 => ~(first <= taskID[i] /\ taskID[i] < last)
      BY <3>1 DEF HasTask, SliceOf, Slice
    <3>3. taskID[i] \in Nat /\ tasksCount \in Nat /\ first \in Nat /\ last \in Int
      <4>1. tasksCount \in Nat /\ workersCount \in Nat \ {0} /\ first \in Nat /\ i \in Nat
        BY <2>1, Numbers
      <4>2. Step(tasksCount, workersCount) \in Nat
        BY <4>1, StepType
      <4>. QED  BY <2>1, <4>1, <4>2 DEF TypeOK
    <3> HIDE DEF first, last
    <3>4. first <= taskID[i]
      BY <3>1 DEF first
    <3>5. t < taskID[i]
      BY <3>2, <3>3, <3>4
    <3>. QED  BY <3>5 DEF EnteredBy
  <2>4. \A t \in 0 .. tasksCount - 1 :
           Entered(t) <=> t \in Covered(tasksCount, workersCount)
    BY <2>3 DEF Entered, EnteredBy, Covered, SliceOf
  <2>5. Covered(tasksCount, workersCount) \subseteq 0 .. tasksCount - 1
    BY <2>1, Numbers DEF Covered, SliceOf
  <2>. QED  BY <1>1, <2>2, <2>4, <2>5 DEF RunAllInv
<1>2. RunAllInv => ReturnMeansCovered
  BY <1>1 DEF ReturnMeansCovered
<1>. QED  BY <1>2, RunAllInvariant, PTL

\* No slice runs on after runAll was left, so none uses its locals then.
THEOREM NothingOutlivesCall == Spec => []NoSliceOutlivesCall
<1>1. RunAllInv => NoSliceOutlivesCall
  BY DEF RunAllInv, NoSliceOutlivesCall
<1>. QED  BY <1>1, RunAllInvariant, PTL
=============================================================================
