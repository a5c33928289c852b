------------------------------- MODULE RunAll -------------------------------
(***************************************************************************)
(* RequestProcessor::runAll: workersCount + 1 futures made by std::async,  *)
(* each running the tasks of one slice in order, and a caller that get()s  *)
(* them one after the other.  The default launch policy lets the library   *)
(* run a slice in a thread of its own, or in the caller at its get().  A   *)
(* task may throw: its future then holds the exception, get() rethrows it, *)
(* and the destructors of the futures that are left block until the slices *)
(* that have a thread have ended.                                          *)
(***************************************************************************)
EXTENDS Slices

CONSTANTS TaskCounts,    \* values of tasksCount to start from
          WorkerCounts,  \* values of workersCount to start from
          TasksMayThrow, \* whether the task is one that can throw
          Launched       \* how a future may start: running (a thread) or deferred

ASSUME RunAllAssumption ==
    /\ TaskCounts \subseteq Nat
    /\ WorkerCounts \subseteq Nat \ {0}
    /\ TasksMayThrow \in BOOLEAN
    /\ Launched \subseteq {"running", "deferred"}

VARIABLES tasksCount, workersCount,
          taskID,   \* loop variable of every future
          future,   \* state of every future: deferred, running, ready or threw
          runs,     \* how many times every task was entered
          joined,   \* index of the future the caller get()s next
          caller    \* joining, unwinding, returned or threw

vars == <<tasksCount, workersCount, taskID, future, runs, joined, caller>>
-----------------------------------------------------------------------------
Init ==
    /\ tasksCount \in TaskCounts
    /\ workersCount \in WorkerCounts
    /\ taskID = [i \in Futures(workersCount) |-> i * Step(tasksCount, workersCount)]
    /\ future \in [Futures(workersCount) -> Launched]
    /\ runs = [t \in 0 .. tasksCount - 1 |-> 0]
    /\ joined = 0
    /\ caller = "joining"

HasTask(i) == taskID[i] \in Slice(i, tasksCount, workersCount)

\* One turn of the loop in future i: the task is called and returns.
RunTask(i) ==
    /\ future[i] = "running" /\ HasTask(i)
    /\ runs' = [runs EXCEPT ![taskID[i]] = @ + 1]
    /\ taskID' = [taskID EXCEPT ![i] = @ + 1]
    /\ UNCHANGED <<tasksCount, workersCount, future, joined, caller>>

\* The task throws: the loop is left and the future keeps the exception.
TaskThrows(i) ==
    /\ TasksMayThrow
    /\ future[i] = "running" /\ HasTask(i)
    /\ runs' = [runs EXCEPT ![taskID[i]] = @ + 1]
    /\ future' = [future EXCEPT ![i] = "threw"]
    /\ UNCHANGED <<tasksCount, workersCount, taskID, joined, caller>>

\* The loop condition fails.
SliceEnds(i) ==
    /\ future[i] = "running" /\ ~HasTask(i)
    /\ future' = [future EXCEPT ![i] = "ready"]
    /\ UNCHANGED <<tasksCount, workersCount, taskID, runs, joined, caller>>

\* The caller reaches a deferred future and runs its slice itself.
RunDeferred ==
    /\ caller = "joining" /\ joined \in Futures(workersCount)
    /\ future[joined] = "deferred"
    /\ future' = [future EXCEPT ![joined] = "running"]
    /\ UNCHANGED <<tasksCount, workersCount, taskID, runs, joined, caller>>

\* wait() instead of get(): the exception stays in the future.
GetWithoutRethrow ==
    /\ caller = "joining" /\ joined \in Futures(workersCount)
    /\ future[joined] \in {"ready", "threw"}
    /\ joined' = joined + 1
    /\ UNCHANGED <<tasksCount, workersCount, taskID, future, runs, caller>>

\* get() on the next future: blocks while it runs, rethrows what it holds.
Get ==
    /\ caller = "joining" /\ joined \in Futures(workersCount)
    /\ \/ /\ future[joined] = "ready"
          /\ joined' = joined + 1
          /\ UNCHANGED caller
       \/ /\ future[joined] = "threw"
          /\ caller' = "unwinding"
          /\ UNCHANGED joined
    /\ UNCHANGED <<tasksCount, workersCount, taskID, future, runs>>

Return ==
    /\ caller = "joining" /\ joined \notin Futures(workersCount)
    /\ caller' = "returned"
    /\ UNCHANGED <<tasksCount, workersCount, taskID, future, runs, joined>>

\* Detached threads instead of futures: nothing waits for them.
UnwindDetached ==
    /\ caller = "unwinding"
    /\ caller' = "threw"
    /\ UNCHANGED <<tasksCount, workersCount, taskID, future, runs, joined>>

\* The slices that were not joined yet are all waited for, deferred ones too.
UnwindWaitsForAll ==
    /\ caller = "unwinding"
    /\ \A i \in Futures(workersCount) : future[i] \in {"ready", "threw"}
    /\ caller' = "threw"
    /\ UNCHANGED <<tasksCount, workersCount, taskID, future, runs, joined>>

\* pendingTasks is destroyed: the future of a thread blocks until it is ready, and
\* a deferred slice is never run.
Unwind ==
    /\ caller = "unwinding"
    /\ \A i \in Futures(workersCount) : future[i] # "running"
    /\ caller' = "threw"
    /\ UNCHANGED <<tasksCount, workersCount, taskID, future, runs, joined>>

FutureStep == \E i \in Futures(workersCount) : RunTask(i) \/ TaskThrows(i) \/ SliceEnds(i)
CallerStep == RunDeferred \/ Get \/ Return \/ Unwind
Next == FutureStep \/ CallerStep

Spec == Init /\ [][Next]_vars

\* Every thread runs until it ends, and the caller is one of them.
Fairness == WF_vars(FutureStep) /\ WF_vars(CallerStep)
FairSpec == Spec /\ Fairness
-----------------------------------------------------------------------------
\* Types of the state.
TypeOK ==
    /\ tasksCount \in TaskCounts /\ workersCount \in WorkerCounts
    /\ taskID \in [Futures(workersCount) -> Nat]
    /\ future \in [Futures(workersCount) -> {"deferred", "running", "ready", "threw"}]
    /\ runs \in [0 .. tasksCount - 1 -> Nat]
    /\ joined \in Nat
    /\ caller \in {"joining", "unwinding", "returned", "threw"}

\* No task is entered twice: the slices of two futures never overlap, whatever
\* the two counts are (finalizing a request twice would double its successors'
\* in-degrees, checking a chunk twice would read moved-from vectors).
AtMostOnce == \A t \in 0 .. tasksCount - 1 : runs[t] <= 1

\* A normal return means that exactly the covered tasks were run, all of them to
\* the end: an exception of any task reaches the caller of runAll.
ReturnMeansCovered ==
    caller = "returned" =>
        /\ \A i \in Futures(workersCount) : future[i] = "ready"
        /\ {t \in 0 .. tasksCount - 1 : runs[t] = 1} = Covered(tasksCount, workersCount)

\* runAll is not left, by return or by exception, while a slice still runs: the
\* slices hold references to its locals.
NoSliceOutlivesCall ==
    caller \in {"returned", "threw"} =>
        \A i \in Futures(workersCount) : future[i] # "running"

\* runAll ends, normally or with the exception of a task.
CallEnds == <>(caller \in {"returned", "threw"})
=============================================================================
