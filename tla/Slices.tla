------------------------------- MODULE Slices -------------------------------
(***************************************************************************)
(* How RequestProcessor::runAll divides the task ids 0..tasksCount-1 among *)
(* the futures it creates.  Only arithmetic: the futures themselves are in *)
(* module RunAll, and RequestScheduler takes from here which requests the  *)
(* second runAll of loadRequests really finalizes.                         *)
(***************************************************************************)
EXTENDS Integers

\* A step rounded up, the usual way to divide work: not what the code does.
StepRoundedUp(tasksCount, workersCount) ==
    LET q == (tasksCount + workersCount - 1) \div workersCount
    IN  IF q >= 1 THEN q ELSE 1

\* The length of a slice: std::max(tasksCount / workersCount, 1), rounded down.
Step(tasksCount, workersCount) ==
    LET q == tasksCount \div workersCount
    IN  IF q >= 1 THEN q ELSE 1

\* A last index taken as inclusive.
SliceInclusive(i, tasksCount, workersCount) ==
    {t \in 0 .. tasksCount - 1 : /\ i * Step(tasksCount, workersCount) <= t
                                 /\ t <= (i + 1) * Step(tasksCount, workersCount)}

\* The ids the future with index i goes through.
Slice(i, tasksCount, workersCount) ==
    {t \in 0 .. tasksCount - 1 : /\ i * Step(tasksCount, workersCount) <= t
                                 /\ t < (i + 1) * Step(tasksCount, workersCount)}

\* One slice per worker, without the extra future that takes the remainder.
FuturesNoRemainder(workersCount) == 0 .. workersCount - 1

\* The loop creates one future more than there are workers (i <= workersCount).
Futures(workersCount) == 0 .. workersCount

\* The ids that some future goes through.
Covered(tasksCount, workersCount) ==
    UNION {Slice(i, tasksCount, workersCount) : i \in Futures(workersCount)}
=============================================================================
