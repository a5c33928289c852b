--------------------------- MODULE ExecutionOrder ---------------------------
(***************************************************************************)
(* What parallel execution promises, without queues, counters or threads:  *)
(* a request starts after every request it depends on has finished, runs   *)
(* once, and the call returns when all have run, or rejects the block when *)
(* nothing runs any more and something was never run.                      *)
(***************************************************************************)
CONSTANTS Request,   \* the requests of the block
          Graphs     \* the dependency graphs the block may come with

VARIABLES adj,       \* adj[p]: the requests that must wait for p
          stage,     \* stage[r]: pending, running or done
          outcome    \* open, returned or rejected

vars == <<adj, stage, outcome>>

Predecessors(r) == {p \in Request : r \in adj[p]}

Init ==
    /\ adj \in Graphs
    /\ stage = [r \in Request |-> "pending"]
    /\ outcome = "open"

Start(r) ==
    /\ outcome = "open"
    /\ stage[r] = "pending"
    /\ \A p \in Predecessors(r) : stage[p] = "done"
    /\ stage' = [stage EXCEPT ![r] = "running"]
    /\ UNCHANGED <<adj, outcome>>

Finish(r) ==
    /\ stage[r] = "running"
    /\ stage' = [stage EXCEPT ![r] = "done"]
    /\ UNCHANGED <<adj, outcome>>

Return ==
    /\ outcome = "open"
    /\ \A r \in Request : stage[r] = "done"
    /\ outcome' = "returned"
    /\ UNCHANGED <<adj, stage>>

\* An empty block has no source node and is rejected too.
Reject ==
    /\ outcome = "open"
    /\ \A r \in Request : stage[r] # "running"
    /\ Request = {} \/ \E r \in Request : stage[r] = "pending"
    /\ outcome' = "rejected"
    /\ UNCHANGED <<adj, stage>>

Next ==
    \/ \E r \in Request : Start(r) \/ Finish(r)
    \/ Return
    \/ Reject

Spec == Init /\ [][Next]_vars

\* The scheduler always comes to a verdict.
LiveSpec == Spec /\ <>(outcome # "open")
=============================================================================
