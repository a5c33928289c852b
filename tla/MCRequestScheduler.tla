------------------------- MODULE MCRequestScheduler -------------------------
(***************************************************************************)
(* Small instances of RequestScheduler.                                    *)
(***************************************************************************)
EXTENDS RequestScheduler

MCAllDigraphs == [Request -> SUBSET Request]

\* The graphs AppRequestInfo::adjList asks for: edges to greater ids only.
MCOrderedDags ==
    {g \in MCAllDigraphs : \A r \in Request : \A s \in g[r] : s > r}

\* These, and every digraph over the first three requests: cycles, self-loops, edges
\* to smaller ids, any order of sources.
MCGraphs ==
    MCOrderedDags \cup
    {[r \in Request |-> IF r \in 0 .. 2 THEN g[r] ELSE {}] : g \in [0 .. 2 -> SUBSET (0 .. 2)]}

\* Five requests on three workers: runAll leaves the last one out.  Once it has a
\* successor, once it has none, and once it has no edges at all.
MCDropped ==
    {[r \in Request |-> CASE r = 0 -> {4} [] r = 4 -> {3} [] OTHER -> {}],
     [r \in Request |-> IF r \in {0, 1} THEN {4} ELSE {}],
     [r \in Request |-> CASE r = 0 -> {1, 2} [] r \in {1, 2} -> {3} [] OTHER -> {}]}
MCFewPayers == {{}, {0, 3}}

MCNoPayers == {{}}
MCAnyPayers == SUBSET Request
MCOk == {200}
MCOkOrError == {200, 500}
MCPolicies == {"async", "deferred"}
MCAsync == {"async"}
=============================================================================
