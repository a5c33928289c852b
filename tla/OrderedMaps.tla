----------------------------- MODULE OrderedMaps -----------------------------
(***************************************************************************)
(* OrderedStaticMap: a map kept as a sorted list of keys.  It is searched  *)
(* by bisection, and maps are merged two at a time, by halves.  A merged   *)
(* map may have a key more than once: entries with equal keys are ordered  *)
(* by their values.                                                        *)
(***************************************************************************)
EXTENDS Integers, Sequences, FiniteSets

\* The list of a finite set, by a strict order on it as a set of pairs.
SortedList(S, precedes) ==
    [n \in 1 .. Cardinality(S) |->
        CHOOSE x \in S : Cardinality({y \in S : <<y, x>> \in precedes}) = n - 1]

NotFound == 0

\* The values of begin and end
Ranges(keys) == (0 .. Len(keys)) \X (0 .. Len(keys))

\* The lower half ends before the last key that was not compared.
FindShort(keys, key) ==
    LET search[range \in Ranges(keys)] ==
            LET mid == (range[1] + range[2]) \div 2
            IN  IF mid >= range[2] THEN NotFound
                ELSE IF keys[mid + 1] = key THEN mid + 1
                ELSE IF mid > 0 /\ key < keys[mid + 1] THEN search[<<range[1], mid - 1>>]
                ELSE search[<<mid + 1, range[2]>>]
    IN  search[<<0, Len(keys)>>]

\* The loop of find, from begin and end to a position in the list.
Search(keys, key) ==
    LET search[range \in Ranges(keys)] ==
            LET mid == (range[1] + range[2]) \div 2
            IN  IF mid >= range[2] THEN NotFound
                ELSE IF keys[mid + 1] = key THEN mid + 1
                ELSE IF key < keys[mid + 1] THEN search[<<range[1], mid>>]
                ELSE search[<<mid + 1, range[2]>>]
    IN  search

\* find; it throws out_of_range for NotFound.
Find(keys, key) == Search(keys, key)[<<0, Len(keys)>>]

\* The loop of operator|, from its i and j to what is still to be appended; the pairs of
\* precedes are ordered by their keys, then by their values.
Merging(left, right, precedes) ==
    LET merged[at \in (0 .. Len(left)) \X (0 .. Len(right))] ==
            LET i == at[1]
                j == at[2]
                LeftFirst == j = Len(right) \/ <<left[i + 1], right[j + 1]>> \in precedes
            IN  IF i < Len(left) /\ LeftFirst THEN <<left[i + 1]>> \o merged[<<i + 1, j>>]
                ELSE IF j < Len(right) THEN <<right[j + 1]>> \o merged[<<i, j + 1>>]
                ELSE << >>
    IN  merged

MergeMaps(left, right, precedes) == Merging(left, right, precedes)[<<0, 0>>]

\* mergeIntervalParallel, from begin and end; the halves are merged concurrently and
\* share nothing.
Intervals(maps, precedes) ==
    LET merged[range \in Ranges(maps)] ==
            LET mid == (range[1] + range[2]) \div 2
            IN  IF range[2] <= range[1] THEN << >>
                ELSE IF range[2] = range[1] + 1 THEN maps[range[2]]
                ELSE MergeMaps(merged[<<range[1], mid>>], merged[<<mid, range[2]>>], precedes)
    IN  merged

\* mergeAllParallel
MergeAll(maps, precedes) == Intervals(maps, precedes)[<<0, Len(maps)>>]

\* The loops of mergeInsert, with j elements of the vector and i of r that are not in their
\* place yet.  An element of the vector greater than r[i] is moved, and one that is less,
\* or equal, stays before it.
Inserting(r, size) ==
    LET inserted[at \in [1 .. size -> Int] \X (0 .. size - Len(r)) \X (0 .. Len(r))] ==
            LET v == at[1]
                j == at[2]
                i == at[3]
            IN  IF i = 0 THEN v
                ELSE IF j > 0 /\ v[j] > r[i] THEN inserted[<<[v EXCEPT ![j + i] = v[j]], j - 1, i>>]
                ELSE inserted[<<[v EXCEPT ![j + i] = r[i]], j, i - 1>>]
    IN  inserted

\* mergeInsert: l is resized, and r is inserted from its end.
MergeInsert(l, r) ==
    LET resized == l \o [n \in 1 .. Len(r) |-> 0]
    IN  Inserting(r, Len(resized))[<<resized, Len(l), Len(r)>>]
=============================================================================
