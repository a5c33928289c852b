------------------------- MODULE OrderedMaps_proofs -------------------------
(***************************************************************************)
(* The bisection of OrderedStaticMap finds what is in a sorted list.       *)
(***************************************************************************)
EXTENDS OrderedMaps, FiniteSetTheorems, SequenceTheorems, WellFoundedInduction, TLAPS

Ascending(keys) == \A i, j \in 1 .. Len(keys) : i < j => keys[i] < keys[j]

\* One iteration of find, with the answers of the next ones.
Iteration(keys, key, search, range) ==
    LET mid == (range[1] + range[2]) \div 2
    IN  IF mid >= range[2] THEN NotFound
        ELSE IF keys[mid + 1] = key THEN mid + 1
        ELSE IF key < keys[mid + 1] THEN search[<<range[1], mid>>]
        ELSE search[<<mid + 1, range[2]>>]

LEMMA SearchUnfolds ==
    ASSUME NEW keys, NEW key
    PROVE  Search(keys, key) =
              CHOOSE search : search = [range \in Ranges(keys) |-> Iteration(keys, key, search, range)]
BY DEF Search, Iteration

\* The position of a key in a range, which the loop only approaches.
Positions(keys, key, range) == {i \in range[1] + 1 .. range[2] : keys[i] = key}

Found(keys, key) ==
    [range \in Ranges(keys) |->
        IF Positions(keys, key, range) = {} THEN NotFound
        ELSE CHOOSE i \in Positions(keys, key, range) : TRUE]

LEMMA Middle ==
    ASSUME NEW n \in Nat, NEW begin \in 0 .. n, NEW end \in 0 .. n
    PROVE  LET mid == (begin + end) \div 2
           IN  /\ mid \in 0 .. n
               /\ mid >= end <=> begin >= end
               /\ mid < end => /\ begin <= mid /\ mid + 1 \in 0 .. n
                               /\ mid + 1 \in 1 .. n /\ mid + 1 \in begin + 1 .. end
OBVIOUS

\* Whichever way an iteration goes, the key can only be where it goes.
LEMMA PositionsFollow ==
    ASSUME NEW keys \in Seq(Int), Ascending(keys), NEW key \in Int,
           NEW range \in Ranges(keys),
           NEW mid \in Int, mid = (range[1] + range[2]) \div 2
    PROVE  /\ mid >= range[2] => Positions(keys, key, range) = {}
           /\ mid < range[2] /\ keys[mid + 1] = key => Positions(keys, key, range) = {mid + 1}
           /\ mid < range[2] /\ key < keys[mid + 1] =>
                 /\ <<range[1], mid>> \in Ranges(keys)
                 /\ Positions(keys, key, range) = Positions(keys, key, <<range[1], mid>>)
           /\ mid < range[2] /\ keys[mid + 1] < key =>
                 /\ <<mid + 1, range[2]>> \in Ranges(keys)
                 /\ Positions(keys, key, range) = Positions(keys, key, <<mid + 1, range[2]>>)
<1> DEFINE n == Len(keys)
           begin == range[1]
           end == range[2]
<1>1. n \in Nat /\ begin \in 0 .. n /\ end \in 0 .. n
  BY DEF Ranges
<1>2. \A i \in 1 .. n : keys[i] \in Int
  BY ElementOfSeq
<1>3. \A i, j \in 1 .. n : i < j => keys[i] < keys[j]
  BY DEF Ascending
<1>4. /\ mid \in 0 .. n
      /\ mid >= end <=> begin >= end
      /\ mid < end => /\ begin <= mid /\ mid + 1 \in 0 .. n
                      /\ mid + 1 \in 1 .. n /\ mid + 1 \in begin + 1 .. end
  BY <1>1, Middle
<1>5. Positions(keys, key, range) = {i \in begin + 1 .. end : keys[i] = key}
  BY DEF Positions
<1>6. Positions(keys, key, <<begin, mid>>) = {i \in begin + 1 .. mid : keys[i] = key}
  BY DEF Positions
<1>7. Positions(keys, key, <<mid + 1, end>>) = {i \in mid + 1 + 1 .. end : keys[i] = key}
  BY DEF Positions
<1>8. mid < end => <<begin, mid>> \in Ranges(keys) /\ <<mid + 1, end>> \in Ranges(keys)
  BY <1>1, <1>4 DEF Ranges
<1>9. \A i \in begin + 1 .. end : i \in 1 .. n /\ i \in Int
  BY <1>1
<1> HIDE DEF n, begin, end
<1>10. mid < end => keys[mid + 1] \in Int
  BY <1>2, <1>4
<1>11. ~(mid >= end /\ mid < end)
  BY <1>1, <1>4
<1>12. mid < end => /\ ~(keys[mid + 1] = key /\ key < keys[mid + 1])
                     /\ ~(keys[mid + 1] = key /\ keys[mid + 1] < key)
                     /\ ~(key < keys[mid + 1] /\ keys[mid + 1] < key)
  BY <1>10
<1>13. CASE mid >= end
  BY <1>1, <1>4, <1>5, <1>13 DEF begin, end
<1>14. CASE mid < end /\ keys[mid + 1] = key
  <2>1. ASSUME NEW i \in begin + 1 .. end, keys[i] = key PROVE i = mid + 1
    BY <1>2, <1>3, <1>4, <1>9, <1>14, <2>1
  <2> QED
    BY <1>4, <1>5, <1>14, <1>11, <1>12, <2>1 DEF begin, end
<1>15. CASE mid < end /\ key < keys[mid + 1]
  <2>1. ASSUME NEW i \in begin + 1 .. end, keys[i] = key PROVE i \in begin + 1 .. mid
    <3>1. ~(i > mid + 1) /\ i # mid + 1
      BY <1>2, <1>3, <1>4, <1>9, <1>15, <2>1
    <3> QED
      BY <1>1, <3>1
  <2>2. \A i \in begin + 1 .. mid : i \in begin + 1 .. end
    BY <1>1, <1>15
  <2>3. Positions(keys, key, range) = Positions(keys, key, <<begin, mid>>)
    BY <1>5, <1>6, <2>1, <2>2
  <2> QED
    BY <1>8, <1>15, <1>11, <1>12, <2>3, Zenon DEF begin, end
<1>16. CASE mid < end /\ keys[mid + 1] < key
  <2>1. ASSUME NEW i \in begin + 1 .. end, keys[i] = key PROVE i \in mid + 1 + 1 .. end
    <3>1. ~(i < mid + 1) /\ i # mid + 1
      BY <1>2, <1>3, <1>4, <1>9, <1>16, <2>1
    <3> QED
      BY <1>1, <3>1
  <2>2. \A i \in mid + 1 + 1 .. end : i \in begin + 1 .. end
    BY <1>1, <1>4, <1>16
  <2>3. Positions(keys, key, range) = Positions(keys, key, <<mid + 1, end>>)
    BY <1>5, <1>7, <2>1, <2>2
  <2> QED
    BY <1>8, <1>16, <1>11, <1>12, <2>3, Zenon DEF begin, end
<1>17. mid >= end \/ mid < end
  BY <1>1
<1>18. mid < end => keys[mid + 1] = key \/ key < keys[mid + 1] \/ keys[mid + 1] < key
  BY <1>2, <1>4
<1> QED
  BY <1>13, <1>14, <1>15, <1>16, <1>17, <1>18

LEMMA FoundAt ==
    ASSUME NEW keys, NEW key, NEW range \in Ranges(keys), NEW position \in Nat,
           Positions(keys, key, range) = {position}
    PROVE  Found(keys, key)[range] = position
BY DEF Found

LEMMA FoundSame ==
    ASSUME NEW keys, NEW key, NEW range \in Ranges(keys), NEW next \in Ranges(keys),
           Positions(keys, key, range) = Positions(keys, key, next)
    PROVE  Found(keys, key)[range] = Found(keys, key)[next]
<1>1. \A r \in Ranges(keys) :
         Found(keys, key)[r] = IF Positions(keys, key, r) = {} THEN NotFound
                               ELSE CHOOSE i \in Positions(keys, key, r) : TRUE
  BY DEF Found
<1> QED
  BY <1>1, Zenon

\* The answer for a range is the one that the next iteration's range has.
LEMMA AnswerFollows ==
    ASSUME NEW keys \in Seq(Int), Ascending(keys), NEW key \in Int,
           NEW range \in Ranges(keys)
    PROVE  Found(keys, key)[range] = Iteration(keys, key, Found(keys, key), range)
<1> DEFINE found == Found(keys, key)
           n == Len(keys)
           mid == (range[1] + range[2]) \div 2
<1>1. n \in Nat /\ range[1] \in 0 .. n /\ range[2] \in 0 .. n
  BY DEF Ranges
<1>2. mid \in 0 .. n /\ (mid < range[2] => mid + 1 \in 1 .. n)
  BY <1>1, Middle
<1>3. /\ mid >= range[2] => Positions(keys, key, range) = {}
      /\ mid < range[2] /\ keys[mid + 1] = key => Positions(keys, key, range) = {mid + 1}
      /\ mid < range[2] /\ key < keys[mid + 1] =>
            /\ <<range[1], mid>> \in Ranges(keys)
            /\ Positions(keys, key, range) = Positions(keys, key, <<range[1], mid>>)
      /\ mid < range[2] /\ keys[mid + 1] < key =>
            /\ <<mid + 1, range[2]>> \in Ranges(keys)
            /\ Positions(keys, key, range) = Positions(keys, key, <<mid + 1, range[2]>>)
  BY <1>2, PositionsFollow
<1>4. Iteration(keys, key, found, range) =
         IF mid >= range[2] THEN NotFound
         ELSE IF keys[mid + 1] = key THEN mid + 1
         ELSE IF key < keys[mid + 1] THEN found[<<range[1], mid>>]
         ELSE found[<<mid + 1, range[2]>>]
  BY DEF Iteration
<1>5. mid < range[2] => keys[mid + 1] \in Int
  BY <1>2, ElementOfSeq
<1>6. mid \in Int /\ range[2] \in Int
  BY <1>1, <1>2
<1> HIDE DEF mid, n, found
<1>7. CASE mid >= range[2]
  <2>1. found[range] = NotFound
    BY <1>3, <1>7 DEF found, Found
  <2> QED
    BY <1>4, <1>6, <1>7, <2>1 DEF found
<1>8. CASE mid < range[2] /\ keys[mid + 1] = key
  <2>1. found[range] = mid + 1
    BY <1>1, <1>2, <1>3, <1>8, FoundAt, SMTT(30) DEF found
  <2> QED
    BY <1>4, <1>5, <1>6, <1>8, <2>1 DEF found
<1>9. CASE mid < range[2] /\ key < keys[mid + 1]
  <2>1. found[range] = found[<<range[1], mid>>]
    BY <1>3, <1>9, FoundSame DEF found
  <2> QED
    BY <1>4, <1>5, <1>6, <1>9, <2>1 DEF found
<1>10. CASE mid < range[2] /\ keys[mid + 1] < key
  <2>1. found[range] = found[<<mid + 1, range[2]>>]
    BY <1>3, <1>10, FoundSame DEF found
  <2> QED
    BY <1>4, <1>5, <1>6, <1>10, <2>1 DEF found
<1> QED
  BY <1>5, <1>6, <1>7, <1>8, <1>9, <1>10

LEMMA SearchTerminates ==
    ASSUME NEW keys \in Seq(Int), Ascending(keys), NEW key \in Int
    PROVE  Search(keys, key) =
              [range \in Ranges(keys) |-> Iteration(keys, key, Search(keys, key), range)]
<1> DEFINE found == Found(keys, key)
<1>1. found = [range \in Ranges(keys) |-> found[range]]
  BY DEF Found
<1>2. found = [range \in Ranges(keys) |-> Iteration(keys, key, found, range)]
  BY <1>1, AnswerFollows
<1>3. \E search : search = [range \in Ranges(keys) |-> Iteration(keys, key, search, range)]
  BY <1>2
<1> QED
  BY <1>3, SearchUnfolds

\* Any two functions with the equation of the loop are equal: there is no range that is
\* least among those on which they differ.
LEMMA OneSearch ==
    ASSUME NEW keys \in Seq(Int), NEW key \in Int, NEW f, NEW g,
           \A range \in Ranges(keys) : f[range] = Iteration(keys, key, f, range),
           \A range \in Ranges(keys) : g[range] = Iteration(keys, key, g, range),
           NEW range \in Ranges(keys)
    PROVE  f[range] = g[range]
<1> DEFINE n == Len(keys)
           Width(r) == IF r[1] < r[2] THEN r[2] - r[1] ELSE 0
           widths == {w \in Nat : \E r \in Ranges(keys) : Width(r) = w /\ f[r] # g[r]}
<1>1. \A r \in Ranges(keys) : n \in Nat /\ r[1] \in 0 .. n /\ r[2] \in 0 .. n
  BY DEF Ranges
<1>2. \A r \in Ranges(keys) : Width(r) \in Nat
  BY <1>1
<1> SUFFICES ASSUME f[range] # g[range] PROVE FALSE
  OBVIOUS
<1>3. widths \subseteq Nat /\ widths # {}
  BY <1>2
<1>4. PICK w \in widths : \A v \in widths : ~(<<v, w>> \in OpToRel(<, Nat))
  BY <1>3, NatLessThanWellFounded, WFMin
<1>5. \A v \in widths : ~(v < w)
  BY <1>3, <1>4 DEF OpToRel
<1>6. PICK r \in Ranges(keys) : Width(r) = w /\ f[r] # g[r]
  BY <1>4
<1>7. \A s \in Ranges(keys) : Width(s) < Width(r) => f[s] = g[s]
  BY <1>2, <1>5, <1>6
<1> DEFINE mid == (r[1] + r[2]) \div 2
<1>8. /\ mid \in 0 .. n
      /\ mid >= r[2] <=> r[1] >= r[2]
      /\ mid < r[2] => /\ r[1] <= mid /\ mid + 1 \in 0 .. n
  BY <1>1, Middle
<1>9. mid < r[2] => /\ <<r[1], mid>> \in Ranges(keys) /\ Width(<<r[1], mid>>) < Width(r)
                    /\ <<mid + 1, r[2]>> \in Ranges(keys) /\ Width(<<mid + 1, r[2]>>) < Width(r)
  <2> SUFFICES ASSUME mid < r[2]
               PROVE  /\ <<r[1], mid>> \in Ranges(keys) /\ Width(<<r[1], mid>>) < Width(r)
                      /\ <<mid + 1, r[2]>> \in Ranges(keys) /\ Width(<<mid + 1, r[2]>>) < Width(r)
    OBVIOUS
  <2>1. <<r[1], mid>> \in Ranges(keys) /\ <<mid + 1, r[2]>> \in Ranges(keys)
    BY <1>1, <1>8 DEF Ranges
  <2>2. r[1] \in Nat /\ r[2] \in Nat /\ mid \in Nat /\ r[1] < r[2] /\ r[1] <= mid
    <3>1. n \in Nat /\ r[1] \in 0 .. n /\ r[2] \in 0 .. n
      BY <1>1
    <3>2. mid \in 0 .. n /\ (mid >= r[2] <=> r[1] >= r[2]) /\ r[1] <= mid
      BY <1>8
    <3> HIDE DEF n, mid
    <3> QED
      BY <3>1, <3>2
  <2>3. /\ Width(<<r[1], mid>>) = IF r[1] < mid THEN mid - r[1] ELSE 0
        /\ Width(<<mid + 1, r[2]>>) = IF mid + 1 < r[2] THEN r[2] - (mid + 1) ELSE 0
    OBVIOUS
  <2>4. Width(r) = r[2] - r[1]
    BY <2>2
  <2> HIDE DEF mid, Width
  <2>5. Width(<<r[1], mid>>) < Width(r) /\ Width(<<mid + 1, r[2]>>) < Width(r)
    BY <2>2, <2>3, <2>4
  <2> QED
    BY <2>1, <2>5
<1>10. mid < r[2] => f[<<r[1], mid>>] = g[<<r[1], mid>>] /\ f[<<mid + 1, r[2]>>] = g[<<mid + 1, r[2]>>]
  BY <1>7, <1>9
<1>11. mid >= r[2] \/ mid < r[2]
  BY <1>1, <1>8
<1>12. Iteration(keys, key, f, r) = Iteration(keys, key, g, r)
  BY <1>10, <1>11 DEF Iteration
<1> QED
  BY <1>6, <1>12

\* OrderedStaticMap::find (OrderedStaticMap.hpp:57-66): in a list that ascends it finds every
\* key that is there, at its position, and throws out_of_range for every other.
THEOREM FindIsExact ==
    ASSUME NEW keys \in Seq(Int), Ascending(keys), NEW key \in Int
    PROVE  /\ Find(keys, key) = NotFound <=> \A i \in 1 .. Len(keys) : keys[i] # key
           /\ Find(keys, key) # NotFound =>
                 Find(keys, key) \in 1 .. Len(keys) /\ keys[Find(keys, key)] = key
<1> DEFINE all == <<0, Len(keys)>>
<1>1. all \in Ranges(keys)
  BY DEF Ranges
<1>2. \A range \in Ranges(keys) :
         Search(keys, key)[range] = Iteration(keys, key, Search(keys, key), range)
  BY SearchTerminates
<1>3. \A range \in Ranges(keys) :
         Found(keys, key)[range] = Iteration(keys, key, Found(keys, key), range)
  BY AnswerFollows
<1>4. Find(keys, key) = Found(keys, key)[all]
  BY <1>1, <1>2, <1>3, OneSearch DEF Find
<1>5. Positions(keys, key, all) = {i \in 1 .. Len(keys) : keys[i] = key}
  BY DEF Positions
<1>6. NotFound \notin 1 .. Len(keys)
  BY DEF NotFound
<1> QED
  BY <1>1, <1>4, <1>5, <1>6 DEF Found
-----------------------------------------------------------------------------
(* Sorted lists *)

\* R is a strict total order on S.
Orders(R, S) ==
    /\ \A x \in S : <<x, x>> \notin R
    /\ \A x, y \in S : x # y => <<x, y>> \in R \/ <<y, x>> \in R
    /\ \A x, y, z \in S : <<x, y>> \in R /\ <<y, z>> \in R => <<x, z>> \in R

\* The list has every element of S, in the order of R.
Lists(s, S, R) ==
    /\ s \in Seq(S)
    /\ \A i, j \in 1 .. Len(s) : i < j => <<s[i], s[j]>> \in R
    /\ \A x \in S : \E i \in 1 .. Len(s) : s[i] = x

Below(x, S, R) == {y \in S : <<y, x>> \in R}

LEMMA OrdersSubset ==
    ASSUME NEW R, NEW S, Orders(R, S), NEW T, T \subseteq S
    PROVE  Orders(R, T)
<1>1. \A x \in T : x \in S
  OBVIOUS
<1> QED
  BY <1>1 DEF Orders

LEMMA RankRange ==
    ASSUME NEW S, NEW R, IsFiniteSet(S), Orders(R, S), NEW x \in S
    PROVE  /\ IsFiniteSet(Below(x, S, R))
           /\ Cardinality(Below(x, S, R)) \in 0 .. Cardinality(S) - 1
<1>1. Below(x, S, R) \in SUBSET S /\ x \notin Below(x, S, R)
  BY DEF Below, Orders
<1>2. /\ IsFiniteSet(Below(x, S, R))
      /\ Cardinality(Below(x, S, R)) <= Cardinality(S)
      /\ Cardinality(S) = Cardinality(Below(x, S, R)) => S = Below(x, S, R)
  BY <1>1, FS_Subset
<1>3. Cardinality(S) \in Nat /\ Cardinality(Below(x, S, R)) \in Nat
  BY <1>2, FS_CardinalityType
<1> QED
  BY <1>1, <1>2, <1>3

LEMMA RankGrows ==
    ASSUME NEW S, NEW R, IsFiniteSet(S), Orders(R, S),
           NEW x \in S, NEW y \in S, <<x, y>> \in R
    PROVE  Cardinality(Below(x, S, R)) < Cardinality(Below(y, S, R))
<1>1. Below(x, S, R) \in SUBSET Below(y, S, R)
  BY DEF Below, Orders
<1>2. x \in Below(y, S, R) /\ x \notin Below(x, S, R)
  BY DEF Below, Orders
<1>3. IsFiniteSet(Below(y, S, R)) /\ IsFiniteSet(Below(x, S, R))
  BY RankRange
<1>4. /\ Cardinality(Below(x, S, R)) <= Cardinality(Below(y, S, R))
      /\ Cardinality(Below(y, S, R)) = Cardinality(Below(x, S, R)) => Below(y, S, R) = Below(x, S, R)
  BY <1>1, <1>3, FS_Subset
<1>5. Cardinality(Below(x, S, R)) \in Nat /\ Cardinality(Below(y, S, R)) \in Nat
  BY <1>3, FS_CardinalityType
<1> QED
  BY <1>2, <1>4, <1>5

\* Every position has the one element that comes after as many others.
LEMMA RankOnto ==
    ASSUME NEW S, NEW R, IsFiniteSet(S), Orders(R, S), NEW n \in 0 .. Cardinality(S) - 1
    PROVE  \E x \in S : Cardinality(Below(x, S, R)) = n
<1> DEFINE rank == [x \in S |-> Cardinality(Below(x, S, R))]
           T == 0 .. Cardinality(S) - 1
<1>1. Cardinality(S) \in Nat
  BY FS_CardinalityType
<1>2. IsFiniteSet(T) /\ Cardinality(T) = Cardinality(S)
  <2>1. \A m \in Int : /\ IsFiniteSet(0 .. m)
                       /\ Cardinality(0 .. m) = IF 0 > m THEN 0 ELSE m - 0 + 1
    BY FS_Interval
  <2>2. Cardinality(S) - 1 \in Int
    BY <1>1
  <2> QED
    BY <1>1, <2>1, <2>2
<1>3. rank \in [S -> T]
  BY RankRange
<1>4. \A x, y \in S : rank[x] = rank[y] => x = y
  <2> SUFFICES ASSUME NEW x \in S, NEW y \in S, x # y PROVE rank[x] # rank[y]
    OBVIOUS
  <2>1. rank[x] \in Int /\ rank[y] \in Int
    BY <1>1, <1>3
  <2>2. rank[x] < rank[y] \/ rank[y] < rank[x]
    BY RankGrows DEF Orders
  <2> HIDE DEF rank
  <2> QED
    BY <2>1, <2>2
<1>5. rank \in Injection(S, T)
  BY <1>3, <1>4 DEF Injection, IsInjective
<1>6. rank \in Surjection(S, T)
  BY <1>2, <1>5, FS_Injection
<1> QED
  BY <1>6 DEF Surjection

LEMMA SortedListIs ==
    ASSUME NEW S, NEW R
    PROVE  SortedList(S, R) =
              [n \in 1 .. Cardinality(S) |-> CHOOSE x \in S : Cardinality(Below(x, S, R)) = n - 1]
BY DEF SortedList, Below

\* SortedList is what its name says.
LEMMA SortedListLists ==
    ASSUME NEW S, NEW R, IsFiniteSet(S), Orders(R, S)
    PROVE  Lists(SortedList(S, R), S, R) /\ Len(SortedList(S, R)) = Cardinality(S)
<1> DEFINE s == SortedList(S, R)
           n == Cardinality(S)
<1>1. n \in Nat
  BY FS_CardinalityType
<1>2. s = [k \in 1 .. n |-> CHOOSE x \in S : Cardinality(Below(x, S, R)) = k - 1]
  BY SortedListIs
<1>3. \A k \in 1 .. n : s[k] \in S /\ Cardinality(Below(s[k], S, R)) = k - 1
  <2> SUFFICES ASSUME NEW k \in 1 .. n
               PROVE  s[k] \in S /\ Cardinality(Below(s[k], S, R)) = k - 1
    OBVIOUS
  <2>1. k - 1 \in 0 .. n - 1
    BY <1>1
  <2>2. \E x \in S : Cardinality(Below(x, S, R)) = k - 1
    BY <2>1, RankOnto
  <2>3. s[k] = CHOOSE x \in S : Cardinality(Below(x, S, R)) = k - 1
    BY <1>2
  <2> QED
    BY <2>2, <2>3
<1>4. s \in [1 .. n -> S]
  BY <1>2, <1>3
<1>5. s \in Seq(S) /\ Len(s) = n
  BY <1>1, <1>4, SeqDef, LenProperties
<1>6. ASSUME NEW i \in 1 .. n, NEW j \in 1 .. n, i < j PROVE <<s[i], s[j]>> \in R
  <2>1. s[i] \in S /\ s[j] \in S
    BY <1>3
  <2>2. Cardinality(Below(s[i], S, R)) = i - 1 /\ Cardinality(Below(s[j], S, R)) = j - 1
    BY <1>3
  <2>3. i - 1 < j - 1 /\ i \in Int /\ j \in Int
    BY <1>1, <1>6
  <2>4. s[i] # s[j]
    BY <2>2, <2>3
  <2>5. ~(<<s[j], s[i]>> \in R)
    <3> SUFFICES ASSUME <<s[j], s[i]>> \in R PROVE FALSE
      OBVIOUS
    <3>1. Cardinality(Below(s[j], S, R)) < Cardinality(Below(s[i], S, R))
      BY <2>1, RankGrows
    <3> QED
      BY <2>2, <2>3, <3>1
  <2> QED
    BY <2>1, <2>4, <2>5 DEF Orders
<1>7. ASSUME NEW x \in S PROVE \E i \in 1 .. n : s[i] = x
  <2> DEFINE k == Cardinality(Below(x, S, R)) + 1
  <2>1. k \in 1 .. n /\ Cardinality(Below(x, S, R)) = k - 1
    BY <1>1, RankRange
  <2>2. s[k] \in S /\ Cardinality(Below(s[k], S, R)) = Cardinality(Below(x, S, R))
    BY <1>3, <2>1
  <2>3. Cardinality(Below(x, S, R)) \in Int
    BY <1>1, RankRange
  <2> HIDE DEF k
  <2>4. s[k] = x
    <3> SUFFICES ASSUME s[k] # x PROVE FALSE
      OBVIOUS
    <3>1. <<s[k], x>> \in R \/ <<x, s[k]>> \in R
      BY <2>2 DEF Orders
    <3>2. Cardinality(Below(s[k], S, R)) < Cardinality(Below(x, S, R))
          \/ Cardinality(Below(x, S, R)) < Cardinality(Below(s[k], S, R))
      BY <2>2, <3>1, RankGrows
    <3> QED
      BY <2>2, <2>3, <3>2
  <2> QED
    BY <2>1, <2>4
<1> HIDE DEF s, n
<1>8. Lists(s, S, R)
  BY <1>5, <1>6, <1>7 DEF Lists
<1> QED
  BY <1>5, <1>8 DEF s, n

\* The elements in front of a position are those that come before it.
LEMMA RankInList ==
    ASSUME NEW S, NEW R, Orders(R, S), NEW s, Lists(s, S, R), NEW n \in 1 .. Len(s)
    PROVE  /\ IsFiniteSet(Below(s[n], S, R))
           /\ Cardinality(Below(s[n], S, R)) = n - 1
<1> DEFINE f == [k \in 1 .. n - 1 |-> s[k]]
           B == Below(s[n], S, R)
<1>1. Len(s) \in Nat /\ \A k \in 1 .. Len(s) : s[k] \in S
  BY LenProperties, ElementOfSeq DEF Lists
<1>2. \A k \in 1 .. n - 1 : k \in 1 .. Len(s) /\ k < n
  BY <1>1
<1>3. \A k \in 1 .. n - 1 : s[k] \in B
  BY <1>1, <1>2 DEF Lists, Below
<1>4. \A j, k \in 1 .. Len(s) : s[j] = s[k] => j = k
  <2> SUFFICES ASSUME NEW j \in 1 .. Len(s), NEW k \in 1 .. Len(s), j < k PROVE s[j] # s[k]
    BY <1>1
  <2>1. <<s[j], s[k]>> \in R
    BY DEF Lists
  <2> QED
    BY <1>1, <2>1 DEF Orders
<1>5. \A y \in B : \E k \in 1 .. n - 1 : s[k] = y
  <2> SUFFICES ASSUME NEW y \in B PROVE \E k \in 1 .. n - 1 : s[k] = y
    OBVIOUS
  <2>1. y \in S /\ <<y, s[n]>> \in R
    BY DEF Below
  <2>2. PICK k \in 1 .. Len(s) : s[k] = y
    BY <2>1 DEF Lists
  <2>3. k # n
    BY <1>1, <2>1, <2>2 DEF Orders
  <2>4. ~(n < k)
    <3> SUFFICES ASSUME n < k PROVE FALSE
      OBVIOUS
    <3>1. <<s[n], y>> \in R
      BY <2>2 DEF Lists
    <3> QED
      BY <1>1, <2>1, <3>1 DEF Orders
  <2> QED
    BY <1>1, <2>2, <2>3, <2>4
<1>6. f \in [1 .. n - 1 -> B]
  BY <1>3
<1>7. f \in Bijection(1 .. n - 1, B)
  BY <1>2, <1>4, <1>5, <1>6 DEF Bijection, Injection, Surjection, IsInjective
<1>8. n - 1 \in Int /\ n - 1 >= 0
  BY <1>1
<1>9. IsFiniteSet(1 .. n - 1) /\ Cardinality(1 .. n - 1) = n - 1
  <2>1. \A m \in Int : IsFiniteSet(1 .. m) /\ Cardinality(1 .. m) = IF 1 > m THEN 0 ELSE m - 1 + 1
    BY FS_Interval
  <2> QED
    BY <1>8, <2>1
<1> HIDE DEF B, f
<1>10. IsFiniteSet(B) /\ Cardinality(B) = Cardinality(1 .. n - 1)
  BY <1>7, <1>9, FS_Bijection DEF ExistsBijection
<1> QED
  BY <1>9, <1>10 DEF B

\* A set has one list.
LEMMA OneList ==
    ASSUME NEW S, NEW R, IsFiniteSet(S), Orders(R, S), NEW s, Lists(s, S, R)
    PROVE  s = SortedList(S, R)
<1> DEFINE t == SortedList(S, R)
<1>1. Lists(t, S, R)
  BY SortedListLists
<1>2. \A n \in 1 .. Len(s) : Cardinality(Below(s[n], S, R)) = n - 1
  BY RankInList
<1>3. \A n \in 1 .. Len(t) : Cardinality(Below(t[n], S, R)) = n - 1
  BY <1>1, RankInList
<1>4. /\ Len(s) \in Nat /\ \A n \in 1 .. Len(s) : s[n] \in S
      /\ Len(t) \in Nat /\ \A n \in 1 .. Len(t) : t[n] \in S
  BY <1>1, LenProperties, ElementOfSeq DEF Lists
<1>5. \A x, y \in S : Cardinality(Below(x, S, R)) = Cardinality(Below(y, S, R)) => x = y
  <2> SUFFICES ASSUME NEW x \in S, NEW y \in S, x # y
               PROVE  Cardinality(Below(x, S, R)) # Cardinality(Below(y, S, R))
    OBVIOUS
  <2>1. Cardinality(Below(x, S, R)) \in Nat /\ Cardinality(Below(y, S, R)) \in Nat
    BY RankRange, FS_CardinalityType
  <2>2. \/ Cardinality(Below(x, S, R)) < Cardinality(Below(y, S, R))
        \/ Cardinality(Below(y, S, R)) < Cardinality(Below(x, S, R))
    BY RankGrows DEF Orders
  <2> QED
    BY <2>1, <2>2
<1>6. Len(s) = Cardinality(S) /\ Len(t) = Cardinality(S)
  <2> SUFFICES ASSUME NEW u, Lists(u, S, R) PROVE Len(u) = Cardinality(S)
    BY <1>1
  <2>1. Len(u) \in Nat /\ \A n \in 1 .. Len(u) : u[n] \in S
    BY LenProperties, ElementOfSeq DEF Lists
  <2>2. \A n \in 1 .. Len(u) : Cardinality(Below(u[n], S, R)) = n - 1
    BY RankInList
  <2>3. u \in [1 .. Len(u) -> S]
    BY LenProperties, ElementOfSeq DEF Lists
  <2>4. u \in Bijection(1 .. Len(u), S)
    <3>1. \A j, k \in 1 .. Len(u) : u[j] = u[k] => j = k
      <4> SUFFICES ASSUME NEW j \in 1 .. Len(u), NEW k \in 1 .. Len(u), u[j] = u[k] PROVE j = k
        OBVIOUS
      <4>1. j - 1 = k - 1
        BY <2>2
      <4> QED
        BY <2>1, <4>1
    <3> QED
      BY <2>3, <3>1 DEF Lists, Bijection, Injection, Surjection, IsInjective
  <2>5. IsFiniteSet(1 .. Len(u)) /\ Cardinality(1 .. Len(u)) = Len(u)
    <3>1. \A m \in Int : IsFiniteSet(1 .. m) /\ Cardinality(1 .. m) = IF 1 > m THEN 0 ELSE m - 1 + 1
      BY FS_Interval
    <3> QED
      BY <2>1, <3>1
  <2> QED
    BY <2>4, <2>5, FS_Bijection DEF ExistsBijection
<1>7. \A n \in 1 .. Len(s) : s[n] = t[n]
  <2> SUFFICES ASSUME NEW n \in 1 .. Len(s) PROVE s[n] = t[n]
    OBVIOUS
  <2>1. n \in 1 .. Len(t) /\ s[n] \in S /\ t[n] \in S
    BY <1>4, <1>6
  <2>2. Cardinality(Below(s[n], S, R)) = Cardinality(Below(t[n], S, R))
    BY <1>2, <1>3, <2>1
  <2> QED
    BY <1>5, <2>1, <2>2
<1> HIDE DEF t
<1>8. s \in Seq(S) /\ t \in Seq(S)
  BY <1>1 DEF Lists
<1>9. Len(s) = Len(t)
  BY <1>6
<1> QED
  BY <1>7, <1>8, <1>9, SeqEqual DEF t

-----------------------------------------------------------------------------
(* Merging two lists *)

LEMMA ConsList ==
    ASSUME NEW T, NEW x, NEW R, IsFiniteSet(T), Orders(R, T \cup {x}), x \notin T,
           \A y \in T : <<x, y>> \in R
    PROVE  SortedList(T \cup {x}, R) = <<x>> \o SortedList(T, R)
<1> DEFINE S == T \cup {x}
           t == SortedList(T, R)
           s == <<x>> \o t
<1>1. IsFiniteSet(S) /\ Orders(R, T)
  BY FS_AddElement, OrdersSubset
<1>2. Lists(t, T, R)
  BY <1>1, SortedListLists
<1>3. /\ t \in Seq(S) /\ Len(t) \in Nat /\ \A n \in 1 .. Len(t) : t[n] \in T
  BY <1>2, LenProperties, ElementOfSeq, SeqMonotonic DEF Lists
<1>4. <<x>> \in Seq(S) /\ Len(<<x>>) = 1 /\ <<x>>[1] = x
  OBVIOUS
<1> HIDE DEF t
<1>5. /\ s \in Seq(S) /\ Len(s) = 1 + Len(t)
      /\ \A n \in 1 .. 1 + Len(t) : s[n] = IF n <= 1 THEN <<x>>[n] ELSE t[n - 1]
  BY <1>3, <1>4, ConcatProperties
<1>6. s[1] = x /\ \A n \in 2 .. Len(s) : n - 1 \in 1 .. Len(t) /\ s[n] = t[n - 1]
  BY <1>3, <1>4, <1>5
<1> HIDE DEF s
<1>7. \A i, j \in 1 .. Len(s) : i < j => <<s[i], s[j]>> \in R
  <2> SUFFICES ASSUME NEW i \in 1 .. Len(s), NEW j \in 1 .. Len(s), i < j
               PROVE  <<s[i], s[j]>> \in R
    OBVIOUS
  <2>1. j \in 2 .. Len(s) /\ (i = 1 \/ i \in 2 .. Len(s))
    BY <1>3, <1>5
  <2>2. j - 1 \in 1 .. Len(t) /\ s[j] = t[j - 1] /\ s[j] \in T
    BY <1>3, <1>6, <2>1
  <2>3. CASE i = 1
    BY <1>6, <2>2, <2>3
  <2>4. CASE i \in 2 .. Len(s)
    <3>1. i - 1 \in 1 .. Len(t) /\ s[i] = t[i - 1] /\ i - 1 < j - 1
      BY <1>3, <1>6, <2>4
    <3> QED
      BY <1>2, <2>2, <3>1 DEF Lists
  <2> QED
    BY <2>1, <2>3, <2>4
<1>8. \A y \in S : \E n \in 1 .. Len(s) : s[n] = y
  <2> SUFFICES ASSUME NEW y \in S PROVE \E n \in 1 .. Len(s) : s[n] = y
    OBVIOUS
  <2>1. CASE y = x
    BY <1>3, <1>5, <1>6, <2>1
  <2>2. CASE y \in T
    <3>1. PICK n \in 1 .. Len(t) : t[n] = y
      BY <1>2, <2>2 DEF Lists
    <3>2. n + 1 \in 2 .. Len(s) /\ (n + 1) - 1 = n /\ n + 1 \in 1 .. Len(s)
      BY <1>3, <1>5
    <3>3. s[n + 1] = t[n]
      BY <1>6, <3>2
    <3> QED
      BY <3>1, <3>2, <3>3
  <2> QED
    BY <2>1, <2>2
<1>9. Lists(s, S, R)
  BY <1>5, <1>7, <1>8 DEF Lists
<1> QED
  BY <1>1, <1>9, OneList DEF s, t

LEMMA EmptyList ==
    ASSUME NEW R
    PROVE  SortedList({}, R) = << >>
<1>1. Cardinality({}) = 0
  BY FS_EmptySet
<1>2. DOMAIN SortedList({}, R) = 1 .. 0
  BY <1>1 DEF SortedList
<1>3. IsFiniteSet({}) /\ Orders(R, {})
  BY FS_EmptySet DEF Orders
<1>4. Lists(<< >>, {}, R)
  BY EmptySeq DEF Lists
<1> QED
  BY <1>3, <1>4, OneList

\* What a list has behind a position.
Ahead(s, i) == {s[k] : k \in i + 1 .. Len(s)}

LEMMA RestFacts ==
    ASSUME NEW S, NEW R, Orders(R, S), NEW s, Lists(s, S, R), NEW i \in 0 .. Len(s)
    PROVE  /\ Ahead(s, i) \subseteq S
           /\ i = Len(s) => Ahead(s, i) = {}
           /\ i = 0 => Ahead(s, i) = S
           /\ i < Len(s) => /\ s[i + 1] \in S /\ i + 1 \in 0 .. Len(s)
                            /\ Ahead(s, i) = Ahead(s, i + 1) \cup {s[i + 1]}
                            /\ s[i + 1] \notin Ahead(s, i + 1)
                            /\ \A y \in Ahead(s, i + 1) : <<s[i + 1], y>> \in R
<1>1. Len(s) \in Nat /\ \A k \in 1 .. Len(s) : s[k] \in S
  BY LenProperties, ElementOfSeq DEF Lists
<1>2. \A k \in i + 1 .. Len(s) : k \in 1 .. Len(s)
  BY <1>1
<1>3. Ahead(s, i) \subseteq S
  BY <1>1, <1>2 DEF Ahead
<1>4. i = Len(s) => Ahead(s, i) = {}
  BY <1>1 DEF Ahead
<1>5. i = 0 => Ahead(s, i) = S
  <2> SUFFICES ASSUME i = 0 PROVE S \subseteq Ahead(s, i)
    BY <1>3
  <2>1. i + 1 = 1
    OBVIOUS
  <2> QED
    BY <2>1 DEF Ahead, Lists
<1>6. ASSUME i < Len(s)
      PROVE  /\ s[i + 1] \in S /\ i + 1 \in 0 .. Len(s)
             /\ Ahead(s, i) = Ahead(s, i + 1) \cup {s[i + 1]}
             /\ \A y \in Ahead(s, i + 1) : <<s[i + 1], y>> \in R
  <2>1. i + 1 \in 1 .. Len(s) /\ i + 1 \in 0 .. Len(s)
    BY <1>1, <1>6
  <2>2. \A k : k \in i + 1 .. Len(s) <=> k \in (i + 1) + 1 .. Len(s) \/ k = i + 1
    BY <1>1, <1>6
  <2>3. Ahead(s, i) = Ahead(s, i + 1) \cup {s[i + 1]}
    BY <2>2 DEF Ahead
  <2>4. \A k \in (i + 1) + 1 .. Len(s) : k \in 1 .. Len(s) /\ i + 1 < k
    BY <1>1
  <2>5. \A y \in Ahead(s, i + 1) : <<s[i + 1], y>> \in R
    BY <2>1, <2>4 DEF Ahead, Lists
  <2> QED
    BY <1>1, <2>1, <2>3, <2>5
<1>7. ASSUME i < Len(s) PROVE s[i + 1] \notin Ahead(s, i + 1)
  BY <1>6, <1>7 DEF Orders
<1> QED
  BY <1>3, <1>4, <1>5, <1>6, <1>7

Positions2(left, right) == (0 .. Len(left)) \X (0 .. Len(right))

\* One iteration of operator|, with the lists that the next ones append.
MergeIteration(left, right, R, merged, at) ==
    LET i == at[1]
        j == at[2]
        LeftFirst == j = Len(right) \/ <<left[i + 1], right[j + 1]>> \in R
    IN  IF i < Len(left) /\ LeftFirst THEN <<left[i + 1]>> \o merged[<<i + 1, j>>]
        ELSE IF j < Len(right) THEN <<right[j + 1]>> \o merged[<<i, j + 1>>]
        ELSE << >>

LEMMA MergingUnfolds ==
    ASSUME NEW left, NEW right, NEW R
    PROVE  Merging(left, right, R) =
              CHOOSE merged : merged = [at \in Positions2(left, right) |->
                                           MergeIteration(left, right, R, merged, at)]
BY DEF Merging, MergeIteration, Positions2

\* The list of all that the two lists have left.
Merged(left, right, R) ==
    [at \in Positions2(left, right) |-> SortedList(Ahead(left, at[1]) \cup Ahead(right, at[2]), R)]

LEMMA MergedFollows ==
    ASSUME NEW S, NEW T, NEW R, IsFiniteSet(S), IsFiniteSet(T), \A x \in S : x \notin T,
           Orders(R, S \cup T),
           NEW left, Lists(left, S, R), NEW right, Lists(right, T, R),
           NEW at \in Positions2(left, right)
    PROVE  Merged(left, right, R)[at] =
              MergeIteration(left, right, R, Merged(left, right, R), at)
<1> DEFINE i == at[1]
           j == at[2]
           merged == Merged(left, right, R)
<1>1. /\ at = <<i, j>> /\ i \in 0 .. Len(left) /\ j \in 0 .. Len(right)
      /\ Len(left) \in Nat /\ Len(right) \in Nat
  BY LenProperties DEF Positions2, Lists
<1>2. Orders(R, S) /\ Orders(R, T)
  BY OrdersSubset
<1>3. /\ Ahead(left, i) \subseteq S
      /\ i = Len(left) => Ahead(left, i) = {}
      /\ i < Len(left) => /\ left[i + 1] \in S /\ i + 1 \in 0 .. Len(left)
                          /\ Ahead(left, i) = Ahead(left, i + 1) \cup {left[i + 1]}
                          /\ left[i + 1] \notin Ahead(left, i + 1)
                          /\ \A y \in Ahead(left, i + 1) : <<left[i + 1], y>> \in R
  BY <1>1, <1>2, RestFacts
<1>4. /\ Ahead(right, j) \subseteq T
      /\ j = Len(right) => Ahead(right, j) = {}
      /\ j < Len(right) => /\ right[j + 1] \in T /\ j + 1 \in 0 .. Len(right)
                           /\ Ahead(right, j) = Ahead(right, j + 1) \cup {right[j + 1]}
                           /\ right[j + 1] \notin Ahead(right, j + 1)
                           /\ \A y \in Ahead(right, j + 1) : <<right[j + 1], y>> \in R
  BY <1>1, <1>2, RestFacts
<1>5. \A p \in Positions2(left, right) :
         merged[p] = SortedList(Ahead(left, p[1]) \cup Ahead(right, p[2]), R)
  BY DEF Merged
<1>6. i < Len(left) => /\ <<i + 1, j>> \in Positions2(left, right)
                       /\ merged[<<i + 1, j>>] = SortedList(Ahead(left, i + 1) \cup Ahead(right, j), R)
  <2> SUFFICES ASSUME i < Len(left)
               PROVE  /\ <<i + 1, j>> \in Positions2(left, right)
                      /\ merged[<<i + 1, j>>] = SortedList(Ahead(left, i + 1) \cup Ahead(right, j), R)
    OBVIOUS
  <2>1. <<i + 1, j>> \in Positions2(left, right)
    BY <1>1, <1>3 DEF Positions2
  <2> QED
    BY <1>5, <2>1
<1>7. j < Len(right) => /\ <<i, j + 1>> \in Positions2(left, right)
                        /\ merged[<<i, j + 1>>] = SortedList(Ahead(left, i) \cup Ahead(right, j + 1), R)
  <2> SUFFICES ASSUME j < Len(right)
               PROVE  /\ <<i, j + 1>> \in Positions2(left, right)
                      /\ merged[<<i, j + 1>>] = SortedList(Ahead(left, i) \cup Ahead(right, j + 1), R)
    OBVIOUS
  <2>1. <<i, j + 1>> \in Positions2(left, right)
    BY <1>1, <1>4 DEF Positions2
  <2> QED
    BY <1>5, <2>1
<1>8. merged[at] = SortedList(Ahead(left, i) \cup Ahead(right, j), R)
  BY <1>5
<1>9. MergeIteration(left, right, R, merged, at) =
         IF i < Len(left) /\ (j = Len(right) \/ <<left[i + 1], right[j + 1]>> \in R)
         THEN <<left[i + 1]>> \o merged[<<i + 1, j>>]
         ELSE IF j < Len(right) THEN <<right[j + 1]>> \o merged[<<i, j + 1>>]
         ELSE << >>
  BY DEF MergeIteration
<1> SUFFICES merged[at] = MergeIteration(left, right, R, merged, at)
  OBVIOUS
<1> HIDE DEF i, j, merged
<1>10. CASE i < Len(left) /\ (j = Len(right) \/ <<left[i + 1], right[j + 1]>> \in R)
  <2> DEFINE x == left[i + 1]
             U == Ahead(left, i + 1) \cup Ahead(right, j)
  <2>1. x \in S /\ Ahead(left, i + 1) \subseteq S /\ x \notin U
    BY <1>3, <1>4, <1>10
  <2>2. Ahead(left, i) \cup Ahead(right, j) = U \cup {x}
    BY <1>3, <1>10
  <2>3. IsFiniteSet(U) /\ Orders(R, U \cup {x})
    <3>1. U \subseteq S \cup T /\ U \cup {x} \subseteq S \cup T
      BY <1>4, <2>1
    <3>2. IsFiniteSet(S \cup T)
      BY FS_Union
    <3> HIDE DEF U, x
    <3> QED
      BY <3>1, <3>2, FS_Subset, OrdersSubset
  <2>4. \A y \in Ahead(right, j) : <<x, y>> \in R
    <3>1. CASE j = Len(right)
      BY <1>4, <3>1
    <3>2. CASE j < Len(right)
      <4>1. <<x, right[j + 1]>> \in R
        BY <1>1, <1>10, <3>2
      <4>2. \A y \in Ahead(right, j) : y = right[j + 1] \/ <<right[j + 1], y>> \in R
        BY <1>4, <3>2
      <4>3. \A y \in Ahead(right, j) : y \in S \cup T /\ x \in S \cup T /\ right[j + 1] \in S \cup T
        BY <1>4, <2>1, <3>2
      <4> HIDE DEF x
      <4> QED
        BY <4>1, <4>2, <4>3 DEF Orders
    <3> QED
      BY <1>1, <3>1, <3>2
  <2>5. \A y \in U : <<x, y>> \in R
    BY <1>3, <1>10, <2>4
  <2>6. merged[at] = <<x>> \o SortedList(U, R)
    <3>1. x \notin U
      BY <2>1
    <3> HIDE DEF U, x
    <3>2. SortedList(U \cup {x}, R) = <<x>> \o SortedList(U, R)
      BY <2>3, <2>5, <3>1, ConsList
    <3> QED
      BY <1>8, <2>2, <3>2
  <2> QED
    BY <1>6, <1>9, <1>10, <2>6
<1>11. CASE /\ ~(i < Len(left) /\ (j = Len(right) \/ <<left[i + 1], right[j + 1]>> \in R))
            /\ j < Len(right)
  <2> DEFINE x == right[j + 1]
             U == Ahead(left, i) \cup Ahead(right, j + 1)
  <2>1. x \in T /\ Ahead(right, j + 1) \subseteq T /\ x \notin U
    BY <1>3, <1>4, <1>11
  <2>2. Ahead(left, i) \cup Ahead(right, j) = U \cup {x}
    BY <1>4, <1>11
  <2>3. IsFiniteSet(U) /\ Orders(R, U \cup {x})
    <3>1. U \subseteq S \cup T /\ U \cup {x} \subseteq S \cup T
      BY <1>3, <2>1
    <3>2. IsFiniteSet(S \cup T)
      BY FS_Union
    <3> HIDE DEF U, x
    <3> QED
      BY <3>1, <3>2, FS_Subset, OrdersSubset
  <2>4. \A y \in Ahead(left, i) : <<x, y>> \in R
    <3>1. CASE i = Len(left)
      BY <1>3, <3>1
    <3>2. CASE i < Len(left)
      <4>1. <<left[i + 1], x>> \notin R /\ left[i + 1] # x
        BY <1>3, <1>11, <2>1, <3>2
      <4>2. \A y \in Ahead(left, i) : y = left[i + 1] \/ <<left[i + 1], y>> \in R
        BY <1>3, <3>2
      <4>3. \A y \in Ahead(left, i) : y \in S \cup T /\ x \in S \cup T /\ left[i + 1] \in S \cup T
        BY <1>3, <2>1, <3>2
      <4> HIDE DEF x
      <4>4. Ahead(left, i) # {} => <<x, left[i + 1]>> \in R
        BY <4>1, <4>3 DEF Orders
      <4> QED
        BY <4>2, <4>3, <4>4 DEF Orders
    <3> QED
      BY <1>1, <3>1, <3>2
  <2>5. \A y \in U : <<x, y>> \in R
    BY <1>4, <1>11, <2>4
  <2>6. merged[at] = <<x>> \o SortedList(U, R)
    <3>1. x \notin U
      BY <2>1
    <3> HIDE DEF U, x
    <3>2. SortedList(U \cup {x}, R) = <<x>> \o SortedList(U, R)
      BY <2>3, <2>5, <3>1, ConsList
    <3> QED
      BY <1>8, <2>2, <3>2
  <2> QED
    BY <1>7, <1>9, <1>11, <2>6
<1>12. CASE /\ ~(i < Len(left) /\ (j = Len(right) \/ <<left[i + 1], right[j + 1]>> \in R))
            /\ ~(j < Len(right))
  <2>1. i = Len(left) /\ j = Len(right)
    BY <1>1, <1>12
  <2>2. Ahead(left, i) \cup Ahead(right, j) = {}
    BY <1>3, <1>4, <2>1
  <2>3. merged[at] = << >>
    BY <1>8, <2>2, EmptyList
  <2> QED
    BY <1>9, <1>12, <2>3
<1> QED
  BY <1>10, <1>11, <1>12

\* The function has the equation of the loop.
Merges(left, right, R, f) ==
    \A at \in Positions2(left, right) : f[at] = MergeIteration(left, right, R, f, at)

LEMMA OneMerging ==
    ASSUME NEW left, NEW right, NEW R, Len(left) \in Nat, Len(right) \in Nat,
           NEW f, Merges(left, right, R, f), NEW g, Merges(left, right, R, g),
           NEW at \in Positions2(left, right)
    PROVE  f[at] = g[at]
<1> DEFINE Left(p) == (Len(left) - p[1]) + (Len(right) - p[2])
           lefts == {n \in Nat : \E p \in Positions2(left, right) : Left(p) = n /\ f[p] # g[p]}
<1>1. \A p \in Positions2(left, right) : p[1] \in 0 .. Len(left) /\ p[2] \in 0 .. Len(right)
  BY DEF Positions2
<1>2. \A p \in Positions2(left, right) : Left(p) \in Nat
  BY <1>1
<1> SUFFICES ASSUME f[at] # g[at] PROVE FALSE
  OBVIOUS
<1>3. lefts \subseteq Nat /\ lefts # {}
  BY <1>2
<1>4. PICK n \in lefts : \A m \in lefts : ~(<<m, n>> \in OpToRel(<, Nat))
  BY <1>3, NatLessThanWellFounded, WFMin
<1>5. \A m \in lefts : ~(m < n)
  BY <1>3, <1>4 DEF OpToRel
<1>6. PICK p \in Positions2(left, right) : Left(p) = n /\ f[p] # g[p]
  BY <1>4
<1>7. \A q \in Positions2(left, right) : Left(q) < Left(p) => f[q] = g[q]
  BY <1>2, <1>5, <1>6
<1> DEFINE i == p[1]
           j == p[2]
<1>8. i \in 0 .. Len(left) /\ j \in 0 .. Len(right)
  BY <1>1
<1>9. ASSUME i < Len(left) PROVE f[<<i + 1, j>>] = g[<<i + 1, j>>]
  <2>1. i + 1 \in 0 .. Len(left)
    BY <1>8, <1>9
  <2>2. <<i + 1, j>> \in Positions2(left, right)
    BY <1>8, <2>1 DEF Positions2
  <2>3. Left(<<i + 1, j>>) = (Len(left) - (i + 1)) + (Len(right) - j)
        /\ Left(p) = (Len(left) - i) + (Len(right) - j)
    OBVIOUS
  <2> HIDE DEF Left, i, j
  <2>4. Left(<<i + 1, j>>) < Left(p)
    BY <1>8, <2>3
  <2> QED
    BY <1>7, <2>2, <2>4
<1>10. ASSUME j < Len(right) PROVE f[<<i, j + 1>>] = g[<<i, j + 1>>]
  <2>1. j + 1 \in 0 .. Len(right)
    BY <1>8, <1>10
  <2>2. <<i, j + 1>> \in Positions2(left, right)
    BY <1>8, <2>1 DEF Positions2
  <2>3. Left(<<i, j + 1>>) = (Len(left) - i) + (Len(right) - (j + 1))
        /\ Left(p) = (Len(left) - i) + (Len(right) - j)
    OBVIOUS
  <2> HIDE DEF Left, i, j
  <2>4. Left(<<i, j + 1>>) < Left(p)
    BY <1>8, <2>3
  <2> QED
    BY <1>7, <2>2, <2>4
<1>11. MergeIteration(left, right, R, f, p) = MergeIteration(left, right, R, g, p)
  BY <1>9, <1>10 DEF MergeIteration
<1> QED
  BY <1>6, <1>11 DEF Merges

\* operator| of OrderedStaticMap (OrderedStaticMap.hpp:98-129): two sorted maps without a
\* common entry become the sorted map of the entries of both.
THEOREM MergingSorts ==
    ASSUME NEW S, NEW T, NEW R, IsFiniteSet(S), IsFiniteSet(T), \A x \in S : x \notin T,
           Orders(R, S \cup T),
           NEW left, Lists(left, S, R), NEW right, Lists(right, T, R)
    PROVE  MergeMaps(left, right, R) = SortedList(S \cup T, R)
<1> DEFINE closed == Merged(left, right, R)
           merging == Merging(left, right, R)
           P == Positions2(left, right)
<1>1. closed = [at \in P |-> closed[at]]
  BY DEF Merged
<1>2. \A at \in P : closed[at] = MergeIteration(left, right, R, closed, at)
  <2> SUFFICES ASSUME NEW at \in Positions2(left, right)
               PROVE  Merged(left, right, R)[at]
                         = MergeIteration(left, right, R, Merged(left, right, R), at)
    OBVIOUS
  <2> QED
    BY MergedFollows, SMTT(30)
<1>3. closed = [at \in P |-> MergeIteration(left, right, R, closed, at)]
  BY <1>1, <1>2
<1>4. merging = [at \in P |-> MergeIteration(left, right, R, merging, at)]
  <2>1. \E merged : merged = [at \in P |-> MergeIteration(left, right, R, merged, at)]
    BY <1>3
  <2> QED
    BY <2>1, MergingUnfolds
<1>5. \A at \in P : merging[at] = MergeIteration(left, right, R, merging, at)
  BY <1>4
<1>6. Len(left) \in Nat /\ Len(right) \in Nat
  BY LenProperties DEF Lists
<1>7. <<0, 0>> \in P
  BY <1>6 DEF Positions2
<1>8. \A at \in Positions2(left, right) : merging[at] = closed[at]
  <2>1. Merges(left, right, R, merging) /\ Merges(left, right, R, closed)
    BY <1>2, <1>5 DEF Merges
  <2> HIDE DEF closed, merging
  <2> QED
    BY <1>6, <2>1, OneMerging
<1>9. closed[<<0, 0>>] = SortedList(Ahead(left, 0) \cup Ahead(right, 0), R)
  BY <1>7 DEF Merged
<1>10. Ahead(left, 0) = S /\ Ahead(right, 0) = T
  <2>1. Orders(R, S) /\ Orders(R, T)
    BY OrdersSubset
  <2>2. 0 \in 0 .. Len(left) /\ 0 \in 0 .. Len(right)
    BY <1>6
  <2>3. Ahead(left, 0) = S
    BY <2>1, <2>2, RestFacts
  <2>4. Ahead(right, 0) = T
    BY <2>1, <2>2, RestFacts
  <2> QED
    BY <2>3, <2>4
<1> QED
  BY <1>7, <1>8, <1>9, <1>10 DEF MergeMaps

-----------------------------------------------------------------------------
(* Merging many lists *)

\* The maps are the lists of sets that share out U.
Shares(maps, sets, U, R) ==
    /\ Len(maps) \in Nat /\ IsFiniteSet(U) /\ Orders(R, U)
    /\ \A k \in 1 .. Len(maps) : sets[k] \subseteq U /\ maps[k] = SortedList(sets[k], R)
    /\ \A j, k \in 1 .. Len(maps) : j # k => \A x \in sets[j] : x \notin sets[k]
    /\ \A x \in U : \E k \in 1 .. Len(maps) : x \in sets[k]

\* One call of mergeIntervalParallel, with what the calls for the halves return.
IntervalCall(maps, R, merged, range) ==
    LET mid == (range[1] + range[2]) \div 2
    IN  IF range[2] <= range[1] THEN << >>
        ELSE IF range[2] = range[1] + 1 THEN maps[range[2]]
        ELSE MergeMaps(merged[<<range[1], mid>>], merged[<<mid, range[2]>>], R)

LEMMA IntervalsUnfold ==
    ASSUME NEW maps, NEW R
    PROVE  Intervals(maps, R) =
              CHOOSE merged : merged = [range \in Ranges(maps) |-> IntervalCall(maps, R, merged, range)]
BY DEF Intervals, IntervalCall

Together(sets, range) == UNION {sets[k] : k \in range[1] + 1 .. range[2]}

AllMerged(maps, sets, R) ==
    [range \in Ranges(maps) |-> SortedList(Together(sets, range), R)]

LEMMA Halves ==
    ASSUME NEW n \in Nat, NEW begin \in 0 .. n, NEW end \in 0 .. n, begin < end, end # begin + 1,
           NEW mid, mid = (begin + end) \div 2
    PROVE  mid \in Nat /\ mid \in 0 .. n /\ begin < mid /\ mid < end
OBVIOUS

LEMMA AllMergedFollows ==
    ASSUME NEW maps, NEW sets, NEW U, NEW R, Shares(maps, sets, U, R), NEW range \in Ranges(maps)
    PROVE  AllMerged(maps, sets, R)[range] =
              IntervalCall(maps, R, AllMerged(maps, sets, R), range)
<1> DEFINE begin == range[1]
           end == range[2]
           n == Len(maps)
           mid == (begin + end) \div 2
           merged == AllMerged(maps, sets, R)
<1>1. n \in Nat /\ begin \in 0 .. n /\ end \in 0 .. n /\ range = <<begin, end>>
  BY DEF Ranges, Shares
<1>2. \A b, e \in 0 .. n : merged[<<b, e>>] = SortedList(Together(sets, <<b, e>>), R)
  <2> SUFFICES ASSUME NEW b \in 0 .. n, NEW e \in 0 .. n
               PROVE  merged[<<b, e>>] = SortedList(Together(sets, <<b, e>>), R)
    OBVIOUS
  <2>1. <<b, e>> \in Ranges(maps)
    BY DEF Ranges
  <2> QED
    BY <2>1 DEF AllMerged
<1>3. \A b, e \in 0 .. n : Together(sets, <<b, e>>) = UNION {sets[k] : k \in b + 1 .. e}
  BY DEF Together
<1>4. IntervalCall(maps, R, merged, range) =
         IF end <= begin THEN << >>
         ELSE IF end = begin + 1 THEN maps[end]
         ELSE MergeMaps(merged[<<begin, mid>>], merged[<<mid, end>>], R)
  BY DEF IntervalCall
<1>5. merged[range] = SortedList(Together(sets, <<begin, end>>), R)
  BY <1>1, <1>2
<1> SUFFICES merged[range] = IntervalCall(maps, R, merged, range)
  OBVIOUS
<1>6. begin < end /\ end # begin + 1 => mid \in Nat /\ mid \in 0 .. n /\ begin < mid /\ mid < end
  BY <1>1, Halves
<1> HIDE DEF begin, end, n, mid, merged
<1>7. CASE end <= begin
  <2>1. begin + 1 .. end = {}
    BY <1>1, <1>7
  <2>2. Together(sets, <<begin, end>>) = {}
    BY <1>1, <1>3, <2>1
  <2> QED
    BY <1>4, <1>5, <1>7, <2>2, EmptyList
<1>8. CASE end = begin + 1
  <2>1. begin + 1 .. end = {end} /\ end \in 1 .. n /\ ~(end <= begin)
    BY <1>1, <1>8
  <2>2. Together(sets, <<begin, end>>) = sets[end]
    <3>1. Together(sets, <<begin, end>>) = UNION {sets[k] : k \in begin + 1 .. end}
      BY <1>1, <1>3
    <3>2. {sets[k] : k \in begin + 1 .. end} = {sets[end]}
      BY <2>1
    <3> QED
      BY <3>1, <3>2
  <2>3. maps[end] = SortedList(sets[end], R)
    BY <2>1 DEF Shares, n
  <2> QED
    BY <1>4, <1>5, <1>8, <2>1, <2>2, <2>3
<1>9. CASE begin < end /\ end # begin + 1
  <2> DEFINE A == Together(sets, <<begin, mid>>)
             B == Together(sets, <<mid, end>>)
  <2>1. mid \in Nat /\ mid \in 0 .. n /\ begin < mid /\ mid < end
    BY <1>6, <1>9
  <2>2. /\ A = UNION {sets[k] : k \in begin + 1 .. mid}
        /\ B = UNION {sets[k] : k \in mid + 1 .. end}
    BY <1>1, <1>3, <2>1
  <2>3. \A k : k \in begin + 1 .. end <=> k \in begin + 1 .. mid \/ k \in mid + 1 .. end
    BY <1>1, <2>1
  <2>4. \A k \in begin + 1 .. end : k \in 1 .. n
    BY <1>1
  <2>5. Together(sets, <<begin, end>>) = A \cup B
    <3>1. Together(sets, <<begin, end>>) = UNION {sets[k] : k \in begin + 1 .. end}
      BY <1>1, <1>3
    <3> HIDE DEF A, B
    <3> QED
      BY <2>2, <2>3, <3>1
  <2>6. A \in SUBSET U /\ B \in SUBSET U /\ A \cup B \subseteq U
    <3>1. \A k \in begin + 1 .. end : sets[k] \subseteq U
      BY <2>4 DEF Shares, n
    <3> HIDE DEF A, B
    <3> QED
      BY <2>2, <2>3, <3>1
  <2>7. \A x \in A : x \notin B
    <3>1. \A j \in begin + 1 .. mid, k \in mid + 1 .. end : j # k
      BY <1>1, <2>1
    <3>2. \A j \in begin + 1 .. mid, k \in mid + 1 .. end : \A x \in sets[j] : x \notin sets[k]
      BY <2>3, <2>4, <3>1 DEF Shares, n
    <3> HIDE DEF A, B
    <3> QED
      BY <2>2, <3>2
  <2>8. merged[<<begin, mid>>] = SortedList(A, R) /\ merged[<<mid, end>>] = SortedList(B, R)
    BY <1>1, <1>2, <2>1
  <2> HIDE DEF A, B
  <2>9. IsFiniteSet(A) /\ IsFiniteSet(B) /\ Orders(R, A \cup B) /\ Orders(R, A) /\ Orders(R, B)
    BY <2>6, FS_Subset, OrdersSubset DEF Shares
  <2>10. Lists(SortedList(A, R), A, R) /\ Lists(SortedList(B, R), B, R)
    BY <2>9, SortedListLists
  <2>11. MergeMaps(SortedList(A, R), SortedList(B, R), R) = SortedList(A \cup B, R)
    BY <2>7, <2>9, <2>10, MergingSorts
  <2>12. ~(end <= begin)
    BY <1>1, <1>9
  <2> QED
    BY <1>4, <1>5, <1>9, <2>5, <2>8, <2>11, <2>12
<1> QED
  BY <1>1, <1>7, <1>8, <1>9

\* The function has the equation of mergeIntervalParallel.
MergesIntervals(maps, R, f) ==
    \A range \in Ranges(maps) : f[range] = IntervalCall(maps, R, f, range)

LEMMA OneIntervals ==
    ASSUME NEW maps, NEW R, Len(maps) \in Nat,
           NEW f, MergesIntervals(maps, R, f), NEW g, MergesIntervals(maps, R, g),
           NEW range \in Ranges(maps)
    PROVE  f[range] = g[range]
<1> DEFINE n == Len(maps)
           Width(r) == IF r[1] < r[2] THEN r[2] - r[1] ELSE 0
           widths == {w \in Nat : \E r \in Ranges(maps) : Width(r) = w /\ f[r] # g[r]}
<1>1. \A r \in Ranges(maps) : r[1] \in 0 .. n /\ r[2] \in 0 .. n
  BY DEF Ranges
<1>2. \A r \in Ranges(maps) : Width(r) \in Nat
  BY <1>1
<1> SUFFICES ASSUME f[range] # g[range] PROVE FALSE
  OBVIOUS
<1>3. widths \subseteq Nat /\ widths # {}
  BY <1>2
<1>4. PICK w \in widths : \A v \in widths : ~(<<v, w>> \in OpToRel(<, Nat))
  BY <1>3, NatLessThanWellFounded, WFMin
<1>5. \A v \in widths : ~(v < w)
  BY <1>3, <1>4 DEF OpToRel
<1>6. PICK r \in Ranges(maps) : Width(r) = w /\ f[r] # g[r]
  BY <1>4
<1>7. \A s \in Ranges(maps) : Width(s) < Width(r) => f[s] = g[s]
  BY <1>2, <1>5, <1>6
<1> DEFINE begin == r[1]
           end == r[2]
           mid == (begin + end) \div 2
<1>8. begin \in 0 .. n /\ end \in 0 .. n
  BY <1>1
<1>9. ASSUME begin < end, end # begin + 1
      PROVE  f[<<begin, mid>>] = g[<<begin, mid>>] /\ f[<<mid, end>>] = g[<<mid, end>>]
  <2>1. mid \in Nat /\ mid \in 0 .. n /\ begin < mid /\ mid < end
    BY <1>8, <1>9, Halves
  <2>2. <<begin, mid>> \in Ranges(maps) /\ <<mid, end>> \in Ranges(maps)
    BY <1>8, <2>1 DEF Ranges
  <2>3. /\ Width(<<begin, mid>>) = IF begin < mid THEN mid - begin ELSE 0
        /\ Width(<<mid, end>>) = IF mid < end THEN end - mid ELSE 0
        /\ Width(r) = IF begin < end THEN end - begin ELSE 0
    OBVIOUS
  <2> HIDE DEF Width, begin, end, mid, n
  <2>4. Width(<<begin, mid>>) < Width(r) /\ Width(<<mid, end>>) < Width(r)
    BY <1>8, <1>9, <2>1, <2>3
  <2> QED
    BY <1>7, <2>2, <2>4
<1>10. \/ end <= begin
       \/ begin < end /\ end = begin + 1
       \/ begin < end /\ end # begin + 1
  BY <1>8
<1>11. IntervalCall(maps, R, f, r) = IntervalCall(maps, R, g, r)
  BY <1>9, <1>10 DEF IntervalCall
<1> QED
  BY <1>6, <1>11 DEF MergesIntervals

\* mergeAllParallel (OrderedStaticMap.hpp:155-179): however many maps there are, and however
\* the halves fall, the result is the sorted map of the entries of all.
THEOREM MergeAllSorts ==
    ASSUME NEW maps, NEW sets, NEW U, NEW R, Shares(maps, sets, U, R)
    PROVE  MergeAll(maps, R) = SortedList(U, R)
<1> DEFINE closed == AllMerged(maps, sets, R)
           merged == Intervals(maps, R)
           all == <<0, Len(maps)>>
<1>1. \A range \in Ranges(maps) : closed[range] = IntervalCall(maps, R, closed, range)
  BY AllMergedFollows
<1>2. closed = [range \in Ranges(maps) |-> IntervalCall(maps, R, closed, range)]
  <2>1. closed = [range \in Ranges(maps) |-> closed[range]]
    BY DEF AllMerged
  <2> QED
    BY <1>1, <2>1
<1>3. merged = [range \in Ranges(maps) |-> IntervalCall(maps, R, merged, range)]
  <2>1. \E f : f = [range \in Ranges(maps) |-> IntervalCall(maps, R, f, range)]
    BY <1>2
  <2> QED
    BY <2>1, IntervalsUnfold
<1>4. MergesIntervals(maps, R, merged) /\ MergesIntervals(maps, R, closed)
  BY <1>1, <1>3 DEF MergesIntervals
<1>5. Len(maps) \in Nat /\ all \in Ranges(maps)
  BY DEF Ranges, Shares
<1>6. closed[all] = SortedList(Together(sets, all), R)
  BY <1>5 DEF AllMerged
<1>7. Together(sets, all) = UNION {sets[k] : k \in 1 .. Len(maps)}
  BY <1>5 DEF Together
<1>8. UNION {sets[k] : k \in 1 .. Len(maps)} = U
  BY DEF Shares
<1> HIDE DEF closed, merged, all
<1>9. merged[all] = closed[all]
  BY <1>4, <1>5, OneIntervals
<1> QED
  BY <1>6, <1>7, <1>8, <1>9 DEF MergeAll, merged, all

-----------------------------------------------------------------------------
(* mergeInsert *)

\* The list has x somewhere.
Has(s, x) == \E n \in 1 .. Len(s) : s[n] = x
NoRepeats(s) == \A a, b \in 1 .. Len(s) : s[a] = s[b] => a = b

LEMMA ConcatHas ==
    ASSUME NEW l \in Seq(Int), NEW r \in Seq(Int)
    PROVE  /\ l \o r \in Seq(Int)
           /\ \A x : Has(l \o r, x) <=> Has(l, x) \/ Has(r, x)
           /\ NoRepeats(l) /\ NoRepeats(r) /\ (\A x : ~(Has(l, x) /\ Has(r, x))) => NoRepeats(l \o r)
<1> DEFINE s == l \o r
<1>1. /\ Len(l) \in Nat /\ Len(r) \in Nat
      /\ s \in Seq(Int) /\ Len(s) = Len(l) + Len(r)
      /\ \A n \in 1 .. Len(l) + Len(r) : s[n] = IF n <= Len(l) THEN l[n] ELSE r[n - Len(l)]
  BY LenProperties, ConcatProperties
<1> HIDE DEF s
<1>2. \A n \in 1 .. Len(s) : \/ n \in 1 .. Len(l) /\ s[n] = l[n]
                             \/ n > Len(l) /\ n - Len(l) \in 1 .. Len(r) /\ s[n] = r[n - Len(l)]
  <2> SUFFICES ASSUME NEW n \in 1 .. Len(s)
               PROVE  \/ n \in 1 .. Len(l) /\ s[n] = l[n]
                      \/ n > Len(l) /\ n - Len(l) \in 1 .. Len(r) /\ s[n] = r[n - Len(l)]
    OBVIOUS
  <2>1. n \in 1 .. Len(l) + Len(r)
    BY <1>1
  <2>2. s[n] = IF n <= Len(l) THEN l[n] ELSE r[n - Len(l)]
    BY <1>1, <2>1
  <2>3. CASE n <= Len(l)
    BY <1>1, <2>1, <2>2, <2>3
  <2>4. CASE n > Len(l)
    <3>1. n - Len(l) \in 1 .. Len(r) /\ ~(n <= Len(l))
      BY <1>1, <2>1, <2>4
    <3> QED
      BY <2>2, <2>4, <3>1
  <2> QED
    BY <1>1, <2>3, <2>4
<1>3. \A n \in 1 .. Len(l) : n \in 1 .. Len(s) /\ s[n] = l[n]
  BY <1>1
<1>4. \A n \in 1 .. Len(r) : n + Len(l) \in 1 .. Len(s) /\ s[n + Len(l)] = r[n]
  <2> SUFFICES ASSUME NEW n \in 1 .. Len(r) PROVE n + Len(l) \in 1 .. Len(s) /\ s[n + Len(l)] = r[n]
    OBVIOUS
  <2>1. /\ n + Len(l) \in 1 .. Len(l) + Len(r) /\ ~(n + Len(l) <= Len(l))
        /\ (n + Len(l)) - Len(l) = n
    BY <1>1
  <2>2. s[n + Len(l)] = IF n + Len(l) <= Len(l) THEN l[n + Len(l)] ELSE r[(n + Len(l)) - Len(l)]
    BY <1>1, <2>1
  <2> QED
    BY <1>1, <2>1, <2>2
<1>5. \A x : Has(s, x) <=> Has(l, x) \/ Has(r, x)
  <2> SUFFICES ASSUME NEW x PROVE Has(s, x) <=> Has(l, x) \/ Has(r, x)
    OBVIOUS
  <2>1. Has(s, x) => Has(l, x) \/ Has(r, x)
    BY <1>2 DEF Has
  <2>2. Has(l, x) => Has(s, x)
    BY <1>3 DEF Has
  <2>3. Has(r, x) => Has(s, x)
    BY <1>4 DEF Has
  <2> QED
    BY <2>1, <2>2, <2>3
<1>6. ASSUME NoRepeats(l), NoRepeats(r), \A x : ~(Has(l, x) /\ Has(r, x)) PROVE NoRepeats(s)
  <2> SUFFICES ASSUME NEW p \in 1 .. Len(s), NEW q \in 1 .. Len(s), p # q PROVE s[p] # s[q]
    BY DEF NoRepeats
  <2>1. CASE p \in 1 .. Len(l) /\ s[p] = l[p] /\ q \in 1 .. Len(l) /\ s[q] = l[q]
    BY <1>6, <2>1 DEF NoRepeats
  <2>2. CASE /\ p > Len(l) /\ p - Len(l) \in 1 .. Len(r) /\ s[p] = r[p - Len(l)]
             /\ q > Len(l) /\ q - Len(l) \in 1 .. Len(r) /\ s[q] = r[q - Len(l)]
    <3>1. p - Len(l) # q - Len(l)
      BY <1>1
    <3> QED
      BY <1>6, <2>2, <3>1 DEF NoRepeats
  <2>3. \A a \in 1 .. Len(l), b \in 1 .. Len(r) : l[a] # r[b]
    BY <1>6 DEF Has
  <2>4. \/ p \in 1 .. Len(l) /\ s[p] = l[p]
        \/ p > Len(l) /\ p - Len(l) \in 1 .. Len(r) /\ s[p] = r[p - Len(l)]
    BY <1>2
  <2>5. \/ q \in 1 .. Len(l) /\ s[q] = l[q]
        \/ q > Len(l) /\ q - Len(l) \in 1 .. Len(r) /\ s[q] = r[q - Len(l)]
    BY <1>2
  <2> QED
    BY <2>1, <2>2, <2>3, <2>4, <2>5
<1> QED
  BY <1>1, <1>5, <1>6 DEF s

\* Where the loops can be: the vector, and how many elements of it and of r are left.
Insertions(r, size) == [1 .. size -> Int] \X (0 .. size - Len(r)) \X (0 .. Len(r))

MovesElement(r, at) == at[2] > 0 /\ at[1][at[2]] > r[at[3]]

AfterMove(at) == <<[at[1] EXCEPT ![at[2] + at[3]] = at[1][at[2]]], at[2] - 1, at[3]>>
AfterCopy(r, at) == <<[at[1] EXCEPT ![at[2] + at[3]] = r[at[3]]], at[2], at[3] - 1>>

\* One iteration of either loop, with the results of the next ones.
InsertionStep(r, inserted, at) ==
    LET v == at[1]
        j == at[2]
        i == at[3]
    IN  IF i = 0 THEN v
        ELSE IF j > 0 /\ v[j] > r[i] THEN inserted[<<[v EXCEPT ![j + i] = v[j]], j - 1, i>>]
        ELSE inserted[<<[v EXCEPT ![j + i] = r[i]], j, i - 1>>]

LEMMA InsertingUnfolds ==
    ASSUME NEW r, NEW size
    PROVE  Inserting(r, size) =
              CHOOSE inserted : inserted = [at \in Insertions(r, size) |-> InsertionStep(r, inserted, at)]
BY DEF Inserting, InsertionStep, Insertions

LEMMA InsertionFacts ==
    ASSUME NEW r \in Seq(Int), NEW size \in Nat, Len(r) <= size,
           NEW at \in Insertions(r, size)
    PROVE  /\ at = <<at[1], at[2], at[3]>>
           /\ at[1] \in [1 .. size -> Int] /\ at[2] \in 0 .. size - Len(r) /\ at[3] \in 0 .. Len(r)
           /\ at[2] \in Nat /\ at[3] \in Nat /\ at[2] + at[3] <= size
           /\ at[3] # 0 => /\ at[3] \in 1 .. Len(r) /\ r[at[3]] \in Int
                           /\ at[2] + at[3] \in 1 .. size
                           /\ AfterCopy(r, at) \in Insertions(r, size)
           /\ at[2] > 0 => at[2] \in 1 .. size /\ at[1][at[2]] \in Int
           /\ at[3] # 0 /\ at[2] > 0 => AfterMove(at) \in Insertions(r, size)
<1> DEFINE v == at[1]
           j == at[2]
           i == at[3]
<1>1. /\ at = <<v, j, i>>
      /\ v \in [1 .. size -> Int] /\ j \in 0 .. size - Len(r) /\ i \in 0 .. Len(r)
  BY DEF Insertions
<1>2. Len(r) \in Nat /\ \A k \in 1 .. Len(r) : r[k] \in Int
  BY LenProperties, ElementOfSeq
<1> HIDE DEF v, j, i
<1>3. j \in Nat /\ i \in Nat /\ j + i <= size
  BY <1>1, <1>2
<1>4. i # 0 => i \in 1 .. Len(r) /\ j + i \in 1 .. size /\ i - 1 \in 0 .. Len(r)
  BY <1>1, <1>2, <1>3
<1>5. j > 0 => j \in 1 .. size /\ j - 1 \in 0 .. size - Len(r)
  BY <1>1, <1>2, <1>3
<1>6. j > 0 => v[j] \in Int
  BY <1>1, <1>5
<1>7. i # 0 => r[i] \in Int
  BY <1>2, <1>4
<1>8. \A x \in Int : [v EXCEPT ![j + i] = x] \in [1 .. size -> Int]
  BY <1>1
<1>9. i # 0 => <<[v EXCEPT ![j + i] = r[i]], j, i - 1>> \in Insertions(r, size)
  BY <1>1, <1>4, <1>7, <1>8 DEF Insertions
<1>10. i # 0 /\ j > 0 => <<[v EXCEPT ![j + i] = v[j]], j - 1, i>> \in Insertions(r, size)
  BY <1>1, <1>5, <1>6, <1>8 DEF Insertions
<1> QED
  BY <1>1, <1>3, <1>4, <1>5, <1>6, <1>7, <1>9, <1>10 DEF v, j, i, AfterMove, AfterCopy

LEMMA StepIs ==
    ASSUME NEW r, NEW f, NEW at
    PROVE  InsertionStep(r, f, at) = IF at[3] = 0 THEN at[1]
                                     ELSE IF MovesElement(r, at) THEN f[AfterMove(at)]
                                     ELSE f[AfterCopy(r, at)]
BY DEF InsertionStep, MovesElement, AfterMove, AfterCopy

\* What is left after an iteration is one element less.
InsertionsTo(r, size, k) == {at \in Insertions(r, size) : at[2] + at[3] <= k}

LEMMA OneLess ==
    ASSUME NEW r \in Seq(Int), NEW size \in Nat, Len(r) <= size, NEW k \in Nat,
           NEW at \in InsertionsTo(r, size, k), at[3] # 0
    PROVE  /\ k # 0
           /\ MovesElement(r, at) => AfterMove(at) \in InsertionsTo(r, size, k - 1)
           /\ ~MovesElement(r, at) => AfterCopy(r, at) \in InsertionsTo(r, size, k - 1)
<1> DEFINE j == at[2]
           i == at[3]
<1>1. at \in Insertions(r, size) /\ j + i <= k
  BY DEF InsertionsTo
<1>2. j \in Nat /\ i \in Nat /\ i # 0
  BY <1>1, InsertionFacts
<1>3. MovesElement(r, at) => AfterMove(at) \in Insertions(r, size)
  BY <1>1, InsertionFacts DEF MovesElement
<1>4. AfterCopy(r, at) \in Insertions(r, size)
  BY <1>1, InsertionFacts
<1>5. /\ AfterMove(at)[2] = j - 1 /\ AfterMove(at)[3] = i
      /\ AfterCopy(r, at)[2] = j /\ AfterCopy(r, at)[3] = i - 1
  BY DEF AfterMove, AfterCopy
<1> HIDE DEF j, i
<1>6. k # 0 /\ (j - 1) + i <= k - 1 /\ j + (i - 1) <= k - 1
  BY <1>1, <1>2
<1> QED
  BY <1>3, <1>4, <1>5, <1>6 DEF InsertionsTo

\* There is a function with the equation of the loops, for any number of iterations.
Inserts(r, size, k, f) == f = [at \in InsertionsTo(r, size, k) |-> InsertionStep(r, f, at)]

LEMMA InsertsExists ==
    ASSUME NEW r \in Seq(Int), NEW size \in Nat, Len(r) <= size, NEW k \in Nat
    PROVE  \E f : Inserts(r, size, k, f)
<1> DEFINE none == {n \in Nat : ~\E f : Inserts(r, size, n, f)}
<1> SUFFICES ASSUME k \in none PROVE FALSE
  OBVIOUS
<1>1. PICK n \in none : \A m \in none : ~(<<m, n>> \in OpToRel(<, Nat))
  <2>1. none \subseteq Nat /\ none # {}
    OBVIOUS
  <2> HIDE DEF none
  <2> QED
    BY <2>1, NatLessThanWellFounded, WFMin
<1>2. n \in Nat /\ ~\E f : Inserts(r, size, n, f)
  BY <1>1
<1>3. \A m \in Nat : m < n => \E f : Inserts(r, size, m, f)
  BY <1>1 DEF OpToRel
<1> HIDE DEF none
<1>4. CASE n = 0
  <2> DEFINE f == [at \in InsertionsTo(r, size, n) |-> at[1]]
  <2>1. \A at \in InsertionsTo(r, size, n) : at[3] = 0
    BY <1>2, <1>4, OneLess
  <2>2. \A at \in InsertionsTo(r, size, n) : InsertionStep(r, f, at) = at[1]
    BY <2>1, StepIs
  <2>3. Inserts(r, size, n, f)
    BY <2>2 DEF Inserts
  <2> QED
    BY <1>2, <2>3
<1>5. CASE n # 0
  <2>1. n - 1 \in Nat /\ n - 1 < n
    BY <1>2, <1>5
  <2>2. PICK f : Inserts(r, size, n - 1, f)
    BY <1>3, <2>1
  <2> DEFINE g == [at \in InsertionsTo(r, size, n) |-> InsertionStep(r, f, at)]
  <2>3. \A at \in InsertionsTo(r, size, n - 1) : at \in InsertionsTo(r, size, n)
    <3> SUFFICES ASSUME NEW at \in InsertionsTo(r, size, n - 1)
                 PROVE  at \in InsertionsTo(r, size, n)
      OBVIOUS
    <3>1. at \in Insertions(r, size) /\ at[2] + at[3] <= n - 1
      BY DEF InsertionsTo
    <3>2. at[2] \in Nat /\ at[3] \in Nat
      BY <3>1, InsertionFacts
    <3>3. at[2] + at[3] <= n
      BY <1>2, <3>1, <3>2
    <3> QED
      BY <3>1, <3>3 DEF InsertionsTo
  <2>4. \A at \in InsertionsTo(r, size, n - 1) : f[at] = InsertionStep(r, f, at)
    BY <2>2 DEF Inserts
  <2>5. \A at \in InsertionsTo(r, size, n - 1) : g[at] = f[at]
    BY <2>3, <2>4
  <2> HIDE DEF g
  <2>6. \A at \in InsertionsTo(r, size, n) : InsertionStep(r, f, at) = InsertionStep(r, g, at)
    <3> SUFFICES ASSUME NEW at \in InsertionsTo(r, size, n)
                 PROVE  InsertionStep(r, f, at) = InsertionStep(r, g, at)
      OBVIOUS
    <3>1. CASE at[3] = 0
      BY <3>1, StepIs
    <3>2. CASE at[3] # 0
      <4>1. /\ MovesElement(r, at) => AfterMove(at) \in InsertionsTo(r, size, n - 1)
            /\ ~MovesElement(r, at) => AfterCopy(r, at) \in InsertionsTo(r, size, n - 1)
        BY <1>2, <3>2, OneLess
      <4>2. /\ MovesElement(r, at) => f[AfterMove(at)] = g[AfterMove(at)]
            /\ ~MovesElement(r, at) => f[AfterCopy(r, at)] = g[AfterCopy(r, at)]
        BY <2>5, <4>1
      <4> QED
        BY <4>2, StepIs
    <3> QED
      BY <3>1, <3>2
  <2>7. g = [at \in InsertionsTo(r, size, n) |-> InsertionStep(r, g, at)]
    BY <2>6 DEF g
  <2> QED
    BY <1>2, <2>7 DEF Inserts
<1> QED
  BY <1>4, <1>5

LEMMA InsertingIs ==
    ASSUME NEW r \in Seq(Int), NEW size \in Nat, Len(r) <= size,
           NEW at \in Insertions(r, size)
    PROVE  Inserting(r, size)[at] = IF at[3] = 0 THEN at[1]
                                    ELSE IF MovesElement(r, at) THEN Inserting(r, size)[AfterMove(at)]
                                    ELSE Inserting(r, size)[AfterCopy(r, at)]
<1> DEFINE f == Inserting(r, size)
<1>1. \A p \in Insertions(r, size) : p[2] + p[3] <= size
  BY InsertionFacts
<1>2. InsertionsTo(r, size, size) = Insertions(r, size)
  BY <1>1 DEF InsertionsTo
<1>3. \E g : g = [p \in Insertions(r, size) |-> InsertionStep(r, g, p)]
  BY <1>2, InsertsExists DEF Inserts
<1>4. f = [p \in Insertions(r, size) |-> InsertionStep(r, f, p)]
  BY <1>3, InsertingUnfolds
<1>5. f[at] = InsertionStep(r, f, at)
  BY <1>4
<1> QED
  BY <1>5, StepIs

-----------------------------------------------------------------------------
(* What the loops of mergeInsert do *)

\* The first j elements of a vector: one of them is x, they are sorted, and no two are equal.
HasTo(v, j, x) == \E k \in 1 .. j : v[k] = x
SortedTo(v, j) == \A a, b \in 1 .. j : a < b => v[a] <= v[b]
DistinctTo(v, j) == \A a, b \in 1 .. j : v[a] = v[b] => a = b

LEMMA OneMore ==
    ASSUME NEW w, NEW n \in Nat
    PROVE  /\ \A x : HasTo(w, n + 1, x) <=> HasTo(w, n, x) \/ w[n + 1] = x
           /\ DistinctTo(w, n) /\ ~HasTo(w, n, w[n + 1]) => DistinctTo(w, n + 1)
           /\ SortedTo(w, n) /\ (\A x : HasTo(w, n, x) => x <= w[n + 1]) => SortedTo(w, n + 1)
<1>1. \A k : k \in 1 .. n + 1 <=> k \in 1 .. n \/ k = n + 1
  OBVIOUS
<1>2. \A x : HasTo(w, n + 1, x) <=> HasTo(w, n, x) \/ w[n + 1] = x
  BY <1>1 DEF HasTo
<1>3. DistinctTo(w, n) /\ ~HasTo(w, n, w[n + 1]) => DistinctTo(w, n + 1)
  BY <1>1 DEF HasTo, DistinctTo
<1>4. \A a \in 1 .. n : HasTo(w, n, w[a])
  BY DEF HasTo
<1>5. \A a, b \in 1 .. n + 1 : a < b => a \in 1 .. n /\ (b \in 1 .. n \/ b = n + 1)
  OBVIOUS
<1>6. SortedTo(w, n) /\ (\A x : HasTo(w, n, x) => x <= w[n + 1]) => SortedTo(w, n + 1)
  BY <1>4, <1>5 DEF SortedTo
<1> QED
  BY <1>2, <1>3, <1>6

\* The vector w is what the loops make of v, when j elements of it and i of r are left.
Inserted(r, size, v, j, i, w) ==
    /\ w \in [1 .. size -> Int]
    /\ \A k \in j + i + 1 .. size : w[k] = v[k]
    /\ \A x : HasTo(w, j + i, x) <=> HasTo(v, j, x) \/ HasTo(r, i, x)
    /\ SortedTo(v, j) /\ SortedTo(r, i) => SortedTo(w, j + i)
    /\ DistinctTo(v, j) /\ DistinctTo(r, i) /\ (\A x : ~(HasTo(v, j, x) /\ HasTo(r, i, x)))
          => DistinctTo(w, j + i)

\* Nothing that is left is overwritten: the free place is behind it.
LEMMA MoveInserts ==
    ASSUME NEW r \in Seq(Int), NEW size \in Nat, NEW v \in [1 .. size -> Int],
           NEW j \in 1 .. size, NEW i \in 1 .. Len(r), j + i <= size, v[j] > r[i],
           NEW w, Inserted(r, size, [v EXCEPT ![j + i] = v[j]], j - 1, i, w)
    PROVE  Inserted(r, size, v, j, i, w)
<1> DEFINE u == [v EXCEPT ![j + i] = v[j]]
           n == (j - 1) + i
<1>1. /\ j \in Nat /\ i \in Nat /\ i >= 1 /\ j >= 1 /\ Len(r) \in Nat
      /\ n \in Nat /\ n + 1 = j + i /\ j + i \in 1 .. size
      /\ \A k \in 1 .. Len(r) : r[k] \in Int
  BY LenProperties, ElementOfSeq
<1>2. \A k \in 1 .. size : k # j + i => u[k] = v[k]
  OBVIOUS
<1>3. u[j + i] = v[j] /\ v[j] \in Int
  BY <1>1
<1>4. \A k \in 1 .. j - 1 : k \in 1 .. size /\ k # j + i /\ k \in 1 .. j
  BY <1>1
<1>5. \A k \in 1 .. j - 1 : u[k] = v[k]
  BY <1>2, <1>4
<1>6. /\ w \in [1 .. size -> Int]
      /\ \A k \in n + 1 .. size : w[k] = u[k]
      /\ \A x : HasTo(w, n, x) <=> HasTo(u, j - 1, x) \/ HasTo(r, i, x)
      /\ SortedTo(u, j - 1) /\ SortedTo(r, i) => SortedTo(w, n)
      /\ DistinctTo(u, j - 1) /\ DistinctTo(r, i) /\ (\A x : ~(HasTo(u, j - 1, x) /\ HasTo(r, i, x)))
            => DistinctTo(w, n)
  BY DEF Inserted
<1> HIDE DEF u, n
<1>7. \A x : HasTo(u, j - 1, x) <=> HasTo(v, j - 1, x)
  BY <1>5 DEF HasTo
<1>8. SortedTo(v, j) => SortedTo(u, j - 1)
  BY <1>4, <1>5 DEF SortedTo
<1>9. DistinctTo(v, j) => DistinctTo(u, j - 1)
  BY <1>4, <1>5 DEF DistinctTo
<1>10. \A x : HasTo(v, j, x) <=> HasTo(v, j - 1, x) \/ v[j] = x
  <2>1. j - 1 \in Nat /\ (j - 1) + 1 = j
    BY <1>1
  <2> QED
    BY <2>1, OneMore
<1>11. w[n + 1] = v[j]
  <2>1. n + 1 \in n + 1 .. size
    BY <1>1
  <2> QED
    BY <1>1, <1>3, <1>6, <2>1
<1>12. \A k \in j + i + 1 .. size : w[k] = v[k]
  <2> SUFFICES ASSUME NEW k \in j + i + 1 .. size PROVE w[k] = v[k]
    OBVIOUS
  <2>1. k \in n + 1 .. size /\ k \in 1 .. size /\ k # j + i
    BY <1>1
  <2> QED
    BY <1>2, <1>6, <2>1
<1>13. \A x : HasTo(w, j + i, x) <=> HasTo(v, j, x) \/ HasTo(r, i, x)
  BY <1>1, <1>6, <1>7, <1>10, <1>11, OneMore
<1>14. ASSUME SortedTo(v, j), SortedTo(r, i) PROVE SortedTo(w, j + i)
  <2>1. \A x : HasTo(v, j - 1, x) => x <= v[j]
    BY <1>1, <1>4, <1>14 DEF HasTo, SortedTo
  <2>2. ASSUME NEW x, HasTo(r, i, x) PROVE x <= v[j]
    <3>1. PICK b \in 1 .. i : r[b] = x
      BY <2>2 DEF HasTo
    <3>2. b = i \/ b < i
      BY <1>1
    <3>3. r[b] <= r[i]
      <4>1. b \in 1 .. Len(r) /\ i \in 1 .. i
        BY <1>1
      <4> QED
        BY <1>1, <1>14, <3>2, <4>1 DEF SortedTo
    <3>4. r[b] \in Int /\ r[i] \in Int
      BY <1>1
    <3> QED
      BY <1>3, <3>1, <3>3, <3>4
  <2>3. SortedTo(w, n)
    BY <1>6, <1>8, <1>14
  <2> QED
    BY <1>1, <1>6, <1>7, <1>11, <2>1, <2>2, <2>3, OneMore
<1>15. ASSUME DistinctTo(v, j), DistinctTo(r, i), \A x : ~(HasTo(v, j, x) /\ HasTo(r, i, x))
       PROVE  DistinctTo(w, j + i)
  <2>1. ~HasTo(v, j - 1, v[j])
    BY <1>1, <1>4, <1>15 DEF HasTo, DistinctTo
  <2>2. ~HasTo(r, i, v[j])
    BY <1>10, <1>15
  <2>3. DistinctTo(w, n)
    BY <1>6, <1>7, <1>9, <1>10, <1>15
  <2> QED
    BY <1>1, <1>6, <1>7, <1>11, <2>1, <2>2, <2>3, OneMore
<1> QED
  BY <1>6, <1>12, <1>13, <1>14, <1>15 DEF Inserted

LEMMA CopyInserts ==
    ASSUME NEW r \in Seq(Int), NEW size \in Nat, NEW v \in [1 .. size -> Int],
           NEW j \in 0 .. size, NEW i \in 1 .. Len(r), j + i <= size, j = 0 \/ v[j] <= r[i],
           NEW w, Inserted(r, size, [v EXCEPT ![j + i] = r[i]], j, i - 1, w)
    PROVE  Inserted(r, size, v, j, i, w)
<1> DEFINE u == [v EXCEPT ![j + i] = r[i]]
           n == j + (i - 1)
<1>1. /\ j \in Nat /\ i \in Nat /\ i >= 1 /\ Len(r) \in Nat
      /\ n \in Nat /\ n + 1 = j + i /\ j + i \in 1 .. size
      /\ \A k \in 1 .. Len(r) : r[k] \in Int
  BY LenProperties, ElementOfSeq
<1>2. \A k \in 1 .. size : k # j + i => u[k] = v[k]
  OBVIOUS
<1>3. u[j + i] = r[i] /\ r[i] \in Int
  BY <1>1
<1>4. \A k \in 1 .. j : k \in 1 .. size /\ k # j + i
  BY <1>1
<1>5. \A k \in 1 .. j : u[k] = v[k] /\ v[k] \in Int
  BY <1>2, <1>4
<1>6. /\ w \in [1 .. size -> Int]
      /\ \A k \in n + 1 .. size : w[k] = u[k]
      /\ \A x : HasTo(w, n, x) <=> HasTo(u, j, x) \/ HasTo(r, i - 1, x)
      /\ SortedTo(u, j) /\ SortedTo(r, i - 1) => SortedTo(w, n)
      /\ DistinctTo(u, j) /\ DistinctTo(r, i - 1) /\ (\A x : ~(HasTo(u, j, x) /\ HasTo(r, i - 1, x)))
            => DistinctTo(w, n)
  BY DEF Inserted
<1> HIDE DEF u, n
<1>7. \A x : HasTo(u, j, x) <=> HasTo(v, j, x)
  BY <1>5 DEF HasTo
<1>8. /\ SortedTo(v, j) => SortedTo(u, j)
      /\ DistinctTo(v, j) => DistinctTo(u, j)
  BY <1>5 DEF SortedTo, DistinctTo
<1>9. \A k \in 1 .. i - 1 : k \in 1 .. i /\ k < i
  BY <1>1
<1>10. /\ SortedTo(r, i) => SortedTo(r, i - 1)
       /\ DistinctTo(r, i) => DistinctTo(r, i - 1)
  BY <1>9 DEF SortedTo, DistinctTo
<1>11. \A x : HasTo(r, i, x) <=> HasTo(r, i - 1, x) \/ r[i] = x
  <2>1. i - 1 \in Nat /\ (i - 1) + 1 = i
    BY <1>1
  <2> QED
    BY <2>1, OneMore
<1>12. w[n + 1] = r[i]
  <2>1. n + 1 \in n + 1 .. size
    BY <1>1
  <2> QED
    BY <1>1, <1>3, <1>6, <2>1
<1>13. \A k \in j + i + 1 .. size : w[k] = v[k]
  <2> SUFFICES ASSUME NEW k \in j + i + 1 .. size PROVE w[k] = v[k]
    OBVIOUS
  <2>1. k \in n + 1 .. size /\ k \in 1 .. size /\ k # j + i
    BY <1>1
  <2> QED
    BY <1>2, <1>6, <2>1
<1>14. \A x : HasTo(w, j + i, x) <=> HasTo(v, j, x) \/ HasTo(r, i, x)
  BY <1>1, <1>6, <1>7, <1>11, <1>12, OneMore
<1>15. ASSUME SortedTo(v, j), SortedTo(r, i) PROVE SortedTo(w, j + i)
  <2>1. ASSUME NEW x, HasTo(v, j, x) PROVE x <= r[i]
    <3>1. PICK a \in 1 .. j : v[a] = x
      BY <2>1 DEF HasTo
    <3>2. (a = j \/ a < j) /\ j # 0 /\ j \in 1 .. j
      BY <1>1
    <3>3. v[a] <= v[j]
      BY <1>5, <1>15, <3>2 DEF SortedTo
    <3>4. v[a] \in Int /\ v[j] \in Int /\ v[j] <= r[i]
      BY <1>5, <3>2
    <3> QED
      BY <1>3, <3>1, <3>3, <3>4
  <2>2. \A x : HasTo(r, i - 1, x) => x <= r[i]
    <3>1. \A k \in 1 .. i - 1 : k \in 1 .. i /\ i \in 1 .. i /\ k < i
      BY <1>1
    <3>2. \A k \in 1 .. i - 1 : r[k] <= r[i]
      BY <1>15, <3>1 DEF SortedTo
    <3> QED
      BY <3>2 DEF HasTo
  <2>3. SortedTo(w, n)
    BY <1>6, <1>8, <1>10, <1>15
  <2> QED
    BY <1>1, <1>6, <1>7, <1>12, <2>1, <2>2, <2>3, OneMore
<1>16. ASSUME DistinctTo(v, j), DistinctTo(r, i), \A x : ~(HasTo(v, j, x) /\ HasTo(r, i, x))
       PROVE  DistinctTo(w, j + i)
  <2>1. ~HasTo(r, i - 1, r[i])
    BY <1>1, <1>9, <1>16 DEF HasTo, DistinctTo
  <2>2. ~HasTo(v, j, r[i])
    BY <1>11, <1>16
  <2>3. DistinctTo(w, n)
    BY <1>6, <1>7, <1>8, <1>10, <1>11, <1>16
  <2> QED
    BY <1>1, <1>6, <1>7, <1>12, <2>1, <2>2, <2>3, OneMore
<1> QED
  BY <1>6, <1>13, <1>14, <1>15, <1>16 DEF Inserted

LEMMA LoopsInsert ==
    ASSUME NEW r \in Seq(Int), NEW size \in Nat, Len(r) <= size,
           NEW at \in Insertions(r, size)
    PROVE  Inserted(r, size, at[1], at[2], at[3], Inserting(r, size)[at])
<1> DEFINE result == Inserting(r, size)
           Fails(p) == ~Inserted(r, size, p[1], p[2], p[3], result[p])
           lengths == {n \in Nat : \E p \in Insertions(r, size) : p[2] + p[3] = n /\ Fails(p)}
<1> SUFFICES ASSUME Fails(at) PROVE FALSE
  OBVIOUS
<1>1. PICK n \in lengths : \A m \in lengths : ~(<<m, n>> \in OpToRel(<, Nat))
  <2>1. at[2] + at[3] \in Nat
    BY InsertionFacts
  <2>2. lengths \subseteq Nat /\ lengths # {}
    BY <2>1
  <2> HIDE DEF lengths
  <2> QED
    BY <2>2, NatLessThanWellFounded, WFMin
<1>2. PICK p \in Insertions(r, size) : p[2] + p[3] = n /\ Fails(p)
  BY <1>1
<1>3. \A q \in Insertions(r, size) : q[2] + q[3] \in Nat /\ q[2] + q[3] < n => ~Fails(q)
  BY <1>1 DEF OpToRel
<1> DEFINE v == p[1]
           j == p[2]
           i == p[3]
<1>4. /\ p = <<v, j, i>>
      /\ v \in [1 .. size -> Int] /\ j \in 0 .. size - Len(r) /\ i \in 0 .. Len(r)
      /\ j \in Nat /\ i \in Nat /\ j + i <= size
      /\ i # 0 => /\ i \in 1 .. Len(r) /\ r[i] \in Int
                  /\ AfterCopy(r, p) \in Insertions(r, size)
      /\ j > 0 => j \in 1 .. size /\ v[j] \in Int
      /\ i # 0 /\ j > 0 => AfterMove(p) \in Insertions(r, size)
  BY InsertionFacts
<1>5. result[p] = IF i = 0 THEN v
                  ELSE IF MovesElement(r, p) THEN result[AfterMove(p)]
                  ELSE result[AfterCopy(r, p)]
  BY InsertingIs
<1>6. /\ AfterMove(p) = <<[v EXCEPT ![j + i] = v[j]], j - 1, i>>
      /\ AfterCopy(r, p) = <<[v EXCEPT ![j + i] = r[i]], j, i - 1>>
      /\ MovesElement(r, p) <=> j > 0 /\ v[j] > r[i]
  BY DEF AfterMove, AfterCopy, MovesElement
<1>7. ~Inserted(r, size, v, j, i, result[p])
  BY <1>2
<1>8. j + i = n
  BY <1>2
<1>9. \A q \in Insertions(r, size) : q[2] + q[3] \in Nat /\ q[2] + q[3] < n =>
         Inserted(r, size, q[1], q[2], q[3], result[q])
  BY <1>3
<1> HIDE DEF result, Fails, lengths, v, j, i
<1>10. CASE i = 0
  <2>1. result[p] = v /\ \A k : ~(k \in 1 .. i)
    BY <1>5, <1>10
  <2>2. \A x : ~HasTo(r, i, x)
    BY <2>1 DEF HasTo
  <2>3. j + i = j
    BY <1>4, <1>10
  <2>4. Inserted(r, size, v, j, i, v)
    BY <1>4, <2>2, <2>3 DEF Inserted
  <2> QED
    BY <1>7, <2>1, <2>4
<1>11. CASE i # 0 /\ MovesElement(r, p)
  <2> DEFINE q == AfterMove(p)
  <2>1. q \in Insertions(r, size) /\ q[1] = [v EXCEPT ![j + i] = v[j]] /\ q[2] = j - 1 /\ q[3] = i
    <3>1. q \in Insertions(r, size)
      BY <1>4, <1>6, <1>11
    <3>2. q = <<[v EXCEPT ![j + i] = v[j]], j - 1, i>>
      BY <1>6
    <3> HIDE DEF q
    <3> QED
      BY <3>1, <3>2
  <2> HIDE DEF q
  <2>2. j > 0 /\ j - 1 \in Nat /\ (j - 1) + i \in Nat /\ (j - 1) + i < n
    BY <1>4, <1>6, <1>8, <1>11
  <2>3. Inserted(r, size, [v EXCEPT ![j + i] = v[j]], j - 1, i, result[q])
    BY <1>9, <2>1, <2>2
  <2>4. result[p] = result[q]
    BY <1>5, <1>11 DEF q
  <2>5. Inserted(r, size, v, j, i, result[q])
    BY <1>4, <1>6, <1>11, <2>2, <2>3, MoveInserts
  <2> QED
    BY <1>7, <2>4, <2>5
<1>12. CASE i # 0 /\ ~MovesElement(r, p)
  <2> DEFINE q == AfterCopy(r, p)
  <2>1. q \in Insertions(r, size) /\ q[1] = [v EXCEPT ![j + i] = r[i]] /\ q[2] = j /\ q[3] = i - 1
    <3>1. q \in Insertions(r, size)
      BY <1>4, <1>12
    <3>2. q = <<[v EXCEPT ![j + i] = r[i]], j, i - 1>>
      BY <1>6
    <3> HIDE DEF q
    <3> QED
      BY <3>1, <3>2
  <2> HIDE DEF q
  <2>2. i - 1 \in Nat /\ j + (i - 1) \in Nat /\ j + (i - 1) < n
    BY <1>4, <1>8, <1>12
  <2>3. Inserted(r, size, [v EXCEPT ![j + i] = r[i]], j, i - 1, result[q])
    BY <1>9, <2>1, <2>2
  <2>4. result[p] = result[q]
    BY <1>5, <1>12 DEF q
  <2>5. (j = 0 \/ v[j] <= r[i]) /\ j \in 0 .. size
    <3>1. j = 0 \/ (v[j] \in Int /\ r[i] \in Int /\ ~(v[j] > r[i]))
      BY <1>4, <1>6, <1>12
    <3>2. j \in 0 .. size
      BY <1>4
    <3> QED
      BY <3>1, <3>2
  <2>6. Inserted(r, size, v, j, i, result[q])
    BY <1>4, <1>12, <2>3, <2>5, CopyInserts
  <2> QED
    BY <1>7, <2>4, <2>6
<1> QED
  BY <1>10, <1>11, <1>12

\* mergeInsert (OrderedStaticMap.hpp:200-210) works in place: it keeps every element of both
\* vectors, none more often than they have it if all are different, and if both are sorted then
\* so is the result.
THEOREM MergeInsertSorts ==
    ASSUME NEW l \in Seq(Int), NEW r \in Seq(Int)
    PROVE  /\ MergeInsert(l, r) \in Seq(Int)
           /\ Len(MergeInsert(l, r)) = Len(l) + Len(r)
           /\ \A x : Has(MergeInsert(l, r), x) <=> Has(l, x) \/ Has(r, x)
           /\ SortedTo(l, Len(l)) /\ SortedTo(r, Len(r)) =>
                 SortedTo(MergeInsert(l, r), Len(l) + Len(r))
           /\ NoRepeats(l) /\ NoRepeats(r) /\ (\A x : ~(Has(l, x) /\ Has(r, x))) =>
                 NoRepeats(MergeInsert(l, r))
<1> DEFINE zeros == [n \in 1 .. Len(r) |-> 0]
           v == l \o zeros
           j == Len(l)
           i == Len(r)
           size == j + i
           m == MergeInsert(l, r)
<1>1. j \in Nat /\ i \in Nat
  BY LenProperties
<1>2. zeros \in Seq(Int) /\ Len(zeros) = i
  <2>1. zeros \in [1 .. i -> Int]
    OBVIOUS
  <2> HIDE DEF zeros
  <2> QED
    BY <1>1, <2>1, SeqDef, LenProperties
<1> HIDE DEF zeros
<1>3. v \in Seq(Int) /\ Len(v) = size /\ \A k \in 1 .. size : v[k] = IF k <= j THEN l[k] ELSE zeros[k - j]
  <2>1. \A s \in Seq(Int) : /\ l \o s \in Seq(Int) /\ Len(l \o s) = Len(l) + Len(s)
                            /\ \A k \in 1 .. Len(l) + Len(s) :
                                  (l \o s)[k] = IF k <= Len(l) THEN l[k] ELSE s[k - Len(l)]
    BY ConcatProperties
  <2> QED
    BY <1>2, <2>1
<1>4. m = Inserting(r, size)[<<v, j, i>>]
  BY <1>3 DEF MergeInsert, zeros
<1> HIDE DEF v, m, j, i
<1>5. v \in [1 .. size -> Int] /\ \A k \in 1 .. j : v[k] = l[k]
  BY <1>1, <1>3, LenProperties
<1>6. size \in Nat /\ i <= size /\ size - i = j
  BY <1>1
<1>7. <<v, j, i>> \in Insertions(r, size)
  BY <1>1, <1>5, <1>6 DEF Insertions, i
<1>8. Inserted(r, size, v, j, i, m)
  BY <1>4, <1>6, <1>7, LoopsInsert DEF i
<1>9. m \in [1 .. size -> Int]
  BY <1>8 DEF Inserted
<1>10. m \in Seq(Int) /\ Len(m) = size
  <2> HIDE DEF size
  <2> QED
    BY <1>6, <1>9, SeqDef, LenProperties
<1>11. /\ \A x : HasTo(v, j, x) <=> HasTo(l, j, x)
       /\ SortedTo(l, j) => SortedTo(v, j)
       /\ DistinctTo(l, j) => DistinctTo(v, j)
  BY <1>5 DEF HasTo, SortedTo, DistinctTo
<1>12. /\ \A s, x : Has(s, x) <=> HasTo(s, Len(s), x)
       /\ \A s : NoRepeats(s) <=> DistinctTo(s, Len(s))
  BY DEF Has, HasTo, NoRepeats, DistinctTo
<1>13. \A x : Has(m, x) <=> Has(l, x) \/ Has(r, x)
  BY <1>8, <1>10, <1>11, <1>12 DEF Inserted, j, i
<1>14. SortedTo(l, j) /\ SortedTo(r, i) => SortedTo(m, j + i)
  BY <1>8, <1>11 DEF Inserted
<1>15. NoRepeats(l) /\ NoRepeats(r) /\ (\A x : ~(Has(l, x) /\ Has(r, x))) => NoRepeats(m)
  BY <1>8, <1>10, <1>11, <1>12 DEF Inserted, j, i
<1> QED
  BY <1>10, <1>13, <1>14, <1>15 DEF m, j, i
=============================================================================
