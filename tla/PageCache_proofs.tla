-------------------------- MODULE PageCache_proofs --------------------------
(***************************************************************************)
(* PageCache for any number of pages, blocks and chunks, and for a server  *)
(* that answers with any bytes.                                            *)
(***************************************************************************)
EXTENDS PageCache, FiniteSetTheorems, SequenceTheorems, WellFoundedInduction, TLAPS

-----------------------------------------------------------------------------
(* Loops *)

LEMMA LeastNat ==
    ASSUME NEW S, S \subseteq Nat, S # {}
    PROVE  \E n \in S : \A m \in S : n <= m
<1>1. PICK n \in S : \A m \in S : ~(<<m, n>> \in OpToRel(<, Nat))
  BY NatLessThanWellFounded, WFMin
<1>2. \A m \in S : m \in Nat /\ n \in Nat /\ ~(m < n)
  BY <1>1 DEF OpToRel
<1> QED
  BY <1>2

LEMMA CountUp ==
    ASSUME NEW N \in Nat, NEW T, 0 \in T, \A n \in 1 .. N : n - 1 \in T => n \in T
    PROVE  \A n \in 0 .. N : n \in T
<1> DEFINE out == {n \in 0 .. N : n \notin T}
<1>1. ASSUME out # {} PROVE FALSE
  <2>0. out \subseteq Nat
    OBVIOUS
  <2>1. PICK n \in out : \A m \in out : n <= m
    BY <1>1, <2>0, LeastNat
  <2>2. n \in 1 .. N /\ n - 1 \in 0 .. N /\ n - 1 < n
    BY <2>1
  <2>3. n - 1 \in T
    BY <2>1, <2>2
  <2> QED
    BY <2>1, <2>2, <2>3
<1> QED
  BY <1>1

\* What a loop computes: f[n] after the body G was executed n times.
Runs(f, N, a, G) == f[0] = a /\ \A n \in 1 .. N : f[n] = G[<<n, f[n - 1]>>]

LEMMA RunExists ==
    ASSUME NEW N \in Nat, NEW S, NEW a \in S, NEW G \in [(1 .. N) \X S -> S]
    PROVE  \E f \in [0 .. N -> S] : Runs(f, N, a, G)
<1> DEFINE T == {n \in 0 .. N : \E f \in [0 .. n -> S] : Runs(f, n, a, G)}
<1>1. 0 \in T
  <2> DEFINE f == [k \in 0 .. 0 |-> a]
  <2>1. f \in [0 .. 0 -> S] /\ Runs(f, 0, a, G)
    BY DEF Runs
  <2> QED
    BY <2>1
<1>2. ASSUME NEW n \in 1 .. N, n - 1 \in T PROVE n \in T
  <2>1. PICK f \in [0 .. n - 1 -> S] : Runs(f, n - 1, a, G)
    BY <1>2
  <2> DEFINE g == [k \in 0 .. n |-> IF k = n THEN G[<<n, f[n - 1]>>] ELSE f[k]]
  <2>2. n - 1 \in 0 .. n - 1 /\ n \in 0 .. N /\ n \in Nat
    OBVIOUS
  <2>3. G[<<n, f[n - 1]>>] \in S
    BY <1>2, <2>1, <2>2
  <2>4. g \in [0 .. n -> S]
    BY <2>1, <2>3
  <2>5. g[0] = a
    BY <2>1, <2>2 DEF Runs
  <2>6. ASSUME NEW k \in 1 .. n PROVE g[k] = G[<<k, g[k - 1]>>]
    <3>1. k - 1 \in 0 .. n /\ k \in 0 .. n /\ k - 1 # n /\ g[k - 1] = f[k - 1]
      BY <2>2
    <3>2. CASE k = n
      BY <3>1, <3>2
    <3>3. CASE k # n
      <4>1. k \in 1 .. n - 1
        BY <2>2, <3>3
      <4>2. f[k] = G[<<k, f[k - 1]>>]
        BY <2>1, <4>1 DEF Runs
      <4> QED
        BY <3>1, <3>3, <4>2
    <3> QED
      BY <3>2, <3>3
  <2> HIDE DEF g
  <2> QED
    BY <2>2, <2>4, <2>5, <2>6 DEF Runs
<1> HIDE DEF T
<1>3. N \in T
  BY <1>1, <1>2, CountUp
<1> QED
  BY <1>3 DEF T

LEMMA RunStays ==
    ASSUME NEW N \in Nat, NEW S, NEW f, f[0] \in S,
           \A n \in 1 .. N : f[n - 1] \in S => f[n] \in S
    PROVE  \A n \in 0 .. N : f[n] \in S
<1> DEFINE T == {n \in 0 .. N : f[n] \in S}
<1>1. 0 \in T
  OBVIOUS
<1>2. ASSUME NEW n \in 1 .. N, n - 1 \in T PROVE n \in T
  BY <1>2
<1> HIDE DEF T
<1>3. \A n \in 0 .. N : n \in T
  BY <1>1, <1>2, CountUp
<1> QED
  BY <1>3 DEF T

-----------------------------------------------------------------------------
(* Numbers *)

Byte == 0 .. Radix - 1

LEMMA Product ==
    ASSUME NEW m \in Nat, NEW n \in Nat
    PROVE  m * n \in Nat
OBVIOUS

\* Naturals.
LEMMA Tries ==
    ASSUME NEW trie \in {VarUInt, IdTrie}
    PROVE  /\ trie \in Seq(Nat) /\ Len(trie) \in Nat /\ Len(trie) >= 1
           /\ DOMAIN trie = 1 .. Len(trie)
           /\ \A n \in DOMAIN trie : trie[n] \in Nat /\ trie[n] > 0 /\ trie[n] * Radix \in Nat
           /\ \A n \in 2 .. Len(trie) : trie[n - 1] * Radix <= trie[n]
           /\ Radix \in Nat /\ Radix > 1
<1>1. /\ trie \in Seq(Nat) /\ trie # << >>
      /\ \A n \in DOMAIN trie : trie[n] \in 1 .. Radix ^ n - 1
      /\ \A n \in 2 .. Len(trie) : trie[n - 1] * Radix <= trie[n]
  BY PrefixCodesAssumption
<1>3. ASSUME NEW n \in DOMAIN trie PROVE trie[n] * Radix \in Nat
  BY <1>1, <1>3, PrefixCodesAssumption, Product
<1>2. ASSUME NEW n \in DOMAIN trie PROVE trie[n] \in Nat /\ trie[n] > 0
  <2> DEFINE upper == Radix ^ n - 1
  <2>1. trie[n] \in 1 .. upper
    BY <1>1
  <2> HIDE DEF upper
  <2> QED
    BY <2>1
<1> QED
  BY <1>1, <1>2, <1>3, PrefixCodesAssumption, EmptySeq

\* A number, digit by digit.
NumberStep(s, at, value, k) == IF k = 0 THEN 0 ELSE value[k - 1] * Radix + s[at + k - 1]

LEMMA NumberRuns ==
    ASSUME NEW s \in Seq(Byte), NEW at \in Nat, at >= 1, NEW n \in Nat, at + n - 1 <= Len(s)
    PROVE  \E value \in [0 .. n -> Nat] :
              /\ Number(s, at, n) = value[n]
              /\ value = [k \in 0 .. n |-> NumberStep(s, at, value, k)]
<1> DEFINE G == [p \in (1 .. n) \X Nat |-> p[2] * Radix + s[at + p[1] - 1]]
           value == CHOOSE f : f = [k \in 0 .. n |-> NumberStep(s, at, f, k)]
<1>1. Radix \in Nat /\ \A k \in 1 .. n : s[at + k - 1] \in Nat
  <2>1. Radix \in Nat
    BY Tries
  <2>2. ASSUME NEW k \in 1 .. n PROVE at + k - 1 \in 1 .. Len(s)
    OBVIOUS
  <2> QED
    BY <2>1, <2>2 DEF Byte
<1>2. G \in [(1 .. n) \X Nat -> Nat]
  <2>1. ASSUME NEW k \in 1 .. n, NEW m \in Nat PROVE m * Radix + s[at + k - 1] \in Nat
    <3>1. m * Radix \in Nat
      BY <1>1, Product
    <3> DEFINE d == s[at + k - 1]
    <3>2. d \in Nat
      BY <1>1
    <3> HIDE DEF d
    <3> QED
      BY <3>1, <3>2 DEF d
  <2>2. \A p \in (1 .. n) \X Nat : p[1] \in 1 .. n /\ p[2] \in Nat
    OBVIOUS
  <2> QED
    BY <2>1, <2>2
<1>3. PICK f \in [0 .. n -> Nat] : Runs(f, n, 0, G)
  <2> HIDE DEF G
  <2> QED
    BY <1>2, RunExists
<1>4. f = [k \in 0 .. n |-> NumberStep(s, at, f, k)]
  <2>1. ASSUME NEW k \in 0 .. n PROVE f[k] = NumberStep(s, at, f, k)
    <3>1. CASE k = 0
      BY <1>3, <3>1 DEF Runs, NumberStep
    <3>2. CASE k # 0
      <4>1. k \in 1 .. n /\ k - 1 \in 0 .. n
        BY <3>2
      <4>2. f[k] = G[<<k, f[k - 1]>>] /\ f[k - 1] \in Nat
        BY <1>3, <4>1 DEF Runs
      <4>3. <<k, f[k - 1]>> \in (1 .. n) \X Nat
        BY <4>1, <4>2
      <4> QED
        BY <3>2, <4>2, <4>3 DEF NumberStep
    <3> QED
      BY <3>1, <3>2
  <2> QED
    BY <2>1
<1> HIDE DEF G
<1>5. value = [k \in 0 .. n |-> NumberStep(s, at, value, k)]
  BY <1>4
<1>6. Number(s, at, n) = value[n]
  BY DEF Number, NumberStep
<1> HIDE DEF value
<1>7. \A k \in 0 .. n : value[k] \in Nat
  <2>1. value[0] \in Nat
    BY <1>5 DEF NumberStep
  <2>2. ASSUME NEW k \in 1 .. n, value[k - 1] \in Nat PROVE value[k] \in Nat
    <3>1. value[k] = value[k - 1] * Radix + s[at + k - 1]
      BY <1>5 DEF NumberStep
    <3> DEFINE x == value[k - 1] * Radix
               d == s[at + k - 1]
    <3>2. x \in Nat /\ d \in Nat
      BY <1>1, <2>2, Product
    <3>3. value[k] = x + d
      BY <3>1
    <3> HIDE DEF x, d
    <3> QED
      BY <3>2, <3>3
  <2> QED
    BY <2>1, <2>2, RunStays
<1> QED
  BY <1>5, <1>6, <1>7

LEMMA NumberType ==
    ASSUME NEW s \in Seq(Byte), NEW at \in Nat, at >= 1, NEW n \in Nat, at + n - 1 <= Len(s)
    PROVE  Number(s, at, n) \in Nat
BY NumberRuns

LEMMA NumberGrows ==
    ASSUME NEW s \in Seq(Byte), NEW at \in Nat, at >= 1, NEW n \in Nat, n >= 1,
           at + n - 1 <= Len(s)
    PROVE  Number(s, at, n) = Number(s, at, n - 1) * Radix + s[at + n - 1]
<1>1. PICK f \in [0 .. n -> Nat] : /\ Number(s, at, n) = f[n]
                                   /\ f = [k \in 0 .. n |-> NumberStep(s, at, f, k)]
  BY NumberRuns
<1>2. n - 1 \in Nat /\ at + (n - 1) - 1 <= Len(s)
  OBVIOUS
<1>3. PICK g \in [0 .. n - 1 -> Nat] : /\ Number(s, at, n - 1) = g[n - 1]
                                       /\ g = [k \in 0 .. n - 1 |-> NumberStep(s, at, g, k)]
  BY <1>2, NumberRuns
<1> DEFINE T == {k \in 0 .. n - 1 : f[k] = g[k]}
<1>4. 0 \in T
  BY <1>1, <1>2, <1>3 DEF NumberStep
<1>5. ASSUME NEW k \in 1 .. n - 1, k - 1 \in T PROVE k \in T
  <2>1. k # 0 /\ k \in 0 .. n /\ k \in 0 .. n - 1
    OBVIOUS
  <2>2. f[k] = f[k - 1] * Radix + s[at + k - 1]
    BY <1>1, <2>1 DEF NumberStep
  <2>3. g[k] = g[k - 1] * Radix + s[at + k - 1]
    BY <1>3, <2>1 DEF NumberStep
  <2> QED
    BY <1>5, <2>1, <2>2, <2>3
<1> HIDE DEF T
<1>6. n - 1 \in T
  <2>1. \A k \in 0 .. n - 1 : k \in T
    BY <1>2, <1>4, <1>5, CountUp
  <2> QED
    BY <1>2, <2>1
<1>7. f[n - 1] = g[n - 1]
  BY <1>6 DEF T
<1>8. f[n] = f[n - 1] * Radix + s[at + n - 1]
  BY <1>1 DEF NumberStep
<1> QED
  BY <1>1, <1>3, <1>7, <1>8

CodesStep(trie, sum, k) ==
    IF k = 1 THEN trie[1] ELSE sum[k - 1] + trie[k] - trie[k - 1] * Radix

LEMMA CodesRuns ==
    ASSUME NEW trie \in {VarUInt, IdTrie}, NEW n \in DOMAIN trie
    PROVE  \E sum \in [1 .. n -> Nat] :
              /\ Codes(trie, n) = sum[n]
              /\ sum = [k \in 1 .. n |-> CodesStep(trie, sum, k)]
<1> DEFINE step(k) == trie[k + 1] - trie[k] * Radix
           G == [p \in (1 .. n - 1) \X Nat |-> p[2] + step(p[1])]
           sum == CHOOSE f : f = [k \in 1 .. n |-> CodesStep(trie, f, k)]
<1>1. /\ n \in Nat /\ n >= 1 /\ n <= Len(trie) /\ n - 1 \in Nat /\ trie[1] \in Nat
      /\ DOMAIN trie = 1 .. Len(trie) /\ Len(trie) \in Nat
  <2>1. /\ DOMAIN trie = 1 .. Len(trie) /\ Len(trie) \in Nat /\ Len(trie) >= 1
        /\ \A k \in DOMAIN trie : trie[k] \in Nat
    BY Tries
  <2>2. n \in 1 .. Len(trie) /\ 1 \in DOMAIN trie
    BY <2>1
  <2> QED
    BY <2>1, <2>2
<1>2. \A k \in 1 .. n - 1 : step(k) \in Nat
  <2>1. ASSUME NEW k \in 1 .. n - 1 PROVE step(k) \in Nat
    <3>1. k + 1 \in 2 .. Len(trie) /\ k \in DOMAIN trie /\ k + 1 \in DOMAIN trie /\ (k + 1) - 1 = k
      BY <1>1
    <3>2. trie[k] * Radix <= trie[k + 1]
      BY <3>1, Tries
    <3>3. trie[k] * Radix \in Nat /\ trie[k + 1] \in Nat
      BY <3>1, Tries
    <3> QED
      BY <3>2, <3>3
  <2> QED
    BY <2>1
<1> HIDE DEF step
<1>3. G \in [(1 .. n - 1) \X Nat -> Nat]
  <2>1. ASSUME NEW k \in 1 .. n - 1, NEW m \in Nat PROVE m + step(k) \in Nat
    BY <1>2
  <2>2. \A p \in (1 .. n - 1) \X Nat : p[1] \in 1 .. n - 1 /\ p[2] \in Nat
    OBVIOUS
  <2> QED
    BY <2>1, <2>2
<1> HIDE DEF G
<1>4. PICK g \in [0 .. n - 1 -> Nat] : Runs(g, n - 1, trie[1], G)
  BY <1>1, <1>3, RunExists
<1> DEFINE f == [k \in 1 .. n |-> g[k - 1]]
<1>5. f = [k \in 1 .. n |-> CodesStep(trie, f, k)]
  <2>1. ASSUME NEW k \in 1 .. n PROVE g[k - 1] = CodesStep(trie, f, k)
    <3>1. CASE k = 1
      BY <1>4, <3>1 DEF Runs, CodesStep
    <3>2. CASE k # 1
      <4>1. k - 1 \in 1 .. n - 1 /\ k - 1 \in 1 .. n /\ (k - 1) - 1 \in 0 .. n - 1 /\ (k - 1) + 1 = k
        BY <1>1, <3>2
      <4>2. g[k - 1] = G[<<k - 1, g[(k - 1) - 1]>>] /\ g[(k - 1) - 1] \in Nat
        BY <1>4, <4>1 DEF Runs
      <4>3. g[k - 1] = g[(k - 1) - 1] + step(k - 1)
        <5> DEFINE p == <<k - 1, g[(k - 1) - 1]>>
        <5>1. p \in (1 .. n - 1) \X Nat /\ p[1] = k - 1 /\ p[2] = g[(k - 1) - 1]
          BY <4>1, <4>2
        <5> QED
          BY <4>2, <5>1 DEF G
      <4>4. f[k - 1] = g[(k - 1) - 1]
        BY <4>1
      <4>5. step(k - 1) = trie[k] - trie[k - 1] * Radix
        <5>1. (k - 1) + 1 = k
          BY <4>1
        <5>2. step(k - 1) = trie[(k - 1) + 1] - trie[k - 1] * Radix
          BY DEF step
        <5> QED
          BY <5>1, <5>2
      <4>6. trie[k] \in Int /\ trie[k - 1] * Radix \in Int
        <5>1. k \in DOMAIN trie /\ k - 1 \in DOMAIN trie
          BY <1>1, <4>1
        <5>2. trie[k] \in Nat
          BY <5>1, Tries
        <5>3. trie[k - 1] * Radix \in Nat
          BY <5>1, Tries
        <5> QED
          BY <5>2, <5>3
      <4> DEFINE a == g[(k - 1) - 1]
                 b == trie[k - 1] * Radix
      <4>7. a \in Int /\ b \in Int /\ f[k - 1] = a /\ g[k - 1] = a + (trie[k] - b)
        BY <4>2, <4>3, <4>4, <4>5, <4>6
      <4> HIDE DEF a
      <4>8. CodesStep(trie, f, k) = f[k - 1] + trie[k] - b
        BY <3>2 DEF CodesStep
      <4> HIDE DEF b, f
      <4> QED
        BY <4>6, <4>7, <4>8
    <3> QED
      BY <3>1, <3>2
  <2> QED
    BY <2>1
<1> HIDE DEF f
<1>6. sum = [k \in 1 .. n |-> CodesStep(trie, sum, k)]
  BY <1>5
<1>7. Codes(trie, n) = sum[n]
  BY DEF Codes, CodesStep
<1> HIDE DEF sum
<1> DEFINE T == {k \in 0 .. n - 1 : sum[k + 1] \in Nat}
<1>8. 0 \in T
  BY <1>1, <1>6 DEF CodesStep
<1>9. ASSUME NEW k \in 1 .. n - 1, k - 1 \in T PROVE k \in T
  <2>1. k \in 1 .. n /\ k + 1 \in 1 .. n /\ (k + 1) - 1 = k /\ (k - 1) + 1 = k /\ k + 1 # 1 /\ k \in 0 .. n - 1
    BY <1>1
  <2>2. sum[k + 1] = sum[k] + trie[k + 1] - trie[k] * Radix /\ sum[k] \in Nat
    BY <1>6, <1>9, <2>1 DEF CodesStep
  <2>3. k \in DOMAIN trie /\ k + 1 \in DOMAIN trie
    BY <1>1, <2>1
  <2> DEFINE b == trie[k] * Radix
  <2>4. b \in Nat /\ trie[k + 1] \in Nat /\ trie[k + 1] - b \in Nat
    BY <1>2, <2>3, Tries DEF step
  <2>5. sum[k + 1] = sum[k] + trie[k + 1] - b
    BY <2>2
  <2> HIDE DEF b
  <2>6. sum[k + 1] \in Nat
    BY <2>2, <2>4, <2>5
  <2> QED
    BY <2>1, <2>6
<1> HIDE DEF T
<1>10. \A k \in 0 .. n - 1 : k \in T
  BY <1>1, <1>8, <1>9, CountUp
<1>11. \A k \in 1 .. n : sum[k] \in Nat
  <2>1. ASSUME NEW k \in 1 .. n PROVE sum[k] \in Nat
    <3>1. k - 1 \in T /\ (k - 1) + 1 = k
      BY <1>1, <1>10
    <3> QED
      BY <3>1 DEF T
  <2> QED
    BY <2>1
<1> QED
  BY <1>6, <1>7, <1>11

\* Reading a code goes on behind it, within the bytes that are left, and gives a number.
LEMMA CodeFound ==
    ASSUME NEW trie \in {VarUInt, IdTrie}, NEW s \in Seq(Byte), NEW at \in Nat, at >= 1,
           HasCode(trie, s, at, Len(s))
    PROVE  LET n == CodeLength(trie, s, at, Len(s))
           IN  /\ n \in Nat /\ n >= 1 /\ at + n <= Len(s) + 1
               /\ Value(trie, s, at, n) \in Nat
<1> DEFINE end == Len(s)
           S == Lengths(trie, s, at, end)
           n == CodeLength(trie, s, at, end)
<1>1. /\ DOMAIN trie = 1 .. Len(trie) /\ Len(trie) \in Nat /\ end \in Nat
  BY Tries
<1>2. \A k \in S : k \in DOMAIN trie /\ at + k - 1 <= end /\ Number(s, at, k) < trie[k]
  BY DEF Lengths
<1>3. S \subseteq Nat /\ S # {}
  BY <1>1, <1>2 DEF HasCode
<1>4. \E m \in S : \A k \in S : m <= k
  BY <1>3, LeastNat
<1>5. n \in S /\ \A k \in S : n <= k
  BY <1>4 DEF CodeLength, Least
<1>6. n \in Nat /\ n >= 1 /\ at + n - 1 <= end /\ n \in DOMAIN trie
  BY <1>1, <1>2, <1>5
<1>7. trie[n] \in Nat /\ Codes(trie, n) \in Nat /\ Number(s, at, n) \in Nat
  <2>1. Codes(trie, n) \in Nat
    <3>1. PICK sum \in [1 .. n -> Nat] : Codes(trie, n) = sum[n]
      BY <1>6, CodesRuns
    <3> QED
      BY <1>6, <3>1
  <2> QED
    BY <1>6, <2>1, Tries, NumberType
<1>8. Codes(trie, n) + Number(s, at, n) - trie[n] >= 0
  <2>1. PICK sum \in [1 .. n -> Nat] : /\ Codes(trie, n) = sum[n]
                                       /\ sum = [k \in 1 .. n |-> CodesStep(trie, sum, k)]
    BY <1>6, CodesRuns
  <2>2. CASE n = 1
    <3>1. Codes(trie, n) = trie[n]
      BY <2>1, <2>2 DEF CodesStep
    <3> QED
      BY <1>7, <3>1
  <2>3. CASE n # 1
    <3> DEFINE b == trie[n - 1] * Radix
               m == Number(s, at, n - 1)
               d == s[at + n - 1]
    <3>1. n - 1 \in DOMAIN trie /\ n - 1 \in Nat /\ n \in 2 .. Len(trie) /\ n - 1 \in 1 .. n /\ n \in 1 .. n
      BY <1>1, <1>6, <2>3
    <3>2. at + (n - 1) - 1 <= end /\ at + n - 1 \in 1 .. Len(s)
      BY <1>1, <1>6
    <3>3. n - 1 \notin S
      BY <1>5, <1>6, <3>1
    <3>4. ~(m < trie[n - 1])
      BY <3>1, <3>2, <3>3 DEF Lengths
    <3>5. trie[n - 1] \in Nat /\ b \in Nat /\ Radix \in Nat
      BY <3>1, Tries
    <3>6. m \in Nat
      BY <3>1, <3>2, NumberType
    <3>7. d \in Nat
      <4>1. d \in Byte
        BY <3>2
      <4> QED
        BY <4>1 DEF Byte
    <3>8. Number(s, at, n) = m * Radix + d
      BY <1>6, NumberGrows
    <3>9. m * Radix >= b /\ m * Radix \in Nat
      <4> HIDE DEF m
      <4>1. trie[n - 1] <= m
        BY <3>4, <3>5, <3>6
      <4>2. m - trie[n - 1] \in Nat
        BY <3>5, <3>6, <4>1
      <4>3. (m - trie[n - 1]) * Radix \in Nat /\ m * Radix \in Nat
        BY <3>5, <3>6, <4>2, Product
      <4>4. (m - trie[n - 1]) * Radix = m * Radix - trie[n - 1] * Radix
        BY <3>5, <3>6
      <4> QED
        BY <3>5, <4>3, <4>4
    <3>10. Codes(trie, n) = sum[n - 1] + trie[n] - b
      BY <2>1, <2>3, <3>1 DEF CodesStep
    <3>11. sum[n - 1] \in Nat
      BY <2>1, <3>1
    <3> DEFINE x == m * Radix
               y == sum[n - 1]
    <3>12. x \in Nat /\ x >= b /\ y \in Nat /\ Number(s, at, n) = x + d /\ Codes(trie, n) = y + trie[n] - b
      BY <3>8, <3>9, <3>10, <3>11
    <3> HIDE DEF x, y, b, m, d
    <3> QED
      BY <1>7, <3>5, <3>7, <3>12
  <2> QED
    BY <2>2, <2>3
<1> HIDE DEF n, S
<1>9. Value(trie, s, at, n) \in Nat
  BY <1>7, <1>8 DEF Value
<1> QED
  BY <1>1, <1>6, <1>9 DEF n

LEMMA DecodeType ==
    ASSUME NEW s \in Seq(Byte), NEW at \in Nat, at >= 1, HasCode(VarUInt, s, at, Len(s))
    PROVE  LET d == Decode(VarUInt, s, at, Len(s))
           IN  d.value \in Nat /\ d.next \in Nat /\ d.next > at /\ d.next <= Len(s) + 1
<1>1. Len(s) \in Nat
  OBVIOUS
<1> QED
  BY <1>1, CodeFound DEF Decode

LEMMA ReadIdType ==
    ASSUME NEW s \in Seq(Byte), NEW at \in Nat, at >= 1, HasId(s, at, Len(s))
    PROVE  LET id == ReadId(s, at, Len(s))
           IN  id.next \in Nat /\ id.next >= at /\ id.value \in Seq(Byte)
<1> DEFINE end == Len(s)
<1>1. ASSUME NEW a \in Nat
      PROVE  /\ CodeEnd(s, a, end) \in Nat
             /\ CodeEnd(s, a, end) # 0 =>
                    a # 0 /\ CodeEnd(s, a, end) > a /\ CodeEnd(s, a, end) <= end + 1
  <2>1. CASE a > 0 /\ HasCode(IdTrie, s, a, end)
    BY <2>1, CodeFound DEF CodeEnd
  <2>2. CASE ~(a > 0 /\ HasCode(IdTrie, s, a, end))
    BY <2>2 DEF CodeEnd
  <2> QED
    BY <2>1, <2>2
<1> DEFINE a == CodeEnd(s, at, end)
           b == CodeEnd(s, a, end)
           c == CodeEnd(s, b, end)
<1>2. a \in Nat /\ (a # 0 => a > at)
  BY <1>1
<1>3. b \in Nat /\ (b # 0 => a # 0 /\ b > a)
  BY <1>1, <1>2
<1>4. c \in Nat /\ (c # 0 => b # 0 /\ c > b /\ c <= end + 1)
  BY <1>1, <1>3
<1>5. IdEnd(s, at, end) = c
  BY DEF IdEnd
<1> HIDE DEF a, b, c
<1>6. c # 0
  BY <1>5 DEF HasId
<1>7. c > at /\ c <= end + 1
  BY <1>2, <1>3, <1>4, <1>6
<1>8. ASSUME NEW k \in at .. c - 1 PROVE s[k] \in Byte
  <2>1. k \in 1 .. Len(s)
    BY <1>4, <1>7
  <2> QED
    BY <2>1
<1>9. SubSeq(s, at, c - 1) \in Seq(Byte)
  BY <1>4, <1>7, <1>8, SubSeqProperties
<1> QED
  BY <1>4, <1>5, <1>7, <1>9 DEF ReadId

BitState == [a : Nat, b : Nat, unit : Nat, xor : Nat]

LEMMA XorType ==
    ASSUME NEW a \in Nat, NEW b \in Nat
    PROVE  Xor(a, b) \in Nat
<1> DEFINE N == a + b
           start == [a |-> a, b |-> b, unit |-> 1, xor |-> 0]
           Step(f, k) == IF k = 0 THEN start ELSE NextBit(f[k - 1])
           bits == CHOOSE f : f = [k \in 0 .. N |-> Step(f, k)]
           G == [p \in (1 .. N) \X BitState |-> NextBit(p[2])]
<1>1. N \in Nat /\ start \in BitState
  BY DEF BitState
<1>2. \A x \in BitState : NextBit(x) \in BitState
  <2>1. ASSUME NEW x \in BitState PROVE NextBit(x) \in BitState
    <3>1. x.a \in Nat /\ x.b \in Nat /\ x.unit \in Nat /\ x.xor \in Nat
      BY DEF BitState
    <3>2. x.a \div 2 \in Nat /\ x.b \div 2 \in Nat /\ 2 * x.unit \in Nat /\ x.xor + x.unit \in Nat
      BY <3>1
    <3> QED
      BY <3>1, <3>2 DEF NextBit, BitState
  <2> QED
    BY <2>1
<1> HIDE DEF start
<1>3. G \in [(1 .. N) \X BitState -> BitState]
  BY <1>2
<1>4. PICK f \in [0 .. N -> BitState] : Runs(f, N, start, G)
  <2> HIDE DEF G, N
  <2> QED
    BY <1>1, <1>3, RunExists
<1>5. f = [k \in 0 .. N |-> Step(f, k)]
  <2>1. ASSUME NEW k \in 0 .. N PROVE f[k] = Step(f, k)
    <3>1. CASE k = 0
      BY <1>4, <3>1 DEF Runs
    <3>2. CASE k # 0
      <4>1. k \in 1 .. N /\ k - 1 \in 0 .. N
        BY <1>1, <3>2
      <4>2. f[k] = G[<<k, f[k - 1]>>] /\ f[k - 1] \in BitState
        BY <1>4, <4>1 DEF Runs
      <4> QED
        BY <3>2, <4>1, <4>2
    <3> QED
      BY <3>1, <3>2
  <2> QED
    BY <2>1
<1> HIDE DEF G
<1>6. bits = [k \in 0 .. N |-> Step(bits, k)]
  BY <1>5
<1>7. Xor(a, b) = bits[N].xor
  BY DEF Xor, start
<1> HIDE DEF bits
<1>8. \A k \in 0 .. N : bits[k] \in BitState
  <2>1. bits[0] \in BitState
    BY <1>1, <1>6
  <2>2. ASSUME NEW k \in 1 .. N, bits[k - 1] \in BitState PROVE bits[k] \in BitState
    <3>1. bits[k] = NextBit(bits[k - 1])
      BY <1>6
    <3> QED
      BY <1>2, <2>2, <3>1
  <2> HIDE DEF N
  <2> QED
    BY <1>1, <2>1, <2>2, RunStays
<1> QED
  BY <1>1, <1>7, <1>8 DEF BitState

-----------------------------------------------------------------------------
(* Chunks *)

\* A chunk whose size is within its capacity.
Sound == {c \in [size : Nat, bytes : Seq(Nat), writable : BOOLEAN] : c.size <= Len(c.bytes)}

\* There is nothing behind the size.
Tidy(c) == \A o \in c.size + 1 .. Capacity(c) : c.bytes[o] = 0

LEMMA SoundFacts ==
    ASSUME NEW c \in Sound
    PROVE  /\ c.size \in Nat /\ c.bytes \in Seq(Nat) /\ c.writable \in BOOLEAN
           /\ Len(c.bytes) \in Nat /\ DOMAIN c.bytes = 1 .. Len(c.bytes)
           /\ c.size <= Len(c.bytes)
           /\ \A o \in 1 .. Len(c.bytes) : c.bytes[o] \in Nat
           /\ c = [size |-> c.size, bytes |-> c.bytes, writable |-> c.writable]
BY DEF Sound

LEMMA NewChunkSound == NewChunk \in Sound /\ Tidy(NewChunk)
<1>1. << >> \in Seq(Nat) /\ Len(<< >>) = 0
  OBVIOUS
<1> QED
  BY <1>1 DEF NewChunk, Sound, Tidy, Capacity

LEMMA WithBytes ==
    ASSUME NEW c \in Sound, NEW b
    PROVE  [c EXCEPT !.bytes = b] = [size |-> c.size, bytes |-> b, writable |-> c.writable]
BY DEF Sound

LEMMA ResizeSound ==
    ASSUME NEW c \in Sound, NEW n \in Nat, c.size <= n, c.size <= Len(c.bytes)
    PROVE  /\ Resize(c, n) \in Sound /\ Len(Resize(c, n).bytes) = n
           /\ Resize(c, n).size = c.size /\ Resize(c, n).writable = c.writable
           /\ Tidy(Resize(c, n))
<1> DEFINE b == [o \in 1 .. n |-> IF o <= c.size THEN c.bytes[o] ELSE 0]
<1>1. b \in Seq(Nat) /\ Len(b) = n
  <2>1. \A o \in 1 .. n : (IF o <= c.size THEN c.bytes[o] ELSE 0) \in Nat
    BY SoundFacts
  <2>2. b \in [1 .. n -> Nat]
    BY <2>1
  <2> QED
    BY <2>2
<1>2. Resize(c, n) = [size |-> c.size, bytes |-> b, writable |-> c.writable]
  <2>1. Resize(c, n) = [c EXCEPT !.bytes = b]
    BY DEF Resize
  <2> HIDE DEF b
  <2> QED
    BY <2>1, WithBytes
<1>3. \A o \in c.size + 1 .. n : b[o] = 0
  BY SoundFacts
<1> HIDE DEF b
<1> QED
  BY <1>1, <1>2, <1>3, SoundFacts DEF Sound, Tidy, Capacity

LEMMA ReserveSound ==
    ASSUME NEW c \in Sound, NEW n \in Nat
    PROVE  /\ ReserveSpace(c, n) \in Sound /\ n <= Len(ReserveSpace(c, n).bytes)
           /\ ReserveSpace(c, n).size = c.size /\ ReserveSpace(c, n).writable = c.writable
           /\ Tidy(c) => Tidy(ReserveSpace(c, n))
<1>1. CASE n <= Capacity(c)
  BY <1>1 DEF ReserveSpace, Capacity
<1>2. CASE ~(n <= Capacity(c))
  <2>1. c.size <= n /\ c.size <= Len(c.bytes)
    BY <1>2, SoundFacts DEF Capacity
  <2> QED
    BY <1>2, <2>1, ResizeSound DEF ReserveSpace
<1> QED
  BY <1>1, <1>2

\* What a chunk says.
ContentOf(c) == SubSeq(c.bytes, 1, c.size)

LEMMA ContentBytes ==
    ASSUME NEW c \in Sound, NEW d \in Sound, d.size = c.size,
           \A o \in 1 .. c.size : d.bytes[o] = c.bytes[o]
    PROVE  ContentOf(d) = ContentOf(c)
<1>1. /\ c.size \in Nat /\ c.bytes \in Seq(Nat) /\ c.size <= Len(c.bytes)
      /\ d.size \in Nat /\ d.bytes \in Seq(Nat) /\ d.size <= Len(d.bytes)
  BY SoundFacts
<1> DEFINE n == c.size
           b == c.bytes
           e == d.bytes
<1>2. n \in Nat /\ b \in Seq(Nat) /\ e \in Seq(Nat) /\ n <= Len(b) /\ n <= Len(e)
      /\ \A o \in 1 .. n : e[o] = b[o]
  BY <1>1
<1>3. ContentOf(d) = SubSeq(e, 1, n) /\ ContentOf(c) = SubSeq(b, 1, n)
  BY DEF ContentOf
<1> HIDE DEF n, b, e
<1>4. /\ SubSeq(b, 1, n) = [o \in 1 .. n |-> b[o]]
      /\ SubSeq(e, 1, n) = [o \in 1 .. n |-> e[o]]
  BY <1>2
<1> QED
  BY <1>2, <1>3, <1>4

LEMMA ReserveContent ==
    ASSUME NEW c \in Sound, NEW n \in Nat
    PROVE  ContentOf(ReserveSpace(c, n)) = ContentOf(c)
<1>1. CASE n <= Capacity(c)
  BY <1>1 DEF ReserveSpace
<1>2. CASE ~(n <= Capacity(c))
  <2> DEFINE d == Resize(c, n)
             b == [o \in 1 .. n |-> IF o <= c.size THEN c.bytes[o] ELSE 0]
  <2>1. c.size <= n /\ c.size <= Len(c.bytes) /\ c.size \in Nat
    BY <1>2, SoundFacts DEF Capacity
  <2>2. d \in Sound /\ d.size = c.size
    BY <2>1, ResizeSound
  <2>3. d.bytes = b
    <3>1. d = [c EXCEPT !.bytes = b]
      BY DEF Resize
    <3> HIDE DEF b, d
    <3> QED
      BY <3>1, WithBytes
  <2>4. \A o \in 1 .. c.size : d.bytes[o] = c.bytes[o]
    BY <2>1, <2>3
  <2>5. ReserveSpace(c, n) = d
    BY <1>2 DEF ReserveSpace
  <2> HIDE DEF d
  <2> QED
    BY <2>2, <2>4, <2>5, ContentBytes
<1> QED
  BY <1>1, <1>2

LEMMA CopySound ==
    ASSUME NEW c \in Sound, NEW start \in Nat, NEW s \in Seq(Byte), NEW at \in Nat, at >= 1,
           NEW n \in Nat
    PROVE  /\ Copy(c, start, s, at, n) \in Sound
           /\ Len(Copy(c, start, s, at, n).bytes) = Len(c.bytes)
<1> DEFINE Given(i) == IF i <= Len(s) THEN s[i] ELSE 0
           b == [o \in DOMAIN c.bytes |->
                    IF o - start \in 1 .. n THEN Given(at + o - start - 1) ELSE c.bytes[o]]
<1>1. ASSUME NEW o \in 1 .. Len(c.bytes)
      PROVE  (IF o - start \in 1 .. n THEN Given(at + o - start - 1) ELSE c.bytes[o]) \in Nat
  <2>1. CASE o - start \in 1 .. n
    <3>1. at + o - start - 1 \in Nat /\ at + o - start - 1 >= 1
      <4>1. o \in Nat /\ o - start >= 1
        BY <2>1, SoundFacts
      <4> QED
        BY <4>1
    <3> DEFINE k == at + o - start - 1
    <3> HIDE DEF k
    <3>2. k <= Len(s) => s[k] \in Byte
      BY <3>1 DEF k
    <3>3. Given(k) \in Nat
      BY <3>2, Tries DEF Byte
    <3> QED
      BY <2>1, <3>3 DEF k
  <2>2. CASE ~(o - start \in 1 .. n)
    BY <2>2, SoundFacts
  <2> QED
    BY <2>1, <2>2
<1>2. b \in Seq(Nat) /\ Len(b) = Len(c.bytes)
  <2>1. DOMAIN c.bytes = 1 .. Len(c.bytes) /\ Len(c.bytes) \in Nat
    BY SoundFacts
  <2>2. b \in [1 .. Len(c.bytes) -> Nat]
    BY <1>1, <2>1
  <2> QED
    BY <2>1, <2>2
<1>3. Copy(c, start, s, at, n) = [size |-> c.size, bytes |-> b, writable |-> c.writable]
  <2>1. Copy(c, start, s, at, n) = [c EXCEPT !.bytes = b]
    BY DEF Copy
  <2> HIDE DEF b
  <2> QED
    BY <2>1, WithBytes
<1> HIDE DEF b
<1> QED
  BY <1>2, <1>3, SoundFacts DEF Sound

-----------------------------------------------------------------------------
(* Deltas of chunks *)

Progress == {"reads", "ended", "threw"}

\* A reader of the blocks of a delta, which has reserved what the chunk will need.
Reading(size) ==
    {r \in [chunk : Sound, at : Nat, offset : Nat, state : Progress] :
        r.at >= 1 /\ size <= Len(r.chunk.bytes)}

LEMMA Stopped ==
    ASSUME NEW size \in Nat, NEW r \in Reading(size), NEW at \in Nat, at >= 1,
           NEW state \in Progress
    PROVE  Stop(r, at, state) \in Reading(size)
<1>1. r \in [chunk : Sound, at : Nat, offset : Nat, state : Progress]
  BY DEF Reading
<1>2. Stop(r, at, state) \in [chunk : Sound, at : Nat, offset : Nat, state : Progress]
  BY <1>1 DEF Stop
<1>3. Stop(r, at, state).chunk = r.chunk /\ Stop(r, at, state).at = at
  BY <1>1 DEF Stop
<1> QED
  BY <1>2, <1>3 DEF Reading

LEMMA BlockStep ==
    ASSUME NEW size \in Nat, NEW s \in Seq(Byte), NEW r \in Reading(size)
    PROVE  ApplyBlock(r, size, s, Len(s)) \in Reading(size)
<1> DEFINE end == Len(s)
           diff == Decode(VarUInt, s, r.at, end)
           found == Decode(VarUInt, s, diff.next, end)
           start == r.offset + diff.value - 1
           n == IF start + found.value <= size THEN found.value ELSE size - start
<1>1. /\ r.chunk \in Sound /\ r.at \in Nat /\ r.at >= 1 /\ r.offset \in Nat
      /\ r.state \in Progress /\ size <= Len(r.chunk.bytes)
  BY DEF Reading
<1>2. CASE r.state # "reads"
  BY <1>2 DEF ApplyBlock
<1>3. CASE r.state = "reads" /\ (r.at > end \/ ~HasCode(VarUInt, s, r.at, end))
  BY <1>1, <1>3, Stopped DEF ApplyBlock, Progress
<1>4. CASE r.state = "reads" /\ ~(r.at > end) /\ HasCode(VarUInt, s, r.at, end)
  <2>1. diff.value \in Nat /\ diff.next \in Nat /\ diff.next >= 1
    BY <1>1, <1>4, DecodeType
  <2>2. ApplyBlock(r, size, s, end) = SizeBlock(r, size, s, end, diff)
    BY <1>4 DEF ApplyBlock
  <2> HIDE DEF diff
  <2>3. CASE diff.value = 0 \/ ~HasCode(VarUInt, s, diff.next, end)
    BY <2>1, <2>2, <2>3, Stopped DEF SizeBlock, Progress
  <2>4. CASE diff.value # 0 /\ HasCode(VarUInt, s, diff.next, end)
    <3>1. found.value \in Nat /\ found.next \in Nat /\ found.next >= 1
      BY <2>1, <2>4, DecodeType
    <3>2. ApplyBlock(r, size, s, end) = PutBlock(r, size, s, start, found)
      BY <2>2, <2>4 DEF SizeBlock
    <3>3. start \in Nat
      BY <1>1, <2>1, <2>4
    <3> HIDE DEF found, start
    <3>4. CASE start + found.value > size /\ start >= size
      BY <3>1, <3>2, <3>4, Stopped DEF PutBlock, Progress
    <3>5. CASE ~(start + found.value > size /\ start >= size)
      <4>1. n \in Nat
        BY <3>1, <3>3, <3>5
      <4>2. PutBlock(r, size, s, start, found) =
                Reader(Copy(r.chunk, start, s, found.next, n), found.next + n, start + n, "reads")
        BY <3>5 DEF PutBlock
      <4> DEFINE c == Copy(r.chunk, start, s, found.next, n)
      <4> HIDE DEF n
      <4>3. c \in Sound /\ Len(c.bytes) = Len(r.chunk.bytes)
        BY <1>1, <3>1, <3>3, <4>1, CopySound
      <4> HIDE DEF c
      <4>4. found.next + n \in Nat /\ found.next + n >= 1 /\ start + n \in Nat
        BY <3>1, <3>3, <4>1
      <4>5. Reader(c, found.next + n, start + n, "reads") \in Reading(size)
        BY <1>1, <4>3, <4>4 DEF Reader, Reading, Progress
      <4> QED
        BY <3>2, <4>2, <4>5 DEF c
    <3> QED
      BY <3>4, <3>5
  <2> QED
    BY <2>3, <2>4
<1> QED
  BY <1>1, <1>2, <1>3, <1>4

LEMMA BlocksRead ==
    ASSUME NEW size \in Nat, NEW s \in Seq(Byte), NEW c \in Sound, size <= Len(c.bytes),
           NEW at \in Nat, at >= 1
    PROVE  ApplyBlocks(c, size, s, at, Len(s)) \in Reading(size)
<1> DEFINE N == Len(s)
           S == Reading(size)
           first == Reader(c, at, 0, "reads")
           Step(f, k) == IF k = 0 THEN first ELSE ApplyBlock(f[k - 1], size, s, N)
           read == CHOOSE f : f = [k \in 0 .. N |-> Step(f, k)]
           G == [p \in (1 .. N) \X S |-> ApplyBlock(p[2], size, s, N)]
<1>1. N \in Nat /\ first \in S
  BY DEF Reader, Reading, Progress
<1>2. \A r \in S : ApplyBlock(r, size, s, N) \in S
  BY BlockStep
<1> HIDE DEF first, N, S
<1>3. G \in [(1 .. N) \X S -> S]
  BY <1>2
<1>4. PICK f \in [0 .. N -> S] : Runs(f, N, first, G)
  <2> HIDE DEF G
  <2> QED
    BY <1>1, <1>3, RunExists
<1>5. f = [k \in 0 .. N |-> Step(f, k)]
  <2>1. ASSUME NEW k \in 0 .. N PROVE f[k] = Step(f, k)
    <3>1. CASE k = 0
      BY <1>4, <3>1 DEF Runs
    <3>2. CASE k # 0
      <4>1. k \in 1 .. N /\ k - 1 \in 0 .. N
        BY <1>1, <3>2
      <4>2. f[k] = G[<<k, f[k - 1]>>] /\ f[k - 1] \in S
        BY <1>4, <4>1 DEF Runs
      <4> QED
        BY <3>2, <4>1, <4>2
    <3> QED
      BY <3>1, <3>2
  <2> QED
    BY <2>1
<1> HIDE DEF G
<1>6. read = [k \in 0 .. N |-> Step(read, k)]
  BY <1>5
<1>7. ApplyBlocks(c, size, s, at, Len(s)) = read[N]
  BY DEF ApplyBlocks, first, N
<1> HIDE DEF read
<1>8. \A k \in 0 .. N : read[k] \in S
  <2>1. read[0] \in S
    BY <1>1, <1>6
  <2>2. ASSUME NEW k \in 1 .. N, read[k - 1] \in S PROVE read[k] \in S
    <3>1. read[k] = ApplyBlock(read[k - 1], size, s, N)
      <4>1. k \in 0 .. N /\ k # 0
        BY <1>1
      <4> QED
        BY <1>6, <4>1
    <3> QED
      BY <1>2, <2>2, <3>1
  <2> QED
    BY <1>1, <2>1, <2>2, RunStays
<1> QED
  BY <1>1, <1>7, <1>8 DEF S

\* A delta leaves a sound chunk, and one with nothing behind its size if it does not throw.
LEMMA DeltaApplied ==
    ASSUME NEW s \in Seq(Byte), NEW c \in Sound, NEW at \in Nat, at >= 1
    PROVE  LET r == ApplyDelta(c, s, at, Len(s))
           IN  /\ r.chunk \in Sound /\ r.at \in Nat /\ r.at >= 1
               /\ Tidy(c) /\ r.state # "threw" => Tidy(r.chunk)
<1> DEFINE end == Len(s)
           given == Decode(VarUInt, s, at, end)
           size == Xor(c.size, given.value)
           big == ReserveSpace(c, size)
           read == ApplyBlocks(big, size, s, given.next, end)
<1>1. CASE at > end
  BY <1>1 DEF ApplyDelta, Reader
<1>2. CASE ~(at > end) /\ ~HasCode(VarUInt, s, at, end)
  BY <1>2 DEF ApplyDelta, Reader
<1>3. CASE ~(at > end) /\ HasCode(VarUInt, s, at, end)
  <2>1. given.value \in Nat /\ given.next \in Nat /\ given.next >= 1
    BY <1>3, DecodeType
  <2>2. ApplyDelta(c, s, at, end) = Finished(read, size)
    BY <1>3 DEF ApplyDelta
  <2> HIDE DEF given
  <2>3. size \in Nat
    BY <2>1, XorType, SoundFacts
  <2> HIDE DEF size
  <2>4. big \in Sound /\ size <= Len(big.bytes)
    BY <2>3, ReserveSound
  <2> HIDE DEF big
  <2>5. read \in Reading(size)
    BY <2>1, <2>3, <2>4, BlocksRead
  <2> HIDE DEF read
  <2>6. /\ read.chunk \in Sound /\ read.at \in Nat /\ read.at >= 1 /\ size <= Len(read.chunk.bytes)
        /\ read = [chunk |-> read.chunk, at |-> read.at, offset |-> read.offset, state |-> read.state]
    BY <2>5 DEF Reading
  <2>7. CASE read.state = "threw"
    BY <2>2, <2>6, <2>7 DEF Finished
  <2>8. CASE read.state # "threw"
    <3> DEFINE d == [read.chunk EXCEPT !.size = size]
    <3>1. d = [size |-> size, bytes |-> read.chunk.bytes, writable |-> read.chunk.writable]
      BY <2>6 DEF Sound
    <3>2. d \in Sound /\ d.size = size /\ d.size <= Len(d.bytes)
      BY <2>3, <2>6, <3>1, SoundFacts DEF Sound
    <3> HIDE DEF d
    <3>3. ShrinkSpace(d) \in Sound /\ Tidy(ShrinkSpace(d))
      BY <2>3, <3>2, ResizeSound DEF ShrinkSpace
    <3>4. Finished(read, size) = [read EXCEPT !.chunk = ShrinkSpace(d)]
      BY <2>8 DEF Finished, d
    <3> DEFINE e == ShrinkSpace(d)
    <3> HIDE DEF e
    <3>5. Finished(read, size) = [chunk |-> e, at |-> read.at, offset |-> read.offset, state |-> read.state]
      BY <2>6, <3>4 DEF e
    <3> QED
      BY <2>2, <2>6, <3>3, <3>5 DEF e
  <2> QED
    BY <2>7, <2>8
<1> QED
  BY <1>1, <1>2, <1>3

-----------------------------------------------------------------------------
(* Sequences *)

LEMMA SetInSequence ==
    ASSUME NEW S, IsFiniteSet(S)
    PROVE  /\ SetToSeq(S) \in Seq(S)
           /\ \A x \in S : \E k \in DOMAIN SetToSeq(S) : SetToSeq(S)[k] = x
<1> DEFINE n == Cardinality(S)
           f == SetToSeq(S)
<1>1. n \in Nat /\ ExistsBijection(1 .. n, S)
  BY FS_CardinalityType
<1>2. PICK g : g \in Injection(1 .. n, S)
  BY <1>1 DEF ExistsBijection, Bijection
<1>3. g \in [1 .. n -> S] /\ IsInjective(g)
  BY <1>2 DEF Injection, IsInjective
<1>4. f \in [1 .. n -> S] /\ IsInjective(f)
  BY <1>3 DEF SetToSeq
<1> HIDE DEF f
<1>5. f \in Injection(1 .. n, S)
  BY <1>4 DEF Injection, IsInjective
<1>6. Cardinality(1 .. n) = n
  BY <1>1, FS_Interval
<1>7. f \in Surjection(1 .. n, S)
  BY <1>5, <1>6, FS_Injection
<1>8. \A x \in S : \E k \in 1 .. n : f[k] = x
  BY <1>7 DEF Surjection
<1>9. f \in Seq(S) /\ DOMAIN f = 1 .. n
  BY <1>1, <1>4
<1> QED
  BY <1>8, <1>9 DEF f

Has(s, x) == \E j \in DOMAIN s : s[j] = x

\* What is in one of two sequences is in both together.
LEMMA InConcat ==
    ASSUME NEW E, NEW s \in Seq(E), NEW t \in Seq(E), NEW x
    PROVE  Has(s \o t, x) <=> Has(s, x) \/ Has(t, x)
<1>1. Len(s) \in Nat /\ Len(t) \in Nat /\ DOMAIN s = 1 .. Len(s) /\ DOMAIN t = 1 .. Len(t)
  OBVIOUS
<1>2. /\ s \o t \in Seq(E) /\ Len(s \o t) = Len(s) + Len(t)
      /\ \A j \in 1 .. Len(s) + Len(t) :
            (s \o t)[j] = IF j <= Len(s) THEN s[j] ELSE t[j - Len(s)]
  BY ConcatProperties
<1>3. DOMAIN (s \o t) = 1 .. Len(s) + Len(t)
  BY <1>2
<1>4. ASSUME NEW j \in DOMAIN s PROVE j \in DOMAIN (s \o t) /\ (s \o t)[j] = s[j]
  BY <1>1, <1>2, <1>3
<1>5. ASSUME NEW j \in DOMAIN t PROVE \E m \in DOMAIN (s \o t) : (s \o t)[m] = t[j]
  <2>1. Len(s) + j \in DOMAIN (s \o t) /\ ~(Len(s) + j <= Len(s)) /\ (Len(s) + j) - Len(s) = j
    BY <1>1, <1>3
  <2> QED
    BY <1>2, <1>3, <2>1
<1>6. ASSUME NEW j \in DOMAIN (s \o t)
      PROVE  (\E m \in DOMAIN s : s[m] = (s \o t)[j]) \/ (\E m \in DOMAIN t : t[m] = (s \o t)[j])
  <2>1. CASE j <= Len(s)
    BY <1>1, <1>2, <1>3, <2>1
  <2>2. CASE ~(j <= Len(s))
    <3>1. j - Len(s) \in DOMAIN t
      BY <1>1, <1>3, <2>2
    <3> QED
      BY <1>2, <1>3, <2>2, <3>1
  <2> QED
    BY <2>1, <2>2
<1> QED
  BY <1>4, <1>5, <1>6 DEF Has

\* A part of the concatenation of some sequences.
FlatStep(seqs, flat, k) == IF k = 1 THEN seqs[k] ELSE flat[k - 1] \o seqs[k]

InParts(seqs, n, x) == \E i \in 1 .. n : Has(seqs[i], x)

Parts(E, seqs, n) ==
    {s \in Seq(E) : \A x \in E : Has(s, x) <=> InParts(seqs, n, x)}

LEMMA Flattened ==
    ASSUME NEW E, NEW seqs \in Seq(Seq(E))
    PROVE  FlattenSeq(seqs) \in Parts(E, seqs, Len(seqs))
<1> DEFINE n == Len(seqs)
           flat == CHOOSE f : f = [k \in 1 .. n |-> FlatStep(seqs, f, k)]
           G == [p \in (1 .. n - 1) \X Seq(E) |-> p[2] \o seqs[p[1] + 1]]
<1>1. n \in Nat /\ \A k \in 1 .. n : seqs[k] \in Seq(E)
  OBVIOUS
<1>2. CASE n = 0
  <2>1. FlattenSeq(seqs) = << >>
    BY <1>2, EmptySeq DEF FlattenSeq
  <2>2. \A x : ~InParts(seqs, n, x)
    BY <1>2 DEF InParts
  <2>3. << >> \in Seq(E) /\ \A x : ~Has(<< >>, x)
    BY EmptySeq DEF Has
  <2> QED
    BY <2>1, <2>2, <2>3 DEF Parts
<1>3. CASE n # 0
  <2>1. n - 1 \in Nat /\ 1 \in 1 .. n /\ n \in 1 .. n
    BY <1>1, <1>3
  <2>2. G \in [(1 .. n - 1) \X Seq(E) -> Seq(E)]
    <3>1. ASSUME NEW k \in 1 .. n - 1, NEW s \in Seq(E) PROVE s \o seqs[k + 1] \in Seq(E)
      <4>1. seqs[k + 1] \in Seq(E)
        BY <1>1
      <4> QED
        BY <4>1, ConcatProperties
    <3>2. \A p \in (1 .. n - 1) \X Seq(E) : p[1] \in 1 .. n - 1 /\ p[2] \in Seq(E)
      OBVIOUS
    <3> QED
      BY <3>1, <3>2
  <2>3. PICK g \in [0 .. n - 1 -> Seq(E)] : Runs(g, n - 1, seqs[1], G)
    <3>1. seqs[1] \in Seq(E)
      BY <1>1, <2>1
    <3> HIDE DEF G, n
    <3> QED
      BY <2>1, <2>2, <3>1, RunExists
  <2> DEFINE f == [k \in 1 .. n |-> g[k - 1]]
  <2>4. ASSUME NEW k \in 1 .. n PROVE g[k - 1] = FlatStep(seqs, f, k)
    <3>1. CASE k = 1
      BY <2>3, <3>1 DEF Runs, FlatStep
    <3>2. CASE k # 1
      <4>1. k - 1 \in 1 .. n - 1 /\ k - 1 \in 1 .. n /\ (k - 1) - 1 \in 0 .. n - 1 /\ (k - 1) + 1 = k
        BY <1>1, <3>2
      <4>2. g[k - 1] = G[<<k - 1, g[(k - 1) - 1]>>] /\ g[(k - 1) - 1] \in Seq(E)
        BY <2>3, <4>1 DEF Runs
      <4> DEFINE p == <<k - 1, g[(k - 1) - 1]>>
      <4>3. p \in (1 .. n - 1) \X Seq(E) /\ p[1] = k - 1 /\ p[2] = g[(k - 1) - 1]
        BY <4>1, <4>2
      <4>4. G[p] = g[(k - 1) - 1] \o seqs[(k - 1) + 1]
        BY <4>3
      <4>5. f[k - 1] = g[(k - 1) - 1]
        BY <4>1
      <4> HIDE DEF f, G
      <4> QED
        BY <3>2, <4>1, <4>2, <4>4, <4>5 DEF FlatStep
    <3> QED
      BY <3>1, <3>2
  <2>5. f = [k \in 1 .. n |-> FlatStep(seqs, f, k)]
    BY <2>4
  <2> HIDE DEF f, G
  <2>6. flat = [k \in 1 .. n |-> FlatStep(seqs, flat, k)]
    BY <2>5
  <2>7. FlattenSeq(seqs) = flat[n]
    BY <1>3 DEF FlattenSeq, FlatStep
  <2> HIDE DEF flat
  <2> DEFINE T == {k \in 0 .. n - 1 : flat[k + 1] \in Parts(E, seqs, k + 1)}
  <2>8. 0 \in T
    <3>1. flat[0 + 1] = seqs[1] /\ seqs[1] \in Seq(E)
      BY <1>1, <2>1, <2>6 DEF FlatStep
    <3>2. \A x : InParts(seqs, 0 + 1, x) <=> Has(seqs[1], x)
      BY DEF InParts
    <3> QED
      BY <2>1, <3>1, <3>2 DEF Parts
  <2>9. ASSUME NEW k \in 1 .. n - 1, k - 1 \in T PROVE k \in T
    <3>1. k \in 1 .. n /\ k + 1 \in 1 .. n /\ (k + 1) - 1 = k /\ (k - 1) + 1 = k /\ k + 1 # 1 /\ k \in 0 .. n - 1
      BY <1>1
    <3>2. flat[k + 1] = flat[k] \o seqs[k + 1] /\ flat[k] \in Parts(E, seqs, k)
      BY <2>6, <2>9, <3>1 DEF FlatStep
    <3> DEFINE s == flat[k]
               t == seqs[k + 1]
    <3>3. s \in Seq(E) /\ t \in Seq(E) /\ Len(s) \in Nat /\ Len(t) \in Nat
      BY <1>1, <3>1, <3>2 DEF Parts
    <3> HIDE DEF s, t
    <3>4. s \o t \in Seq(E)
      BY <3>3, ConcatProperties
    <3>5. ASSUME NEW x
          PROVE  Has(s \o t, x) <=> Has(s, x) \/ Has(t, x)
      BY <3>3, InConcat
    <3>6. ASSUME NEW x
          PROVE  InParts(seqs, k + 1, x) <=> InParts(seqs, k, x) \/ Has(t, x)
      <4>1. \A i : i \in 1 .. k + 1 <=> i \in 1 .. k \/ i = k + 1
        BY <3>1
      <4> QED
        BY <4>1 DEF InParts, t
    <3>7. \A x \in E : Has(s, x) <=> InParts(seqs, k, x)
      BY <3>2 DEF Parts, s
    <3>8. s \o t \in Parts(E, seqs, k + 1)
      BY <3>4, <3>5, <3>6, <3>7 DEF Parts
    <3> QED
      BY <3>1, <3>2, <3>8 DEF s, t
  <2> HIDE DEF T
  <2>10. \A k \in 0 .. n - 1 : k \in T
    BY <2>1, <2>8, <2>9, CountUp
  <2>11. n - 1 \in T /\ (n - 1) + 1 = n
    BY <2>1, <2>10
  <2> QED
    BY <2>7, <2>11 DEF T
<1> QED
  BY <1>2, <1>3

-----------------------------------------------------------------------------
(* Deltas of pages *)

Ids == Seq(Byte) \cup PageIds

MigrantType == [id : Ids, chunk : Nat]

MigrantReader ==
    [migrants : Seq(MigrantType), objects : Seq(Sound), at : Nat, index : Nat, state : Progress]

\* What the ids of a delta may leave of some migrants and some chunks: those that were there
\* keep their chunks, and what is added has the chunks that are made, one after the other.
Grown(m, o, migrants, objects) ==
    /\ Len(m) <= Len(migrants)
    /\ Len(objects) = Len(o) + (Len(migrants) - Len(m))
    /\ \A k \in 1 .. Len(m) : migrants[k].chunk = m[k].chunk
    /\ \A k \in Len(m) + 1 .. Len(migrants) : migrants[k].chunk = Len(o) + (k - Len(m))
    /\ \A k \in 1 .. Len(o) : objects[k] = o[k]
    /\ \A k \in Len(o) + 1 .. Len(objects) : objects[k] = NewChunk

Naming(m, o) == {r \in MigrantReader : r.at >= 1 /\ Grown(m, o, r.migrants, r.objects)}

LEMMA NamingStopped ==
    ASSUME NEW m, NEW o, NEW r \in Naming(m, o),
           NEW at \in Nat, at >= 1, NEW state \in Progress
    PROVE  Stop(r, at, state) \in Naming(m, o)
<1>1. r \in MigrantReader /\ Grown(m, o, r.migrants, r.objects)
  BY DEF Naming
<1>2. Stop(r, at, state) \in MigrantReader
  BY <1>1 DEF Stop, MigrantReader
<1>3. /\ Stop(r, at, state).migrants = r.migrants /\ Stop(r, at, state).objects = r.objects
      /\ Stop(r, at, state).at = at
  BY <1>1 DEF Stop, MigrantReader
<1> QED
  BY <1>1, <1>2, <1>3 DEF Naming

\* A migrant more, with a chunk of its own.
LEMMA GrownByOne ==
    ASSUME NEW m \in Seq(MigrantType), NEW o \in Seq(Sound),
           NEW mm \in Seq(MigrantType), NEW oo \in Seq(Sound), Grown(m, o, mm, oo),
           NEW new \in MigrantType, new.chunk = Len(oo) + 1
    PROVE  Grown(m, o, Append(mm, new), Append(oo, NewChunk))
<1> DEFINE m2 == Append(mm, new)
           o2 == Append(oo, NewChunk)
<1>1. Len(m) \in Nat /\ Len(o) \in Nat /\ Len(mm) \in Nat /\ Len(oo) \in Nat
  OBVIOUS
<1>2. Len(m) <= Len(mm) /\ Len(oo) = Len(o) + (Len(mm) - Len(m))
  BY DEF Grown
<1>3. /\ Len(m2) = Len(mm) + 1 /\ m2[Len(mm) + 1] = new
      /\ \A k \in 1 .. Len(mm) : m2[k] = mm[k]
  BY AppendProperties
<1>4. /\ Len(o2) = Len(oo) + 1 /\ o2[Len(oo) + 1] = NewChunk
      /\ \A k \in 1 .. Len(oo) : o2[k] = oo[k]
  BY AppendProperties, NewChunkSound
<1> HIDE DEF m2, o2
<1>5. Len(m) <= Len(m2) /\ Len(o2) = Len(o) + (Len(m2) - Len(m))
  BY <1>1, <1>2, <1>3, <1>4
<1>6. ASSUME NEW k \in 1 .. Len(m) PROVE m2[k].chunk = m[k].chunk
  <2>1. k \in 1 .. Len(mm)
    BY <1>1, <1>2
  <2> QED
    BY <1>3, <2>1 DEF Grown
<1>7. ASSUME NEW k \in Len(m) + 1 .. Len(m2) PROVE m2[k].chunk = Len(o) + (k - Len(m))
  <2>1. CASE k = Len(mm) + 1
    BY <1>1, <1>2, <1>3, <2>1
  <2>2. CASE k # Len(mm) + 1
    <3>1. k \in Len(m) + 1 .. Len(mm) /\ k \in 1 .. Len(mm)
      BY <1>1, <1>3, <2>2
    <3> QED
      BY <1>3, <3>1 DEF Grown
  <2> QED
    BY <2>1, <2>2
<1>8. ASSUME NEW k \in 1 .. Len(o) PROVE o2[k] = o[k]
  <2>1. k \in 1 .. Len(oo)
    BY <1>1, <1>2
  <2> QED
    BY <1>4, <2>1 DEF Grown
<1>9. ASSUME NEW k \in Len(o) + 1 .. Len(o2) PROVE o2[k] = NewChunk
  <2>1. CASE k = Len(oo) + 1
    BY <1>4, <2>1
  <2>2. CASE k # Len(oo) + 1
    <3>1. k \in Len(o) + 1 .. Len(oo) /\ k \in 1 .. Len(oo)
      BY <1>1, <1>4, <2>2
    <3> QED
      BY <1>4, <3>1 DEF Grown
  <2> QED
    BY <2>1, <2>2
<1> QED
  BY <1>5, <1>6, <1>7, <1>8, <1>9 DEF Grown, m2, o2

\* Another id for a migrant.
LEMMA GrownRenamed ==
    ASSUME NEW m \in Seq(MigrantType), NEW o \in Seq(Sound),
           NEW mm \in Seq(MigrantType), NEW oo \in Seq(Sound), Grown(m, o, mm, oo),
           NEW i \in 1 .. Len(mm), NEW new \in MigrantType, new.chunk = mm[i].chunk
    PROVE  /\ [mm EXCEPT ![i] = new] \in Seq(MigrantType)
           /\ Grown(m, o, [mm EXCEPT ![i] = new], oo)
<1> DEFINE m2 == [mm EXCEPT ![i] = new]
<1>1. Len(m) \in Nat /\ Len(o) \in Nat /\ Len(mm) \in Nat /\ Len(oo) \in Nat
  OBVIOUS
<1>2. Len(m) <= Len(mm)
  BY DEF Grown
<1>3. /\ m2 \in Seq(MigrantType) /\ Len(m2) = Len(mm)
      /\ \A k \in 1 .. Len(mm) : m2[k] = IF k = i THEN new ELSE mm[k]
  BY ExceptSeq
<1> HIDE DEF m2
<1>4. \A k \in 1 .. Len(mm) : m2[k].chunk = mm[k].chunk
  BY <1>3
<1>5. \A k \in 1 .. Len(m) : k \in 1 .. Len(mm)
  BY <1>1, <1>2
<1>6. \A k \in Len(m) + 1 .. Len(mm) : k \in 1 .. Len(mm)
  BY <1>1
<1>7. \A k \in 1 .. Len(m) : m2[k].chunk = m[k].chunk
  BY <1>4, <1>5 DEF Grown
<1>8. \A k \in Len(m) + 1 .. Len(m2) : m2[k].chunk = Len(o) + (k - Len(m))
  BY <1>3, <1>4, <1>6 DEF Grown
<1> QED
  BY <1>3, <1>7, <1>8 DEF Grown, m2

LEMMA PutNaming ==
    ASSUME NEW m \in Seq(MigrantType), NEW o \in Seq(Sound), NEW r \in Naming(m, o),
           NEW id, id.value \in Ids, id.next \in Nat, id.next >= 1,
           NEW i \in Nat, i >= 1, i <= Len(r.migrants) + 1
    PROVE  PutMigrant(r, id, i) \in Naming(m, o)
<1> DEFINE mm == r.migrants
           oo == r.objects
           put == PutMigrant(r, id, i)
<1>1. r \in MigrantReader /\ mm \in Seq(MigrantType) /\ oo \in Seq(Sound) /\ Grown(m, o, mm, oo)
  BY DEF Naming, MigrantReader
<1>2. Len(mm) \in Nat /\ Len(oo) \in Nat
  BY <1>1
<1>3. CASE i = Len(mm) + 1
  <2> DEFINE new == Migrant(id.value, Len(oo) + 1)
             m2 == Append(mm, new)
             o2 == Append(oo, NewChunk)
  <2>1. put = [r EXCEPT !.migrants = m2, !.objects = o2, !.at = id.next, !.index = i]
    BY <1>3 DEF PutMigrant
  <2>2. new \in MigrantType /\ new.chunk = Len(oo) + 1
    BY <1>2 DEF Migrant, MigrantType
  <2>3. m2 \in Seq(MigrantType) /\ o2 \in Seq(Sound) /\ Grown(m, o, m2, o2)
    <3> HIDE DEF mm, oo, new
    <3> QED
      BY <1>1, <2>2, GrownByOne, NewChunkSound, AppendProperties
  <2> HIDE DEF m2, o2, put
  <2>4. put \in MigrantReader
    BY <1>1, <2>1, <2>3 DEF MigrantReader
  <2>5. put.migrants = m2 /\ put.objects = o2 /\ put.at = id.next
    BY <1>1, <2>1 DEF MigrantReader
  <2>6. put \in Naming(m, o)
    BY <2>3, <2>4, <2>5 DEF Naming
  <2> QED
    BY <2>6 DEF put
<1>4. CASE i # Len(mm) + 1
  <2>1. i \in 1 .. Len(mm) /\ mm[i] \in MigrantType
    BY <1>1, <1>2, <1>4
  <2> DEFINE new == [mm[i] EXCEPT !.id = id.value]
             m2 == [mm EXCEPT ![i] = new]
  <2>2. new \in MigrantType /\ new.chunk = mm[i].chunk
    BY <2>1 DEF MigrantType
  <2>3. put = [r EXCEPT !.migrants = [mm EXCEPT ![i] = new], !.at = id.next, !.index = i]
    BY <1>4 DEF PutMigrant
  <2>4. m2 \in Seq(MigrantType) /\ Grown(m, o, m2, oo)
    <3> HIDE DEF mm, oo, new
    <3> QED
      BY <1>1, <2>1, <2>2, GrownRenamed
  <2>5. put = [r EXCEPT !.migrants = m2, !.at = id.next, !.index = i]
    BY <2>3
  <2> HIDE DEF m2, put
  <2>6. put \in MigrantReader
    BY <1>1, <2>4, <2>5 DEF MigrantReader
  <2>7. put.migrants = m2 /\ put.objects = oo /\ put.at = id.next
    BY <1>1, <2>5 DEF MigrantReader
  <2>8. put \in Naming(m, o)
    BY <2>4, <2>6, <2>7 DEF Naming
  <2> QED
    BY <2>8 DEF put
<1> QED
  BY <1>3, <1>4

LEMMA MigrantStep ==
    ASSUME NEW m \in Seq(MigrantType), NEW o \in Seq(Sound), NEW s \in Seq(Byte),
           NEW r \in Naming(m, o)
    PROVE  ReadMigrant(r, s) \in Naming(m, o)
<1> DEFINE diff == Decode(VarUInt, s, r.at, Len(s))
           next == r.index + diff.value
           id == ReadId(s, diff.next, Len(s))
           Throws == \/ ~HasId(s, diff.next, Len(s))
                     \/ next # Len(r.migrants) + 1 /\ (next > Len(r.migrants) \/ s[diff.next] = 0)
<1>1. /\ r.at \in Nat /\ r.at >= 1 /\ r.index \in Nat /\ Len(r.migrants) \in Nat
      /\ "ended" \in Progress /\ "threw" \in Progress
  BY DEF Naming, MigrantReader, Progress
<1>2. CASE r.state # "reads"
  BY <1>2 DEF ReadMigrant
<1>3. CASE r.state = "reads" /\ ~HasCode(VarUInt, s, r.at, Len(s))
  BY <1>1, <1>3, NamingStopped DEF ReadMigrant
<1>4. CASE r.state = "reads" /\ HasCode(VarUInt, s, r.at, Len(s))
  <2>1. diff.value \in Nat /\ diff.next \in Nat /\ diff.next >= 1
    BY <1>1, <1>4, DecodeType
  <2>2. ReadMigrant(r, s) = NameMigrant(r, s, diff)
    BY <1>4 DEF ReadMigrant
  <2> HIDE DEF diff
  <2>3. CASE diff.value = 0 \/ Throws
    BY <1>1, <2>1, <2>2, <2>3, NamingStopped DEF NameMigrant
  <2>4. CASE diff.value # 0 /\ ~Throws
    <3>1. ReadMigrant(r, s) = PutMigrant(r, id, next)
      BY <2>2, <2>4 DEF NameMigrant
    <3>2. HasId(s, diff.next, Len(s))
      BY <2>4
    <3>3. id.next \in Nat /\ id.next >= 1
      BY <2>1, <3>2, ReadIdType
    <3>4. id.value \in Ids
      BY <2>1, <3>2, ReadIdType DEF Ids
    <3>5. next \in Nat /\ next >= 1 /\ next <= Len(r.migrants) + 1
      <4>1. next \in Nat /\ next >= 1
        BY <1>1, <2>1, <2>4
      <4>2. next = Len(r.migrants) + 1 \/ ~(next > Len(r.migrants))
        BY <2>4
      <4> HIDE DEF next
      <4> QED
        BY <1>1, <4>1, <4>2
    <3> HIDE DEF id, next
    <3> QED
      BY <3>1, <3>3, <3>4, <3>5, PutNaming
  <2> QED
    BY <2>3, <2>4
<1> QED
  BY <1>2, <1>3, <1>4

LEMMA MigrantsRead ==
    ASSUME NEW m \in Seq(MigrantType), NEW o \in Seq(Sound), NEW s \in Seq(Byte)
    PROVE  ReadMigrants(m, o, s) \in Naming(m, o)
<1> DEFINE N == Len(s)
           S == Naming(m, o)
           first == [migrants |-> m, objects |-> o, at |-> 1, index |-> 0, state |-> "reads"]
           Step(f, k) == IF k = 0 THEN first ELSE ReadMigrant(f[k - 1], s)
           read == CHOOSE f : f = [k \in 0 .. N |-> Step(f, k)]
           G == [p \in (1 .. N) \X S |-> ReadMigrant(p[2], s)]
<1>1. N \in Nat /\ first \in S
  <2>1. Grown(m, o, m, o)
    <3>1. Len(m) \in Nat /\ Len(o) \in Nat
      OBVIOUS
    <3> QED
      BY <3>1 DEF Grown
  <2>2. first \in MigrantReader
    BY DEF MigrantReader, Progress
  <2> QED
    BY <2>1, <2>2 DEF Naming
<1>2. \A r \in S : ReadMigrant(r, s) \in S
  BY MigrantStep
<1> HIDE DEF first, N, S
<1>3. G \in [(1 .. N) \X S -> S]
  BY <1>2
<1>4. PICK f \in [0 .. N -> S] : Runs(f, N, first, G)
  <2> HIDE DEF G
  <2> QED
    BY <1>1, <1>3, RunExists
<1>5. f = [k \in 0 .. N |-> Step(f, k)]
  <2>1. ASSUME NEW k \in 0 .. N PROVE f[k] = Step(f, k)
    <3>1. CASE k = 0
      BY <1>4, <3>1 DEF Runs
    <3>2. CASE k # 0
      <4>1. k \in 1 .. N /\ k - 1 \in 0 .. N
        BY <1>1, <3>2
      <4>2. f[k] = G[<<k, f[k - 1]>>] /\ f[k - 1] \in S
        BY <1>4, <4>1 DEF Runs
      <4> QED
        BY <3>2, <4>1, <4>2
    <3> QED
      BY <3>1, <3>2
  <2> QED
    BY <2>1
<1> HIDE DEF G
<1>6. read = [k \in 0 .. N |-> Step(read, k)]
  BY <1>5
<1>7. ReadMigrants(m, o, s) = read[N]
  BY DEF ReadMigrants, first, N
<1> HIDE DEF read
<1>8. \A k \in 0 .. N : read[k] \in S
  <2>1. read[0] \in S
    BY <1>1, <1>6
  <2>2. ASSUME NEW k \in 1 .. N, read[k - 1] \in S PROVE read[k] \in S
    <3>1. read[k] = ReadMigrant(read[k - 1], s)
      <4>1. k \in 0 .. N /\ k # 0
        BY <1>1
      <4> QED
        BY <1>6, <4>1
    <3> QED
      BY <1>2, <2>2, <3>1
  <2> QED
    BY <1>1, <2>1, <2>2, RunStays
<1> QED
  BY <1>1, <1>7, <1>8 DEF S

TidyBut(objects, S) == \A c \in 1 .. Len(objects) : c \notin S => Tidy(objects[c])

\* What the deltas of a page's chunks may leave: as many chunks, sound ones, the same where
\* the page has no chunk, and with nothing new behind their sizes if nothing threw.
ChunkReader(o, refs) ==
    {r \in [objects : Seq(Sound), at : Nat, threw : BOOLEAN] :
        /\ r.at >= 1 /\ Len(r.objects) = Len(o)
        /\ \A c \in 1 .. Len(o) :
              /\ Tidy(o[c]) /\ ~r.threw => Tidy(r.objects[c])
              /\ (\A k \in 1 .. Len(refs) : refs[k] # c) => r.objects[c] = o[c]}

LEMMA ChunkStep ==
    ASSUME NEW s \in Seq(Byte), NEW o \in Seq(Sound), NEW refs \in Seq(1 .. Len(o)),
           NEW r \in ChunkReader(o, refs), NEW j \in 1 .. Len(refs)
    PROVE  ReadChunk(r, refs[j], s) \in ChunkReader(o, refs)
<1> DEFINE c == refs[j]
           x == ApplyDelta(r.objects[c], s, r.at, Len(s))
           after == [r.objects EXCEPT ![c] = x.chunk]
           Other(k) == \A i \in 1 .. Len(refs) : refs[i] # k
<1>1. /\ r.objects \in Seq(Sound) /\ r.at \in Nat /\ r.at >= 1 /\ Len(r.objects) = Len(o)
      /\ \A k \in 1 .. Len(o) :
            /\ Tidy(o[k]) /\ ~r.threw => Tidy(r.objects[k])
            /\ Other(k) => r.objects[k] = o[k]
      /\ r.threw \in BOOLEAN
  BY DEF ChunkReader
<1>2. c \in 1 .. Len(o) /\ ~Other(c)
  OBVIOUS
<1>3. CASE r.threw
  BY <1>3 DEF ReadChunk
<1>4. CASE ~r.threw
  <2>1. r.objects[c] \in Sound
    BY <1>1, <1>2
  <2>2. /\ x.chunk \in Sound /\ x.at \in Nat /\ x.at >= 1
        /\ Tidy(r.objects[c]) /\ x.state # "threw" => Tidy(x.chunk)
    BY <1>1, <2>1, DeltaApplied
  <2>3. ReadChunk(r, c, s) = [objects |-> after, at |-> x.at, threw |-> x.state = "threw"]
    BY <1>4 DEF ReadChunk
  <2> HIDE DEF x
  <2>4. /\ after \in Seq(Sound) /\ Len(after) = Len(o)
        /\ \A k \in 1 .. Len(o) : after[k] = IF k = c THEN x.chunk ELSE r.objects[k]
    BY <1>1, <1>2, <2>2, ExceptSeq
  <2> HIDE DEF after, c, Other
  <2> DEFINE threw == x.state = "threw"
  <2>5. ASSUME NEW k \in 1 .. Len(o)
        PROVE  /\ Tidy(o[k]) /\ ~threw => Tidy(after[k])
               /\ Other(k) => after[k] = o[k]
    <3>1. CASE k = c
      <4>1. after[k] = x.chunk /\ ~Other(k)
        BY <1>2, <2>4, <3>1
      <4>2. Tidy(o[k]) => Tidy(r.objects[k])
        BY <1>1, <1>4
      <4> QED
        BY <2>2, <3>1, <4>1, <4>2
    <3>2. CASE k # c
      <4>1. after[k] = r.objects[k]
        BY <2>4, <3>2
      <4>2. /\ Tidy(o[k]) => Tidy(r.objects[k])
            /\ Other(k) => r.objects[k] = o[k]
        BY <1>1, <1>4
      <4> QED
        BY <4>1, <4>2
    <3> QED
      BY <3>1, <3>2
  <2>6. threw \in BOOLEAN
    OBVIOUS
  <2>7. ReadChunk(r, c, s) = [objects |-> after, at |-> x.at, threw |-> threw]
    BY <2>3
  <2> HIDE DEF threw
  <2>8. [objects |-> after, at |-> x.at, threw |-> threw] \in ChunkReader(o, refs)
    BY <2>2, <2>4, <2>5, <2>6 DEF ChunkReader, Other
  <2> QED
    BY <2>7, <2>8 DEF c
<1> QED
  BY <1>1, <1>3, <1>4

LEMMA ChunksRead ==
    ASSUME NEW o \in Seq(Sound), NEW refs \in Seq(1 .. Len(o)), NEW s \in Seq(Byte),
           NEW at \in Nat, at >= 1
    PROVE  ReadChunks(refs, o, s, at) \in ChunkReader(o, refs)
<1> DEFINE N == Len(refs)
           S == ChunkReader(o, refs)
           first == [objects |-> o, at |-> at, threw |-> FALSE]
           Step(f, k) == IF k = 0 THEN first ELSE ReadChunk(f[k - 1], refs[k], s)
           read == CHOOSE f : f = [k \in 0 .. N |-> Step(f, k)]
           G == [p \in (1 .. N) \X S |-> ReadChunk(p[2], refs[p[1]], s)]
<1>1. N \in Nat /\ first \in S
  BY DEF ChunkReader
<1>2. ASSUME NEW r \in S, NEW k \in 1 .. N PROVE ReadChunk(r, refs[k], s) \in S
  BY ChunkStep
<1> HIDE DEF first, N, S
<1>3. G \in [(1 .. N) \X S -> S]
  <2>1. ASSUME NEW p \in (1 .. N) \X S PROVE ReadChunk(p[2], refs[p[1]], s) \in S
    <3>1. p[1] \in 1 .. N /\ p[2] \in S
      OBVIOUS
    <3> QED
      BY <1>2, <3>1
  <2> QED
    BY <2>1
<1>4. PICK f \in [0 .. N -> S] : Runs(f, N, first, G)
  <2> HIDE DEF G
  <2> QED
    BY <1>1, <1>3, RunExists
<1>5. f = [k \in 0 .. N |-> Step(f, k)]
  <2>1. ASSUME NEW k \in 0 .. N PROVE f[k] = Step(f, k)
    <3>1. CASE k = 0
      BY <1>4, <3>1 DEF Runs
    <3>2. CASE k # 0
      <4>1. k \in 1 .. N /\ k - 1 \in 0 .. N
        BY <1>1, <3>2
      <4>2. f[k] = G[<<k, f[k - 1]>>] /\ f[k - 1] \in S
        BY <1>4, <4>1 DEF Runs
      <4> DEFINE p == <<k, f[k - 1]>>
      <4>3. p \in (1 .. N) \X S /\ p[1] = k /\ p[2] = f[k - 1]
        BY <4>1, <4>2
      <4>4. G[p] = ReadChunk(f[k - 1], refs[k], s)
        BY <4>3
      <4> HIDE DEF G
      <4> QED
        BY <3>2, <4>2, <4>4
    <3> QED
      BY <3>1, <3>2
  <2> QED
    BY <2>1
<1> HIDE DEF G
<1>6. read = [k \in 0 .. N |-> Step(read, k)]
  BY <1>5
<1>7. ReadChunks(refs, o, s, at) = read[N]
  BY DEF ReadChunks, first, N
<1> HIDE DEF read
<1>8. \A k \in 0 .. N : read[k] \in S
  <2>1. read[0] \in S
    BY <1>1, <1>6
  <2>2. ASSUME NEW k \in 1 .. N, read[k - 1] \in S PROVE read[k] \in S
    <3>1. read[k] = ReadChunk(read[k - 1], refs[k], s)
      <4>1. k \in 0 .. N /\ k # 0
        BY <1>1
      <4> QED
        BY <1>6, <4>1
    <3> QED
      BY <1>2, <2>2, <3>1
  <2> QED
    BY <1>1, <2>1, <2>2, RunStays
<1> QED
  BY <1>1, <1>7, <1>8 DEF S

-----------------------------------------------------------------------------
(* Pages *)

CachedPage == [version : Versions, native : Nat, migrants : Seq(MigrantType)]

\* The chunks of a page are among the first n.
Within(page, n) ==
    /\ page.native \in 1 .. n
    /\ \A k \in 1 .. Len(page.migrants) : page.migrants[k].chunk \in 1 .. n

LEMMA PageChunks ==
    ASSUME NEW page \in CachedPage
    PROVE  /\ DOMAIN ChunksOf(page) = 1 .. Len(page.migrants) + 1
           /\ Len(page.migrants) \in Nat
           /\ ChunksOf(page)[1] = page.native
           /\ \A k \in 1 .. Len(page.migrants) : ChunksOf(page)[k + 1] = page.migrants[k].chunk
           /\ \A k \in 2 .. Len(page.migrants) + 1 :
                 ChunksOf(page)[k] = page.migrants[k - 1].chunk /\ k - 1 \in 1 .. Len(page.migrants)
           /\ \A n \in Nat : Within(page, n) => ChunksOf(page) \in Seq(1 .. n)
<1> DEFINE m == page.migrants
           a == <<page.native>>
           b == [k \in DOMAIN m |-> m[k].chunk]
<1>1. m \in Seq(MigrantType) /\ page.native \in Nat /\ Len(m) \in Nat /\ DOMAIN m = 1 .. Len(m)
  BY DEF CachedPage
<1>2. ASSUME NEW E, page.native \in E, \A k \in 1 .. Len(m) : m[k].chunk \in E
      PROVE  /\ ChunksOf(page) \in Seq(E) /\ Len(ChunksOf(page)) = 1 + Len(m)
             /\ ChunksOf(page)[1] = page.native
             /\ \A k \in 1 .. Len(m) : ChunksOf(page)[k + 1] = m[k].chunk
  <2>1. a \in Seq(E) /\ Len(a) = 1 /\ a[1] = page.native
    BY <1>2
  <2>2. b \in [1 .. Len(m) -> E]
    BY <1>1, <1>2
  <2>3. b \in Seq(E) /\ Len(b) = Len(m) /\ \A k \in 1 .. Len(m) : b[k] = m[k].chunk
    BY <1>1, <2>2
  <2>4. ChunksOf(page) = a \o b
    BY DEF ChunksOf
  <2> HIDE DEF a, b
  <2>5. /\ a \o b \in Seq(E) /\ Len(a \o b) = Len(a) + Len(b)
        /\ \A k \in 1 .. Len(a) + Len(b) : (a \o b)[k] = IF k <= Len(a) THEN a[k] ELSE b[k - Len(a)]
    BY <2>1, <2>3, ConcatProperties
  <2> HIDE DEF m
  <2>6. ASSUME NEW k \in 1 .. Len(m) PROVE (a \o b)[k + 1] = m[k].chunk
    <3>1. k + 1 \in 1 .. 1 + Len(m) /\ ~(k + 1 <= 1) /\ (k + 1) - 1 = k
      BY <1>1
    <3> QED
      BY <2>1, <2>3, <2>5, <3>1
  <2>7. (a \o b)[1] = page.native
    <3>1. 1 \in 1 .. 1 + Len(m)
      BY <1>1
    <3> QED
      BY <2>1, <2>3, <2>5, <3>1
  <2> QED
    BY <2>1, <2>3, <2>4, <2>5, <2>6, <2>7 DEF m
<1>3. ASSUME NEW k \in 1 .. Len(m) PROVE m[k].chunk \in Nat
  <2>1. m[k] \in MigrantType
    BY <1>1
  <2> QED
    BY <2>1 DEF MigrantType
<1>4. /\ ChunksOf(page) \in Seq(Nat) /\ Len(ChunksOf(page)) = 1 + Len(m)
      /\ ChunksOf(page)[1] = page.native
      /\ \A k \in 1 .. Len(m) : ChunksOf(page)[k + 1] = m[k].chunk
  BY <1>1, <1>2, <1>3
<1>5. DOMAIN ChunksOf(page) = 1 .. Len(m) + 1
  BY <1>1, <1>4
<1>6. ASSUME NEW k \in 2 .. Len(m) + 1
      PROVE  ChunksOf(page)[k] = m[k - 1].chunk /\ k - 1 \in 1 .. Len(m)
  <2>1. k - 1 \in 1 .. Len(m) /\ (k - 1) + 1 = k
    BY <1>1
  <2> QED
    BY <1>4, <2>1
<1>7. ASSUME NEW n \in Nat, Within(page, n) PROVE ChunksOf(page) \in Seq(1 .. n)
  BY <1>2, <1>7 DEF Within
<1> QED
  BY <1>1, <1>4, <1>5, <1>6, <1>7

\* A page has a chunk.
Holds(page, c) == \E i \in DOMAIN ChunksOf(page) : ChunksOf(page)[i] = c

\* What a delta may leave of a page and the chunks: the page keeps what it has, and what it
\* gets are chunks of its own, made for it; the chunks of other pages stay as they are.
Updated(page, objects, next, nextObjects) ==
    /\ next \in CachedPage /\ nextObjects \in Seq(Sound)
    /\ next.native = page.native /\ next.version = page.version
    /\ Len(objects) <= Len(nextObjects)
    /\ Len(page.migrants) <= Len(next.migrants)
    /\ \A k \in 1 .. Len(page.migrants) : next.migrants[k].chunk = page.migrants[k].chunk
    /\ \A k \in Len(page.migrants) + 1 .. Len(next.migrants) :
            next.migrants[k].chunk = Len(objects) + (k - Len(page.migrants))
    /\ Within(next, Len(nextObjects))
    /\ \A c \in 1 .. Len(objects) :
          /\ ~Holds(page, c) => nextObjects[c] = objects[c]
          /\ Holds(next, c) => Holds(page, c)

LEMMA DeltaOnPage ==
    ASSUME NEW o \in Seq(Sound), NEW page \in CachedPage, Within(page, Len(o)),
           NEW s \in Seq(Byte)
    PROVE  LET a == AppliedTo(page, o, s)
           IN  /\ Updated(page, o, a.page, a.objects) /\ a.threw \in BOOLEAN
               /\ \A c \in 1 .. Len(a.objects) :
                     ~a.threw /\ (c <= Len(o) => Tidy(o[c])) => Tidy(a.objects[c])
               /\ \A S : TidyBut(o, S) /\ ~a.threw => TidyBut(a.objects, S)
               /\ \A c \in 1 .. Len(a.objects) :
                     ~Holds(a.page, c) => c <= Len(o) /\ a.objects[c] = o[c]
<1> DEFINE a == AppliedTo(page, o, s)
           ids == ReadMigrants(page.migrants, o, s)
           mm == ids.migrants
           oo == ids.objects
           named == [page EXCEPT !.migrants = mm]
           read == ReadChunks(ChunksOf(named), oo, s, ids.at)
           m == page.migrants
<1>1. m \in Seq(MigrantType) /\ page.native \in Nat /\ page.version \in Versions
  BY DEF CachedPage
<1>2. ids \in Naming(m, o)
  BY <1>1, MigrantsRead
<1>3. /\ a = IF ids.state = "threw" THEN [page |-> named, objects |-> oo, threw |-> TRUE]
             ELSE [page |-> named, objects |-> read.objects, threw |-> read.threw]
  BY DEF AppliedTo
<1> HIDE DEF ids
<1>4. mm \in Seq(MigrantType) /\ oo \in Seq(Sound) /\ Grown(m, o, mm, oo)
      /\ ids.at \in Nat /\ ids.at >= 1
  BY <1>2 DEF Naming, MigrantReader
<1>5. named \in CachedPage /\ named.migrants = mm /\ named.native = page.native
      /\ named.version = page.version
  BY <1>1, <1>4 DEF CachedPage
<1> HIDE DEF mm, oo, m, named, a
<1>6. Len(m) \in Nat /\ Len(mm) \in Nat /\ Len(oo) \in Nat /\ Len(o) \in Nat
  BY <1>1, <1>4
<1>7. Len(m) <= Len(mm) /\ Len(oo) = Len(o) + (Len(mm) - Len(m))
  BY <1>4 DEF Grown
<1>8. Within(named, Len(oo))
  <2>1. page.native \in 1 .. Len(oo)
    BY <1>6, <1>7 DEF Within
  <2>2. ASSUME NEW k \in 1 .. Len(mm) PROVE mm[k].chunk \in 1 .. Len(oo)
    <3>1. CASE k <= Len(m)
      <4>1. k \in 1 .. Len(m)
        BY <1>6, <3>1
      <4>2. mm[k].chunk = m[k].chunk
        BY <1>4, <4>1 DEF Grown
      <4>3. m[k].chunk \in 1 .. Len(o)
        BY <4>1 DEF Within, m
      <4> QED
        BY <1>6, <1>7, <4>2, <4>3
    <3>2. CASE ~(k <= Len(m))
      <4>1. k \in Len(m) + 1 .. Len(mm)
        BY <1>6, <3>2
      <4>2. mm[k].chunk = Len(o) + (k - Len(m))
        BY <1>4, <4>1 DEF Grown
      <4> QED
        BY <1>6, <1>7, <4>1, <4>2
    <3> QED
      BY <3>1, <3>2
  <2> QED
    BY <1>5, <2>1, <2>2 DEF Within
<1>9. ASSUME NEW c \in 1 .. Len(oo), c <= Len(o) => Tidy(o[c]) PROVE Tidy(oo[c])
  <2>1. CASE c \in 1 .. Len(o)
    <3>1. oo[c] = o[c] /\ c <= Len(o)
      BY <1>4, <1>6, <2>1 DEF Grown
    <3> QED
      BY <1>9, <3>1
  <2>2. CASE c \notin 1 .. Len(o)
    <3>1. c \in Len(o) + 1 .. Len(oo)
      BY <1>6, <2>2
    <3> QED
      BY <1>4, <3>1, NewChunkSound DEF Grown
  <2> QED
    BY <2>1, <2>2
\* Only what the page had, and what was made for it, is its chunk afterwards.
<1>10. ASSUME NEW k \in DOMAIN ChunksOf(named), ChunksOf(named)[k] \in 1 .. Len(o)
       PROVE  Holds(page, ChunksOf(named)[k])
  <2> DEFINE all == ChunksOf(named)
             was == ChunksOf(page)
  <2>1. /\ DOMAIN all = 1 .. Len(mm) + 1 /\ all[1] = page.native
        /\ \A j \in 2 .. Len(mm) + 1 : all[j] = mm[j - 1].chunk /\ j - 1 \in 1 .. Len(mm)
    BY <1>5, PageChunks
  <2>2. /\ DOMAIN was = 1 .. Len(m) + 1 /\ was[1] = page.native
        /\ \A j \in 1 .. Len(m) : was[j + 1] = m[j].chunk
    BY PageChunks DEF m
  <2> HIDE DEF all, was
  <2>3. CASE k = 1
    <3>1. 1 \in DOMAIN was /\ was[1] = all[k]
      BY <1>6, <2>1, <2>2, <2>3
    <3> QED
      BY <3>1 DEF Holds, all, was
  <2>4. CASE k # 1
    <3>1. k - 1 \in 1 .. Len(mm) /\ all[k] = mm[k - 1].chunk /\ (k - 1) + 1 = k
      <4>1. k \in DOMAIN all
        BY <1>10 DEF all
      <4>2. k \in 2 .. Len(mm) + 1
        BY <1>6, <2>1, <2>4, <4>1
      <4>3. (k - 1) + 1 = k
        BY <1>6, <4>2
      <4>4. k - 1 \in 1 .. Len(mm) /\ all[k] = mm[k - 1].chunk
        BY <2>1, <4>2
      <4> QED
        BY <4>3, <4>4
    <3>2. CASE k - 1 <= Len(m)
      <4>1. k - 1 \in 1 .. Len(m) /\ k \in 1 .. Len(m) + 1
        BY <1>6, <3>1, <3>2
      <4>2. mm[k - 1].chunk = m[k - 1].chunk
        BY <1>4, <4>1 DEF Grown
      <4>3. k \in DOMAIN was /\ was[k] = all[k]
        BY <2>2, <3>1, <4>1, <4>2
      <4> QED
        BY <4>3 DEF Holds, all, was
    <3>3. CASE ~(k - 1 <= Len(m))
      <4>1. k - 1 \in Len(m) + 1 .. Len(mm)
        BY <1>6, <3>1, <3>3
      <4>2. all[k] = Len(o) + ((k - 1) - Len(m))
        BY <1>4, <3>1, <4>1 DEF Grown
      <4>3. all[k] \in Nat /\ all[k] > Len(o)
        BY <1>6, <4>1, <4>2
      <4>4. all[k] \in 1 .. Len(o)
        BY <1>10 DEF all
      <4> QED
        BY <1>6, <4>3, <4>4
    <3> QED
      BY <3>2, <3>3
  <2> QED
    BY <2>3, <2>4
<1>11. ASSUME NEW next \in Seq(Sound), Len(next) = Len(oo),
              \A c \in 1 .. Len(o) : ~Holds(page, c) => next[c] = o[c]
       PROVE  Updated(page, o, named, next)
  <2>1. Len(o) <= Len(next)
    BY <1>6, <1>7, <1>11
  <2>2. Within(named, Len(next))
    BY <1>8, <1>11
  <2>3. \A k \in 1 .. Len(page.migrants) : named.migrants[k].chunk = page.migrants[k].chunk
    BY <1>4, <1>5 DEF Grown, m
  <2>4. \A k \in Len(page.migrants) + 1 .. Len(named.migrants) :
            named.migrants[k].chunk = Len(o) + (k - Len(page.migrants))
    BY <1>4, <1>5 DEF Grown, m
  <2>5. Len(page.migrants) <= Len(named.migrants)
    BY <1>5, <1>7 DEF m
  <2>6. ASSUME NEW c \in 1 .. Len(o), Holds(named, c) PROVE Holds(page, c)
    BY <1>10, <2>6 DEF Holds
  <2> QED
    BY <1>5, <1>11, <2>1, <2>2, <2>3, <2>4, <2>5, <2>6 DEF Updated
\* What was made is held.
<1>12. ASSUME NEW c \in 1 .. Len(oo), ~Holds(named, c) PROVE c <= Len(o) /\ oo[c] = o[c]
  <2> DEFINE all == ChunksOf(named)
             k == (c - Len(o)) + Len(m)
  <2>1. /\ DOMAIN all = 1 .. Len(mm) + 1
        /\ \A j \in 1 .. Len(mm) : all[j + 1] = mm[j].chunk
    BY <1>5, PageChunks
  <2> HIDE DEF all
  <2>2. CASE c <= Len(o)
    <3>1. c \in 1 .. Len(o)
      BY <1>6, <2>2
    <3> QED
      BY <1>4, <2>2, <3>1 DEF Grown
  <2>3. CASE ~(c <= Len(o))
    <3>1. k \in Len(m) + 1 .. Len(mm) /\ k \in 1 .. Len(mm) /\ k + 1 \in 1 .. Len(mm) + 1
          /\ Len(o) + (k - Len(m)) = c
      BY <1>6, <1>7, <2>3
    <3> HIDE DEF k
    <3>2. mm[k].chunk = Len(o) + (k - Len(m))
      BY <1>4, <3>1 DEF Grown
    <3>3. all[k + 1] = c /\ k + 1 \in DOMAIN all
      BY <2>1, <3>1, <3>2
    <3> QED
      BY <1>12, <3>3 DEF Holds, all
  <2> QED
    BY <2>2, <2>3
<1>13. CASE ids.state = "threw"
  <2>1. a.page = named /\ a.objects = oo /\ a.threw = TRUE
    BY <1>3, <1>13
  <2>2. \A c \in 1 .. Len(o) : oo[c] = o[c]
    BY <1>4 DEF Grown
  <2> QED
    BY <1>4, <1>11, <1>12, <2>1, <2>2 DEF a
<1>14. CASE ids.state # "threw"
  <2> DEFINE refs == ChunksOf(named)
  <2>1. a.page = named /\ a.objects = read.objects /\ a.threw = read.threw
    BY <1>3, <1>14
  <2>2. refs \in Seq(1 .. Len(oo))
    BY <1>5, <1>6, <1>8, PageChunks
  <2>3. read \in ChunkReader(oo, refs)
    BY <1>4, <2>2, ChunksRead
  <2> HIDE DEF read
  <2>4. /\ read.objects \in Seq(Sound) /\ Len(read.objects) = Len(oo) /\ read.threw \in BOOLEAN
        /\ \A c \in 1 .. Len(oo) :
              /\ Tidy(oo[c]) /\ ~read.threw => Tidy(read.objects[c])
              /\ (\A k \in 1 .. Len(refs) : refs[k] # c) => read.objects[c] = oo[c]
    BY <2>3 DEF ChunkReader
  <2>5. ASSUME NEW c \in 1 .. Len(o), ~Holds(page, c) PROVE read.objects[c] = o[c]
    <3>1. c \in 1 .. Len(oo) /\ oo[c] = o[c]
      BY <1>4, <1>6, <1>7 DEF Grown
    <3>2. \A k \in 1 .. Len(refs) : refs[k] # c
      <4>1. DOMAIN refs = 1 .. Len(refs)
        BY <2>2
      <4> QED
        BY <1>10, <2>5, <4>1
    <3> QED
      BY <2>4, <3>1, <3>2
  <2> HIDE DEF refs
  <2>6. Updated(page, o, named, read.objects)
    BY <1>11, <2>4, <2>5
  <2>7. ASSUME NEW c \in 1 .. Len(oo), ~read.threw, c <= Len(o) => Tidy(o[c])
        PROVE  Tidy(read.objects[c])
    BY <1>9, <2>4, <2>7
  <2>8. ASSUME NEW S, TidyBut(o, S), ~read.threw PROVE TidyBut(read.objects, S)
    <3>1. ASSUME NEW c \in 1 .. Len(oo), c \notin S PROVE Tidy(read.objects[c])
      <4>1. c <= Len(o) => c \in 1 .. Len(o)
        BY <1>6
      <4> QED
        BY <2>7, <2>8, <3>1, <4>1 DEF TidyBut
    <3> QED
      BY <2>4, <3>1 DEF TidyBut
  <2>9. ASSUME NEW c \in 1 .. Len(oo), ~Holds(named, c)
        PROVE  c <= Len(o) /\ read.objects[c] = o[c]
    <3>1. c <= Len(o) /\ oo[c] = o[c]
      BY <1>12, <2>9
    <3>2. \A k \in 1 .. Len(refs) : refs[k] # c
      <4>1. DOMAIN refs = 1 .. Len(refs)
        BY <2>2
      <4> QED
        BY <2>9, <4>1 DEF Holds, refs
    <3> QED
      BY <2>4, <3>1, <3>2
  <2> QED
    BY <2>1, <2>4, <2>6, <2>7, <2>8, <2>9 DEF a
<1> QED
  BY <1>13, <1>14

-----------------------------------------------------------------------------
(* The invariant *)

\* Where a chunk is in the cache.
IsNative(pages, c) == \E id \in DOMAIN pages : pages[id].native = c

Slots(pages, p) == 1 .. Len(pages[p].migrants)

\* No page has the chunk as a migrant.
Absent(pages, c) ==
    \A p \in DOMAIN pages : \A i \in Slots(pages, p) : pages[p].migrants[i].chunk # c

\* Two migrants with the same chunk are the same, or the chunk is the native one of a page.
Owned(pages) ==
    \A p, q \in DOMAIN pages : \A i \in Slots(pages, p), k \in Slots(pages, q) :
        pages[p].migrants[i].chunk = pages[q].migrants[k].chunk =>
            \/ p = q /\ i = k
            \/ IsNative(pages, pages[p].migrants[i].chunk)

AllWithin(pages, n) ==
    \A p \in DOMAIN pages : pages[p] \in CachedPage /\ Within(pages[p], n)

Blocks == Proposals \cup {NoBlock}

InCache(ids) == \A i \in 1 .. Len(ids) : ids[i] \in DOMAIN cache

Stages == {"idle", "preparing", "updating", "migrating", "indexing", "executing", "deciding"}

Given == chain \in Chains /\ cut \in {"bytes", "span"} /\ previous \in Versions

Listed ==
    /\ block \in Blocks /\ stage \in Stages /\ pos \in Nat
    /\ list \in Seq(PageIds) /\ InCache(list)
    /\ "readonly" \notin pending => InCache(block.readonly)
    /\ "writable" \notin pending => InCache(block.writable)
    /\ stage \in {"indexing", "executing", "deciding"} => pending = {}

Cached ==
    /\ DOMAIN cache \subseteq PageIds
    /\ chunks \in Seq(Sound)
    /\ AllWithin(cache, Len(chunks))

Indices == \A id \in DOMAIN index : index[id] \in 1 .. Len(chunks)

IInv == Given /\ Listed /\ Cached /\ Indices /\ Owned(cache) /\ WritableByList

LEMMA BlockType ==
    ASSUME NEW b \in Blocks
    PROVE  /\ b.readonly \in Seq(PageIds) /\ b.writable \in Seq(PageIds)
           /\ b.migrations \in Seq([fromIndex : Int, chunkIndex : Int, toIndex : Int])
           /\ b.bounds \in Seq([id : Seq(Nat), upper : Nat])
           /\ \A write \in b.writes : write.size \in Nat /\ write.byte \in Byte
<1>1. CASE b = NoBlock
  BY <1>1, EmptySeq DEF NoBlock
<1>2. CASE b \in Proposals
  BY <1>2, PageCacheAssumption DEF Byte
<1> QED
  BY <1>1, <1>2 DEF Blocks

\* What holds of a page holds with more chunks.
LEMMA WithinMore ==
    ASSUME NEW page \in CachedPage, NEW n \in Nat, NEW m \in Nat, n <= m, Within(page, n)
    PROVE  Within(page, m)
<1>1. \A k \in 1 .. n : k \in 1 .. m
  OBVIOUS
<1> QED
  BY <1>1 DEF Within

LEMMA InitInv == ASSUME Init PROVE IInv
<1>1. NoBlock \in Blocks /\ << >> \in Seq(PageIds) /\ Len(<< >>) = 0 /\ << >> \in Seq(Sound)
      /\ DOMAIN << >> = {}
  BY EmptySeq DEF Blocks
<1>2. Given
  BY PageCacheAssumption DEF Init, Given, Versions
<1>3. Listed
  BY <1>1 DEF Init, Listed, InCache, Stages, NoBlock
<1>4. Cached /\ Indices /\ Owned(cache) /\ WritableByList
  BY <1>1 DEF Init, Cached, AllWithin, Indices, Owned, WritableByList
<1> QED
  BY <1>2, <1>3, <1>4 DEF IInv

-----------------------------------------------------------------------------
(* Steps that leave the pages and the chunks alone *)

LEMMA LeftListed == ASSUME Left PROVE Listed' /\ Indices' /\ WritableByList'
<1>1. NoBlock \in Blocks /\ << >> \in Seq(PageIds) /\ Len(<< >>) = 0 /\ DOMAIN << >> = {}
  BY EmptySeq DEF Blocks
<1> QED
  BY <1>1 DEF Left, Listed, InCache, Stages, NoBlock, Indices, WritableByList

LEMMA PagesKept ==
    ASSUME IInv, UNCHANGED <<cache, chunks>>
    PROVE  Cached' /\ Owned(cache)'
BY DEF IInv, Cached, AllWithin, Owned, IsNative, Slots

LEMMA StartBlockInv == ASSUME IInv, StartBlock PROVE IInv'
<1>1. Given'
  <2>1. previous' \in Versions
    BY PageCacheAssumption DEF IInv, Given, StartBlock, Versions
  <2> QED
    BY <2>1 DEF IInv, Given, StartBlock
<1>2. Listed'
  BY DEF IInv, Listed, StartBlock, InCache, Stages, Blocks
<1>3. Cached' /\ Owned(cache)'
  BY PagesKept DEF StartBlock
<1>4. Indices' /\ WritableByList'
  BY DEF IInv, Indices, StartBlock, WritableByList
<1> QED
  BY <1>1, <1>2, <1>3, <1>4 DEF IInv

LEMMA SkipPageInv == ASSUME IInv, SkipPage PROVE IInv'
<1>1. Given' /\ Indices'
  BY DEF IInv, Given, Indices, SkipPage
<1>2. Listed'
  BY DEF IInv, Listed, SkipPage, InCache
<1>3. Cached' /\ Owned(cache)'
  BY PagesKept DEF SkipPage
<1>4. WritableByList'
  BY DEF SkipPage, Updating, WritableByList
<1> QED
  BY <1>1, <1>2, <1>3, <1>4 DEF IInv

LEMMA PagesUpdatedInv == ASSUME IInv, PagesUpdated PROVE IInv'
<1>1. Given' /\ Indices'
  BY DEF IInv, Given, Indices, PagesUpdated
<1>2. Listed'
  BY DEF IInv, Listed, PagesUpdated, InCache, Stages
<1>3. Cached' /\ Owned(cache)'
  BY PagesKept DEF PagesUpdated
<1>4. WritableByList'
  BY DEF PagesUpdated, WritableByList
<1> QED
  BY <1>1, <1>2, <1>3, <1>4 DEF IInv

LEMMA PagesPreparedInv == ASSUME IInv, PagesPrepared PROVE IInv'
<1>1. Given' /\ Indices'
  BY DEF IInv, Given, Indices, PagesPrepared
<1>2. Listed'
  BY DEF IInv, Listed, PagesPrepared, InCache, Stages
<1>3. Cached' /\ Owned(cache)'
  BY PagesKept DEF PagesPrepared
<1>4. WritableByList'
  BY DEF PagesPrepared, WritableByList
<1> QED
  BY <1>1, <1>2, <1>3, <1>4 DEF IInv

LEMMA LeavesInv ==
    ASSUME IInv, Left, UNCHANGED <<chain, cut, cache, chunks, previous>> PROVE IInv'
<1>1. Given'
  BY DEF IInv, Given
<1>2. Cached' /\ Owned(cache)'
  BY PagesKept
<1> QED
  BY <1>1, <1>2, LeftListed DEF IInv

-----------------------------------------------------------------------------
(* PageCache::preparePages *)

LEMMA PreparePagesInv ==
    ASSUME IInv, PreparePages
    PROVE  IInv' /\ (TidyBut(chunks, torn) => TidyBut(chunks, torn)')
<1>1. PICK which \in pending :
        LET pages == IF which = "readonly" THEN block.readonly ELSE block.writable
            new == SetToSeq({pages[i] : i \in DOMAIN pages} \ DOMAIN cache)
            NewPage(k) == [version |-> previous, native |-> Len(chunks) + k, migrants |-> << >>]
            Place(id) == CHOOSE k \in DOMAIN new : new[k] = id
        IN  /\ stage = "preparing"
            /\ pending' = pending \ {which}
            /\ list' = pages
            /\ cache' = [id \in DOMAIN cache \cup {new[k] : k \in DOMAIN new} |->
                            IF id \in DOMAIN cache THEN cache[id] ELSE NewPage(Place(id))]
            /\ chunks' = chunks \o [k \in DOMAIN new |-> NewChunk]
            /\ pos' = 0
            /\ stage' = "updating"
            /\ UNCHANGED <<chain, cut, previous, block, index, torn>>
  BY DEF PreparePages
<1> DEFINE pages == IF which = "readonly" THEN block.readonly ELSE block.writable
           S == {pages[i] : i \in DOMAIN pages} \ DOMAIN cache
           new == SetToSeq(S)
           n == Len(chunks)
           more == [k \in DOMAIN new |-> NewChunk]
           NewPage(k) == [version |-> previous, native |-> n + k, migrants |-> << >>]
           Place(id) == CHOOSE k \in DOMAIN new : new[k] = id
<1>2. /\ stage = "preparing" /\ pending' = pending \ {which} /\ list' = pages
      /\ cache' = [id \in DOMAIN cache \cup {new[k] : k \in DOMAIN new} |->
                      IF id \in DOMAIN cache THEN cache[id] ELSE NewPage(Place(id))]
      /\ chunks' = chunks \o more
      /\ pos' = 0 /\ stage' = "updating"
      /\ UNCHANGED <<chain, cut, previous, block, index, torn>>
  BY <1>1
<1>3. /\ chunks \in Seq(Sound) /\ n \in Nat /\ DOMAIN cache \subseteq PageIds
      /\ AllWithin(cache, n) /\ previous \in Versions
      /\ block \in Blocks
  BY DEF IInv, Cached, Given, Listed
<1>4. pages \in Seq(PageIds) /\ S \subseteq PageIds
  <2>1. pages \in Seq(PageIds)
    BY <1>3, BlockType
  <2> HIDE DEF pages
  <2>2. \A i \in DOMAIN pages : pages[i] \in PageIds
    BY <2>1
  <2> QED
    BY <2>1, <2>2
<1>5. IsFiniteSet(S)
  BY <1>4, PageCacheAssumption, FS_Subset
<1> HIDE DEF S
<1>6. new \in Seq(S) /\ \A x \in S : \E k \in DOMAIN new : new[k] = x
  BY <1>5, SetInSequence
<1> HIDE DEF new
<1>7. {new[k] : k \in DOMAIN new} = S
  <2>1. \A k \in DOMAIN new : new[k] \in S
    BY <1>6
  <2> QED
    BY <1>6, <2>1
<1>8. DOMAIN cache' = DOMAIN cache \cup S
  BY <1>2, <1>7
<1>9. \A id \in DOMAIN cache : cache'[id] = cache[id]
  BY <1>2, <1>8
<1>10. ASSUME NEW id \in S
       PROVE  \E k \in 1 .. Len(new) : cache'[id] = NewPage(k)
  <2>1. Place(id) \in DOMAIN new
    BY <1>6
  <2>2. id \notin DOMAIN cache
    BY DEF S
  <2>3. DOMAIN new = 1 .. Len(new)
    BY <1>6
  <2> QED
    BY <1>2, <1>8, <2>1, <2>2, <2>3
<1>11. /\ chunks' \in Seq(Sound) /\ Len(chunks') = n + Len(new) /\ Len(new) \in Nat
       /\ TidyBut(chunks, torn) => TidyBut(chunks, torn)'
  <2>1. DOMAIN new = 1 .. Len(new) /\ Len(new) \in Nat
    BY <1>6
  <2>2. more \in [1 .. Len(new) -> Sound]
    BY <2>1, NewChunkSound
  <2>3. more \in Seq(Sound) /\ Len(more) = Len(new) /\ \A k \in 1 .. Len(new) : more[k] = NewChunk
    BY <2>1, <2>2
  <2> HIDE DEF more, n
  <2>4. /\ chunks' \in Seq(Sound) /\ Len(chunks') = Len(chunks) + Len(new)
        /\ \A c \in 1 .. Len(chunks) + Len(new) :
              chunks'[c] = IF c <= Len(chunks) THEN chunks[c] ELSE more[c - Len(chunks)]
    <3>1. /\ chunks \o more \in Seq(Sound) /\ Len(chunks \o more) = Len(chunks) + Len(more)
          /\ \A c \in 1 .. Len(chunks) + Len(more) :
                (chunks \o more)[c] = IF c <= Len(chunks) THEN chunks[c] ELSE more[c - Len(chunks)]
      BY <1>3, <2>3, ConcatProperties
    <3> QED
      BY <1>2, <2>3, <3>1
  <2>5. ASSUME TidyBut(chunks, torn), NEW c \in 1 .. Len(chunks'), c \notin torn
        PROVE  Tidy(chunks'[c])
    <3>1. CASE c <= Len(chunks)
      <4>1. c \in 1 .. Len(chunks) /\ c \in 1 .. Len(chunks) + Len(new)
        BY <1>3, <2>1, <3>1 DEF n
      <4> QED
        BY <2>4, <2>5, <3>1, <4>1 DEF TidyBut
    <3>2. CASE ~(c <= Len(chunks))
      <4>1. c - Len(chunks) \in 1 .. Len(new) /\ c \in 1 .. Len(chunks) + Len(new)
        BY <1>3, <2>1, <2>4, <3>2 DEF n
      <4> QED
        BY <2>3, <2>4, <3>2, <4>1, NewChunkSound
    <3> QED
      BY <3>1, <3>2
  <2> QED
    BY <1>2, <2>1, <2>4, <2>5 DEF TidyBut, n
<1> HIDE DEF more
<1>12. ASSUME NEW k \in 1 .. Len(new)
       PROVE  /\ NewPage(k) \in CachedPage /\ NewPage(k).migrants = << >>
              /\ Within(NewPage(k), Len(chunks'))
  <2>1. << >> \in Seq(MigrantType) /\ Len(<< >>) = 0
    BY EmptySeq
  <2>2. n + k \in 1 .. Len(chunks')
    BY <1>3, <1>11
  <2> HIDE DEF n
  <2> QED
    BY <1>3, <2>1, <2>2 DEF CachedPage, Within
<1>13. n <= Len(chunks') /\ Len(chunks') \in Nat
  BY <1>3, <1>11
<1>14. AllWithin(cache, Len(chunks))'
  <2>1. ASSUME NEW id \in DOMAIN cache' PROVE cache'[id] \in CachedPage /\ Within(cache'[id], Len(chunks'))
    <3>1. CASE id \in DOMAIN cache
      BY <1>3, <1>9, <1>13, <3>1, WithinMore DEF AllWithin
    <3>2. CASE id \in S
      BY <1>10, <1>12, <3>2
    <3> QED
      BY <1>8, <3>1, <3>2
  <2> QED
    BY <2>1 DEF AllWithin
<1>15. Cached'
  BY <1>3, <1>4, <1>8, <1>11, <1>14 DEF Cached
<1>16. Owned(cache)'
  <2>1. ASSUME NEW p \in DOMAIN cache', NEW i \in Slots(cache', p)
        PROVE  p \in DOMAIN cache /\ cache'[p] = cache[p] /\ i \in Slots(cache, p)
    <3>1. CASE p \in DOMAIN cache
      BY <1>9, <2>1, <3>1 DEF Slots
    <3>2. CASE p \in S
      <4>1. cache'[p].migrants = << >>
        BY <1>10, <1>12, <3>2
      <4> QED
        BY <2>1, <4>1 DEF Slots
    <3> QED
      BY <1>8, <3>1, <3>2
  <2>2. ASSUME NEW c, IsNative(cache, c) PROVE IsNative(cache', c)
    BY <1>8, <1>9, <2>2 DEF IsNative
  <2> QED
    BY <2>1, <2>2 DEF IInv, Owned
<1>17. Listed'
  <2>1. \A i \in 1 .. Len(pages) : pages[i] \in DOMAIN cache'
    <3>1. ASSUME NEW i \in 1 .. Len(pages) PROVE pages[i] \in DOMAIN cache'
      <4>1. i \in DOMAIN pages
        BY <1>4
      <4> QED
        BY <1>8, <4>1 DEF S
    <3> QED
      BY <3>1
  <2>2. /\ "readonly" \notin pending => InCache(block.readonly)
        /\ "writable" \notin pending => InCache(block.writable)
    BY DEF IInv, Listed
  <2>3. InCache(list)' /\ list' \in Seq(PageIds)
    BY <1>2, <1>4, <2>1 DEF InCache
  <2>4. "readonly" \notin pending' => InCache(block.readonly)'
    <3>1. CASE which = "readonly"
      BY <1>2, <2>1, <3>1 DEF InCache
    <3>2. CASE which # "readonly"
      BY <1>2, <1>8, <2>2, <3>2 DEF InCache
    <3> QED
      BY <3>1, <3>2
  <2>5. "writable" \notin pending' => InCache(block.writable)'
    <3>1. CASE which = "writable"
      BY <1>2, <2>1, <3>1 DEF InCache
    <3>2. CASE which # "writable"
      BY <1>2, <1>8, <2>2, <3>2 DEF InCache
    <3> QED
      BY <3>1, <3>2
  <2> QED
    BY <1>2, <1>3, <2>3, <2>4, <2>5 DEF Listed, Stages
<1>18. Indices'
  <2>1. \A id \in DOMAIN index : index[id] \in 1 .. Len(chunks')
    BY <1>3, <1>13 DEF IInv, Indices
  <2> QED
    BY <1>2, <2>1 DEF Indices
<1>19. Given' /\ WritableByList'
  BY <1>2 DEF IInv, Given, WritableByList
<1> QED
  BY <1>11, <1>15, <1>16, <1>17, <1>18, <1>19 DEF IInv

-----------------------------------------------------------------------------
(* Updates of pages *)

LEMMA UpdatingFacts ==
    ASSUME IInv, Updating
    PROVE  /\ Current \in DOMAIN cache /\ Current \in PageIds
           /\ cache[Current] \in CachedPage /\ Within(cache[Current], Len(chunks))
           /\ chunks \in Seq(Sound) /\ Answer \in Seq(Byte) /\ Broken(Answer) \in Seq(Byte)
<1>1. /\ list \in Seq(PageIds) /\ InCache(list) /\ pos \in Nat
      /\ chunks \in Seq(Sound) /\ AllWithin(cache, Len(chunks))
      /\ chain \in Chains /\ cut \in {"bytes", "span"} /\ previous \in Versions
  BY DEF IInv, Listed, Cached, Given
<1>2. pos + 1 \in 1 .. Len(list)
  BY <1>1 DEF Updating
<1>3. Current \in DOMAIN cache /\ Current \in PageIds
  BY <1>1, <1>2 DEF Current, InCache
<1>4. cache[Current] \in CachedPage /\ Within(cache[Current], Len(chunks))
  BY <1>1, <1>3 DEF AllWithin
<1>5. cache[Current].version \in Versions
  BY <1>4 DEF CachedPage
<1> DEFINE n == cache[Current].version
           id == Current
<1> HIDE DEF n, id
<1>6. n \in Versions /\ id \in PageIds
  BY <1>3, <1>5 DEF n, id
<1> DEFINE s == Delta(chain[n][id], chain[previous][id], cut)
<1>7. s \in Seq(0 .. Radix - 1) /\ Broken(s) \in Seq(0 .. Radix - 1)
  BY <1>1, <1>6, PageCacheAssumption
<1> QED
  BY <1>1, <1>3, <1>4, <1>7 DEF Answer, Target, Byte, n, id

LEMMA UpdateKeeps ==
    ASSUME IInv, Updating, NEW page, Updated(cache[Current], chunks, page, chunks'),
           NEW next \in CachedPage, next.native = page.native, next.migrants = page.migrants,
           cache' = [cache EXCEPT ![Current] = next]
    PROVE  Cached' /\ Owned(cache)' /\ DOMAIN cache' = DOMAIN cache /\ Len(chunks) <= Len(chunks')
           /\ Len(chunks') \in Nat /\ Len(chunks) \in Nat
<1> DEFINE id == Current
           old == cache[id]
           n == Len(chunks)
<1>1. /\ id \in DOMAIN cache /\ old \in CachedPage /\ Within(old, n) /\ chunks \in Seq(Sound)
  BY UpdatingFacts
<1>2. /\ chunks' \in Seq(Sound) /\ n <= Len(chunks')
      /\ next.native = old.native /\ Len(old.migrants) <= Len(next.migrants)
      /\ \A k \in 1 .. Len(old.migrants) : next.migrants[k].chunk = old.migrants[k].chunk
      /\ \A k \in Len(old.migrants) + 1 .. Len(next.migrants) :
              next.migrants[k].chunk = n + (k - Len(old.migrants))
      /\ Within(page, Len(chunks'))
  BY DEF Updated
<1>3. Within(next, Len(chunks'))
  BY <1>2 DEF Within
<1>4. n \in Nat /\ Len(chunks') \in Nat
  BY <1>1, <1>2
<1>5. /\ DOMAIN cache' = DOMAIN cache /\ cache'[id] = next
      /\ \A p \in DOMAIN cache : p # id => cache'[p] = cache[p]
  BY <1>1
<1>6. AllWithin(cache, n) /\ DOMAIN cache \subseteq PageIds /\ Owned(cache)
  BY DEF IInv, Cached
<1> HIDE DEF id, n
<1>7. ASSUME NEW p \in DOMAIN cache PROVE cache'[p] \in CachedPage /\ Within(cache'[p], Len(chunks'))
  <2>1. CASE p = id
    BY <1>3, <1>5, <2>1
  <2>2. CASE p # id
    BY <1>2, <1>4, <1>5, <1>6, <2>2, WithinMore DEF AllWithin
  <2> QED
    BY <2>1, <2>2
<1>8. Cached'
  BY <1>2, <1>5, <1>6, <1>7 DEF Cached, AllWithin
<1>9. \A p \in DOMAIN cache : cache'[p].native = cache[p].native
  BY <1>2, <1>5
<1>10. \A c : IsNative(cache, c) => IsNative(cache', c)
  BY <1>5, <1>9 DEF IsNative
\* A migrant was there before, or its chunk is one that was made for it.
<1> DEFINE Was(p, i) == i \in Slots(cache, p) /\ cache'[p].migrants[i].chunk = cache[p].migrants[i].chunk
           Made(p, i) == p = id /\ cache'[p].migrants[i].chunk = n + (i - Len(old.migrants))
                         /\ i \in Nat /\ i > Len(old.migrants)
<1>11. Len(old.migrants) \in Nat /\ Len(next.migrants) \in Nat
  BY <1>1 DEF CachedPage
<1>12. ASSUME NEW p \in DOMAIN cache, NEW i \in Slots(cache', p) PROVE Was(p, i) \/ Made(p, i)
  <2>1. CASE p # id
    BY <1>5, <2>1 DEF Slots
  <2>2. CASE p = id /\ i <= Len(old.migrants)
    <3>1. i \in 1 .. Len(old.migrants)
      BY <1>5, <1>11, <2>2 DEF Slots
    <3> QED
      BY <1>2, <1>5, <2>2, <3>1 DEF Slots
  <2>3. CASE p = id /\ ~(i <= Len(old.migrants))
    <3>1. i \in Len(old.migrants) + 1 .. Len(next.migrants)
      BY <1>5, <1>11, <2>3 DEF Slots
    <3>2. i \in Nat /\ i > Len(old.migrants)
      BY <1>11, <3>1
    <3> QED
      BY <1>2, <1>5, <2>3, <3>1, <3>2
  <2> QED
    BY <2>1, <2>2, <2>3
<1>13. ASSUME NEW p \in DOMAIN cache, NEW i \in Slots(cache, p)
       PROVE  cache[p].migrants[i].chunk \in 1 .. n
  BY <1>6 DEF AllWithin, Within, Slots
<1> DEFINE Chunk(p, i) == cache'[p].migrants[i].chunk
           m == Len(old.migrants)
<1>14. ASSUME NEW p \in DOMAIN cache, NEW i, Made(p, i)
       PROVE  p = id /\ i \in Nat /\ i > m /\ Chunk(p, i) = n + (i - m)
  BY <1>14
<1>15. ASSUME NEW p \in DOMAIN cache, NEW i, Was(p, i) PROVE Chunk(p, i) \in 1 .. n
  BY <1>13, <1>15
<1>16. ASSUME NEW p \in DOMAIN cache, NEW q \in DOMAIN cache, NEW i, NEW k,
              Was(p, i), Was(q, k), Chunk(p, i) = Chunk(q, k)
       PROVE  (p = q /\ i = k) \/ IsNative(cache', Chunk(p, i))
  BY <1>6, <1>10, <1>16 DEF Owned
<1> HIDE DEF Was, Made, Chunk, m
<1>17. m \in Nat
  BY <1>11 DEF m
<1>18. ASSUME NEW p \in DOMAIN cache, NEW q \in DOMAIN cache,
              NEW i \in Slots(cache', p), NEW k \in Slots(cache', q), Chunk(p, i) = Chunk(q, k)
       PROVE  (p = q /\ i = k) \/ IsNative(cache', Chunk(p, i))
  <2>1. CASE Was(p, i) /\ Was(q, k)
    BY <1>16, <1>18, <2>1
  <2>2. CASE Was(p, i) /\ Made(q, k)
    <3>1. Chunk(p, i) \in 1 .. n /\ k \in Nat /\ k > m /\ Chunk(q, k) = n + (k - m)
      BY <1>14, <1>15, <2>2
    <3> QED
      BY <1>4, <1>17, <1>18, <3>1
  <2>3. CASE Made(p, i) /\ Was(q, k)
    <3>1. Chunk(q, k) \in 1 .. n /\ i \in Nat /\ i > m /\ Chunk(p, i) = n + (i - m)
      BY <1>14, <1>15, <2>3
    <3> QED
      BY <1>4, <1>17, <1>18, <3>1
  <2>4. CASE Made(p, i) /\ Made(q, k)
    <3>1. /\ p = id /\ q = id /\ i \in Nat /\ k \in Nat
          /\ Chunk(p, i) = n + (i - m) /\ Chunk(q, k) = n + (k - m)
      BY <1>14, <2>4
    <3> QED
      BY <1>4, <1>17, <1>18, <3>1
  <2> QED
    BY <1>12, <2>1, <2>2, <2>3, <2>4
<1>19. Owned(cache)'
  <2>1. ASSUME NEW p \in DOMAIN cache', NEW q \in DOMAIN cache',
               NEW i \in Slots(cache', p), NEW k \in Slots(cache', q),
               cache'[p].migrants[i].chunk = cache'[q].migrants[k].chunk
        PROVE  (p = q /\ i = k) \/ IsNative(cache', cache'[p].migrants[i].chunk)
    <3>1. p \in DOMAIN cache /\ q \in DOMAIN cache
      BY <1>5
    <3>2. Chunk(p, i) = Chunk(q, k)
      BY <2>1 DEF Chunk
    <3>3. (p = q /\ i = k) \/ IsNative(cache', Chunk(p, i))
      BY <1>18, <3>1, <3>2
    <3> QED
      BY <3>3 DEF Chunk
  <2> QED
    BY <2>1, Zenon DEF Owned
<1> QED
  BY <1>2, <1>4, <1>5, <1>8, <1>19 DEF n

LEMMA RefsKept ==
    ASSUME IInv, UNCHANGED index, Len(chunks) \in Nat, Len(chunks') \in Nat, Len(chunks) <= Len(chunks')
    PROVE  Indices'
<1>1. \A k \in 1 .. Len(chunks) : k \in 1 .. Len(chunks')
  OBVIOUS
<1> QED
  BY <1>1 DEF IInv, Indices

LEMMA UpdatePageInv ==
    ASSUME IInv, UpdatePage
    PROVE  IInv' /\ (TidyBut(chunks, torn) => TidyBut(chunks, torn)')
<1> DEFINE a == AppliedTo(cache[Current], chunks, Answer)
           next == [a.page EXCEPT !.version = previous]
<1>1. Updating /\ ~a.threw /\ cache' = [cache EXCEPT ![Current] = next] /\ chunks' = a.objects
      /\ pos' = pos + 1
      /\ UNCHANGED <<chain, cut, previous, block, stage, pending, list, index, torn>>
  BY DEF UpdatePage, VersionSet
<1>2. /\ Updated(cache[Current], chunks, a.page, a.objects)
      /\ TidyBut(chunks, torn) /\ ~a.threw => TidyBut(a.objects, torn)
  BY <1>1, UpdatingFacts, DeltaOnPage
<1> DEFINE page == a.page
<1>3. page \in CachedPage /\ previous \in Versions
  BY <1>2 DEF Updated, IInv, Given
<1>4. next = [page EXCEPT !.version = previous]
  OBVIOUS
<1> HIDE DEF page
<1>5. next \in CachedPage /\ next.native = page.native /\ next.migrants = page.migrants
  BY <1>3, <1>4 DEF CachedPage
<1>6. Updated(cache[Current], chunks, page, chunks')
  BY <1>1, <1>2 DEF page
<1> HIDE DEF a, next
<1>7. Cached' /\ Owned(cache)' /\ DOMAIN cache' = DOMAIN cache /\ Len(chunks) <= Len(chunks')
      /\ Len(chunks') \in Nat /\ Len(chunks) \in Nat
  BY <1>1, <1>5, <1>6, UpdateKeeps
<1>8. Given' /\ Indices'
  BY <1>1, <1>7, RefsKept DEF IInv, Given
<1>9. Listed' /\ WritableByList'
  BY <1>1, <1>7 DEF IInv, Listed, InCache, Updating, WritableByList
<1> QED
  BY <1>1, <1>2, <1>7, <1>8, <1>9 DEF IInv

LEMMA RetryUpdateInv ==
    ASSUME IInv, RetryUpdate
    PROVE  IInv' /\ (TidyBut(chunks, torn) => TidyBut(chunks, torn)')
<1> DEFINE a == AppliedTo(cache[Current], chunks, Answer)
           page == a.page
<1>1. Updating /\ ~a.threw /\ cache' = [cache EXCEPT ![Current] = page] /\ chunks' = a.objects
      /\ UNCHANGED <<chain, cut, previous, block, stage, pending, list, pos, index, torn>>
  BY DEF RetryUpdate
<1>2. /\ Updated(cache[Current], chunks, page, a.objects)
      /\ TidyBut(chunks, torn) /\ ~a.threw => TidyBut(a.objects, torn)
  BY <1>1, UpdatingFacts, DeltaOnPage
<1> HIDE DEF page, a
<1>3. page \in CachedPage /\ Updated(cache[Current], chunks, page, chunks')
  BY <1>1, <1>2 DEF Updated
<1>4. Cached' /\ Owned(cache)' /\ DOMAIN cache' = DOMAIN cache /\ Len(chunks) <= Len(chunks')
      /\ Len(chunks') \in Nat /\ Len(chunks) \in Nat
  BY <1>1, <1>3, UpdateKeeps
<1>5. Given' /\ Indices'
  BY <1>1, <1>4, RefsKept DEF IInv, Given
<1>6. Listed' /\ WritableByList'
  BY <1>1, <1>4 DEF IInv, Listed, InCache, Updating, WritableByList
<1> QED
  BY <1>1, <1>2, <1>4, <1>5, <1>6 DEF IInv

LEMMA UpdateFailsInv ==
    ASSUME IInv, UpdateFails
    PROVE  IInv' /\ (TidyBut(chunks, torn) => TidyBut(chunks, torn)')
<1>1. PICK answer \in {Answer, Broken(Answer)} :
        /\ Updating
        /\ cache' = [cache EXCEPT ![Current] = AppliedTo(cache[Current], chunks, answer).page]
        /\ chunks' = AppliedTo(cache[Current], chunks, answer).objects
        /\ torn' = torn \cup ToSet(ChunksOf(AppliedTo(cache[Current], chunks, answer).page))
        /\ Left /\ UNCHANGED <<chain, cut, previous>>
  BY DEF UpdateFails
<1> DEFINE a == AppliedTo(cache[Current], chunks, answer)
           page == a.page
<1>2. answer \in Seq(Byte)
  BY <1>1, UpdatingFacts
<1>3. /\ Updated(cache[Current], chunks, page, a.objects)
      /\ \A c \in 1 .. Len(a.objects) :
            ~Holds(page, c) => c <= Len(chunks) /\ a.objects[c] = chunks[c]
  BY <1>1, <1>2, UpdatingFacts, DeltaOnPage
<1> HIDE DEF page
<1>4. /\ cache' = [cache EXCEPT ![Current] = page] /\ chunks' = a.objects
      /\ torn' = torn \cup ToSet(ChunksOf(page))
  BY <1>1 DEF page
<1> HIDE DEF a
<1>5. page \in CachedPage /\ Updated(cache[Current], chunks, page, chunks')
  BY <1>3, <1>4 DEF Updated
<1>6. Cached' /\ Owned(cache)'
  BY <1>1, <1>4, <1>5, UpdateKeeps
<1>7. Given' /\ Listed' /\ Indices' /\ WritableByList'
  BY <1>1, LeftListed DEF IInv, Given
<1>8. ASSUME TidyBut(chunks, torn), NEW c \in 1 .. Len(chunks'), c \notin torn'
      PROVE  Tidy(chunks'[c])
  <2>1. c \notin torn /\ ~Holds(page, c)
    BY <1>4, <1>8 DEF Holds, ToSet
  <2>2. c <= Len(chunks) /\ chunks'[c] = chunks[c]
    BY <1>3, <1>4, <2>1
  <2>3. c \in 1 .. Len(chunks)
    <3>1. chunks \in Seq(Sound) /\ chunks' \in Seq(Sound)
      BY <1>5 DEF IInv, Cached, Updated
    <3> QED
      BY <2>2, <3>1
  <2> QED
    BY <1>8, <2>1, <2>2, <2>3 DEF TidyBut
<1> QED
  BY <1>6, <1>7, <1>8 DEF IInv, TidyBut

-----------------------------------------------------------------------------
(* Migrations *)

LEMMA Removed ==
    ASSUME NEW E, NEW s \in Seq(E), NEW i \in 1 .. Len(s)
    PROVE  /\ RemoveAt(s, i) \in Seq(E) /\ Len(RemoveAt(s, i)) = Len(s) - 1
           /\ \A k \in 1 .. Len(s) - 1 :
                 RemoveAt(s, i)[k] = IF k < i THEN s[k] ELSE s[k + 1]
<1> DEFINE n == Len(s)
           a == SubSeq(s, 1, i - 1)
           b == SubSeq(s, i + 1, n)
<1>1. n \in Nat /\ i \in Nat /\ i >= 1 /\ i <= n
  OBVIOUS
<1>2. \A k \in 1 .. i - 1 : s[k] \in E
  BY <1>1
<1>3. \A k \in i + 1 .. n : s[k] \in E
  BY <1>1
<1>4. a \in Seq(E) /\ Len(a) = i - 1 /\ \A k \in 1 .. i - 1 : a[k] = s[k]
  <2>1. \A k \in 1 .. i - 1 : 1 + k - 1 = k
    BY <1>1
  <2> QED
    BY <1>1, <1>2, <2>1, SubSeqProperties
<1>5. b \in Seq(E) /\ Len(b) = n - i /\ \A k \in 1 .. n - i : b[k] = s[k + i]
  <2>1. \A k \in 1 .. n - i : (i + 1) + k - 1 = k + i
    BY <1>1
  <2>2. n - (i + 1) + 1 = n - i /\ i + 1 <= n + 1
    BY <1>1
  <2>3. i + 1 \in Int /\ n \in Int
    BY <1>1
  <2> HIDE DEF n
  <2>4. /\ b \in Seq(E) /\ Len(b) = IF i + 1 <= n THEN n - (i + 1) + 1 ELSE 0
        /\ \A k \in 1 .. n - (i + 1) + 1 : b[k] = s[(i + 1) + k - 1]
    BY <1>3, <2>3, SubSeqProperties
  <2> HIDE DEF b
  <2>5. Len(b) = n - i
    BY <1>1, <2>2, <2>3, <2>4
  <2> QED
    BY <2>1, <2>2, <2>4, <2>5
<1>6. RemoveAt(s, i) = a \o b
  BY DEF RemoveAt
<1> HIDE DEF a, b, n
<1>7. /\ a \o b \in Seq(E) /\ Len(a \o b) = Len(a) + Len(b)
      /\ \A k \in 1 .. Len(a) + Len(b) : (a \o b)[k] = IF k <= Len(a) THEN a[k] ELSE b[k - Len(a)]
  BY <1>4, <1>5, ConcatProperties
<1>8. Len(a) + Len(b) = n - 1
  BY <1>1, <1>4, <1>5
<1>9. ASSUME NEW k \in 1 .. n - 1 PROVE (a \o b)[k] = IF k < i THEN s[k] ELSE s[k + 1]
  <2>1. CASE k < i
    <3>1. k <= Len(a) /\ k \in 1 .. i - 1
      BY <1>1, <1>4, <2>1
    <3> QED
      BY <1>4, <1>7, <1>8, <2>1, <3>1
  <2>2. CASE ~(k < i)
    <3>1. ~(k <= Len(a)) /\ k - Len(a) \in 1 .. n - i /\ (k - Len(a)) + i = k + 1
      BY <1>1, <1>4, <2>2
    <3> QED
      BY <1>5, <1>7, <1>8, <2>2, <3>1
  <2> QED
    BY <2>1, <2>2
<1> QED
  BY <1>6, <1>7, <1>8, <1>9 DEF n

LEMMA WithMigrants ==
    ASSUME NEW page \in CachedPage, NEW m \in Seq(MigrantType)
    PROVE  /\ [page EXCEPT !.migrants = m] \in CachedPage
           /\ [page EXCEPT !.migrants = m].migrants = m
           /\ [page EXCEPT !.migrants = m].native = page.native
BY DEF CachedPage

\* The page has other migrants.
GivesMigrants(pages, id, m, after) == after = [pages EXCEPT ![id].migrants = m]

MigrantsWithin(n) == {m \in Seq(MigrantType) : \A k \in 1 .. Len(m) : m[k].chunk \in 1 .. n}

LEMMA PageReplaced ==
    ASSUME NEW pages, NEW n \in Nat, AllWithin(pages, n), NEW id \in DOMAIN pages,
           NEW m \in MigrantsWithin(n), NEW after, GivesMigrants(pages, id, m, after)
    PROVE  /\ AllWithin(after, n) /\ DOMAIN after = DOMAIN pages /\ after[id].migrants = m
           /\ \A p \in DOMAIN pages : p # id => after[p] = pages[p]
           /\ \A c : IsNative(pages, c) <=> IsNative(after, c)
<1> DEFINE page == pages[id]
           next == [page EXCEPT !.migrants = m]
<1>1. m \in Seq(MigrantType) /\ \A k \in 1 .. Len(m) : m[k].chunk \in 1 .. n
  BY DEF MigrantsWithin
<1>2. page \in CachedPage /\ Within(page, n)
  BY DEF AllWithin
<1>3. next \in CachedPage /\ next.migrants = m /\ next.native = page.native
  <2> HIDE DEF page
  <2> QED
    BY <1>1, <1>2, WithMigrants
<1>4. after = [pages EXCEPT ![id] = next]
  BY DEF GivesMigrants
<1> HIDE DEF next
<1>5. /\ DOMAIN after = DOMAIN pages /\ after[id] = next
      /\ \A p \in DOMAIN pages : p # id => after[p] = pages[p]
  BY <1>4
<1>6. Within(next, n)
  BY <1>1, <1>2, <1>3 DEF Within
<1>7. AllWithin(after, n)
  BY <1>3, <1>5, <1>6 DEF AllWithin
<1>8. \A p \in DOMAIN pages : after[p].native = pages[p].native
  BY <1>3, <1>5
<1>9. \A c : IsNative(pages, c) <=> IsNative(after, c)
  BY <1>5, <1>8 DEF IsNative
<1> QED
  BY <1>3, <1>5, <1>7, <1>9

LEMMA AppendOwned ==
    ASSUME NEW pages, NEW n \in Nat, AllWithin(pages, n), Owned(pages), NEW id \in DOMAIN pages,
           NEW x \in MigrantType, x.chunk \in 1 .. n,
           IsNative(pages, x.chunk) \/ Absent(pages, x.chunk),
           NEW after, GivesMigrants(pages, id, Append(pages[id].migrants, x), after)
    PROVE  AllWithin(after, n) /\ Owned(after) /\ DOMAIN after = DOMAIN pages
<1> DEFINE m == pages[id].migrants
           m2 == Append(m, x)
<1>1. m \in Seq(MigrantType) /\ Len(m) \in Nat /\ \A k \in 1 .. Len(m) : m[k].chunk \in 1 .. n
  BY DEF AllWithin, CachedPage, Within
<1>2. GivesMigrants(pages, id, m2, after)
  OBVIOUS
<1> HIDE DEF m
<1>3. /\ m2 \in Seq(MigrantType) /\ Len(m2) = Len(m) + 1 /\ m2[Len(m) + 1] = x
      /\ \A k \in 1 .. Len(m) : m2[k] = m[k]
  BY <1>1, AppendProperties
<1> HIDE DEF m2
<1>4. ASSUME NEW k \in 1 .. Len(m2) PROVE m2[k].chunk \in 1 .. n
  <2>1. CASE k = Len(m) + 1
    BY <1>3, <2>1
  <2>2. CASE k # Len(m) + 1
    <3>1. k \in 1 .. Len(m)
      BY <1>1, <1>3, <2>2
    <3> QED
      BY <1>1, <1>3, <3>1
  <2> QED
    BY <2>1, <2>2
<1>5. /\ AllWithin(after, n) /\ DOMAIN after = DOMAIN pages /\ after[id].migrants = m2
      /\ \A p \in DOMAIN pages : p # id => after[p] = pages[p]
      /\ \A c : IsNative(pages, c) <=> IsNative(after, c)
  <2>1. m2 \in MigrantsWithin(n)
    BY <1>3, <1>4 DEF MigrantsWithin
  <2> QED
    BY <1>2, <2>1, PageReplaced
<1> DEFINE Chunk(p, i) == after[p].migrants[i].chunk
           Was(p, i) == i \in Slots(pages, p) /\ Chunk(p, i) = pages[p].migrants[i].chunk
           Added(p, i) == p = id /\ i = Len(m) + 1 /\ Chunk(p, i) = x.chunk
<1>6. ASSUME NEW p \in DOMAIN pages, NEW i \in Slots(after, p) PROVE Was(p, i) \/ Added(p, i)
  <2>1. CASE p # id
    BY <1>5, <2>1 DEF Slots
  <2>2. CASE p = id /\ i = Len(m) + 1
    BY <1>3, <1>5, <2>2
  <2>3. CASE p = id /\ i # Len(m) + 1
    <3>1. i \in 1 .. Len(m)
      BY <1>1, <1>3, <1>5, <2>3 DEF Slots
    <3> QED
      BY <1>3, <1>5, <2>3, <3>1 DEF Slots, m
  <2> QED
    BY <2>1, <2>2, <2>3
<1>7. ASSUME NEW p \in DOMAIN pages, NEW q \in DOMAIN pages, NEW i, NEW k,
             Was(p, i), Was(q, k), Chunk(p, i) = Chunk(q, k)
      PROVE  (p = q /\ i = k) \/ IsNative(after, Chunk(p, i))
  BY <1>5, <1>7 DEF Owned
<1>8. ASSUME NEW p \in DOMAIN pages, NEW i, Was(p, i), Chunk(p, i) = x.chunk
      PROVE  IsNative(after, x.chunk)
  BY <1>5, <1>8 DEF Absent
<1>9. ASSUME NEW p, NEW q, NEW i, NEW k, Added(p, i), Added(q, k)
      PROVE  p = q /\ i = k
  BY <1>9
<1>10. ASSUME NEW p, NEW i, Added(p, i) PROVE Chunk(p, i) = x.chunk
  BY <1>10
<1> HIDE DEF Was, Added, Chunk
<1>11. ASSUME NEW p \in DOMAIN pages, NEW q \in DOMAIN pages,
              NEW i \in Slots(after, p), NEW k \in Slots(after, q), Chunk(p, i) = Chunk(q, k)
       PROVE  (p = q /\ i = k) \/ IsNative(after, Chunk(p, i))
  <2>1. CASE Was(p, i) /\ Was(q, k)
    BY <1>7, <1>11, <2>1
  <2>2. CASE Was(p, i) /\ Added(q, k)
    BY <1>8, <1>10, <1>11, <2>2
  <2>3. CASE Added(p, i) /\ Was(q, k)
    BY <1>8, <1>10, <1>11, <2>3
  <2>4. CASE Added(p, i) /\ Added(q, k)
    BY <1>9, <2>4
  <2> QED
    BY <1>6, <2>1, <2>2, <2>3, <2>4
<1>12. Owned(after)
  <2>1. ASSUME NEW p \in DOMAIN after, NEW q \in DOMAIN after,
               NEW i \in Slots(after, p), NEW k \in Slots(after, q),
               after[p].migrants[i].chunk = after[q].migrants[k].chunk
        PROVE  (p = q /\ i = k) \/ IsNative(after, after[p].migrants[i].chunk)
    <3>1. p \in DOMAIN pages /\ q \in DOMAIN pages
      BY <1>5
    <3>2. Chunk(p, i) = Chunk(q, k)
      BY <2>1 DEF Chunk
    <3>3. (p = q /\ i = k) \/ IsNative(after, Chunk(p, i))
      BY <1>11, <3>1, <3>2
    <3> QED
      BY <3>3 DEF Chunk
  <2> QED
    BY <2>1, Zenon DEF Owned
<1> QED
  BY <1>5, <1>12

LEMMA RemoveOwned ==
    ASSUME NEW pages, NEW n \in Nat, AllWithin(pages, n), Owned(pages), NEW id \in DOMAIN pages,
           NEW i \in Slots(pages, id),
           NEW after, GivesMigrants(pages, id, RemoveAt(pages[id].migrants, i), after)
    PROVE  LET x == pages[id].migrants[i]
           IN  /\ AllWithin(after, n) /\ Owned(after) /\ DOMAIN after = DOMAIN pages
               /\ x \in MigrantType /\ x.chunk \in 1 .. n
               /\ IsNative(after, x.chunk) \/ Absent(after, x.chunk)
<1> DEFINE m == pages[id].migrants
           x == m[i]
           m2 == RemoveAt(m, i)
<1>1. /\ m \in Seq(MigrantType) /\ Len(m) \in Nat /\ \A k \in 1 .. Len(m) : m[k].chunk \in 1 .. n
      /\ i \in 1 .. Len(m)
  BY DEF AllWithin, CachedPage, Within, Slots
<1>2. GivesMigrants(pages, id, m2, after)
  OBVIOUS
<1> HIDE DEF m
<1>3. x \in MigrantType /\ x.chunk \in 1 .. n
  BY <1>1
<1>4. /\ m2 \in Seq(MigrantType) /\ Len(m2) = Len(m) - 1
      /\ \A k \in 1 .. Len(m) - 1 : m2[k] = IF k < i THEN m[k] ELSE m[k + 1]
  BY <1>1, Removed
<1> HIDE DEF m2, x
<1> DEFINE From1(k) == IF k < i THEN k ELSE k + 1
<1>5. ASSUME NEW k \in 1 .. Len(m2)
      PROVE  From1(k) \in 1 .. Len(m) /\ From1(k) # i /\ m2[k] = m[From1(k)]
  BY <1>1, <1>4
<1>6. ASSUME NEW k \in 1 .. Len(m2), NEW j \in 1 .. Len(m2), From1(k) = From1(j) PROVE k = j
  BY <1>1, <1>4, <1>6
<1> HIDE DEF From1
<1>7. m2 \in MigrantsWithin(n)
  <2>1. \A k \in 1 .. Len(m2) : m2[k].chunk \in 1 .. n
    BY <1>1, <1>5
  <2> QED
    BY <1>4, <2>1 DEF MigrantsWithin
<1>8. /\ AllWithin(after, n) /\ DOMAIN after = DOMAIN pages /\ after[id].migrants = m2
      /\ \A p \in DOMAIN pages : p # id => after[p] = pages[p]
      /\ \A c : IsNative(pages, c) <=> IsNative(after, c)
  BY <1>2, <1>7, PageReplaced
<1> DEFINE Chunk(p, k) == after[p].migrants[k].chunk
           Was(p, k) == IF p = id THEN From1(k) ELSE k
<1>9. ASSUME NEW p \in DOMAIN pages, NEW k \in Slots(after, p)
      PROVE  /\ Was(p, k) \in Slots(pages, p) /\ ~(p = id /\ Was(p, k) = i)
             /\ Chunk(p, k) = pages[p].migrants[Was(p, k)].chunk
  <2>1. CASE p = id
    BY <1>5, <1>8, <2>1 DEF Slots, m
  <2>2. CASE p # id
    BY <1>8, <2>2 DEF Slots
  <2> QED
    BY <2>1, <2>2
<1>10. ASSUME NEW p \in DOMAIN pages, NEW k \in Slots(after, p), NEW j \in Slots(after, p),
              Was(p, k) = Was(p, j)
       PROVE  k = j
  <2>1. CASE p = id
    <3>1. k \in 1 .. Len(m2) /\ j \in 1 .. Len(m2)
      BY <1>8, <2>1 DEF Slots
    <3> QED
      BY <1>6, <1>10, <2>1, <3>1
  <2>2. CASE p # id
    BY <1>10, <2>2
  <2> QED
    BY <2>1, <2>2
<1> HIDE DEF Was
<1>11. ASSUME NEW p \in DOMAIN pages, NEW q \in DOMAIN pages,
              NEW k \in Slots(after, p), NEW j \in Slots(after, q), Chunk(p, k) = Chunk(q, j)
       PROVE  (p = q /\ k = j) \/ IsNative(after, Chunk(p, k))
  <2>1. /\ Was(p, k) \in Slots(pages, p) /\ Was(q, j) \in Slots(pages, q)
        /\ Chunk(p, k) = pages[p].migrants[Was(p, k)].chunk
        /\ Chunk(q, j) = pages[q].migrants[Was(q, j)].chunk
    BY <1>9
  <2>2. \/ p = q /\ Was(p, k) = Was(q, j)
        \/ IsNative(pages, Chunk(p, k))
    BY <1>11, <2>1 DEF Owned
  <2> HIDE DEF Chunk
  <2> QED
    BY <1>8, <1>10, <2>2
<1>12. ASSUME ~Absent(after, x.chunk) PROVE IsNative(after, x.chunk)
  <2>1. PICK p \in DOMAIN pages : \E k \in Slots(after, p) : Chunk(p, k) = x.chunk
    BY <1>8, <1>12 DEF Absent
  <2>2. PICK k \in Slots(after, p) : Chunk(p, k) = x.chunk
    BY <2>1
  <2>3. /\ Was(p, k) \in Slots(pages, p) /\ ~(p = id /\ Was(p, k) = i)
        /\ pages[p].migrants[Was(p, k)].chunk = x.chunk
    BY <1>9, <2>2
  <2>4. x = pages[id].migrants[i]
    BY DEF x, m
  <2>5. IsNative(pages, x.chunk)
    BY <2>3, <2>4 DEF Owned
  <2> QED
    BY <1>8, <2>5
<1>13. Owned(after)
  <2>1. ASSUME NEW p \in DOMAIN after, NEW q \in DOMAIN after,
               NEW k \in Slots(after, p), NEW j \in Slots(after, q),
               after[p].migrants[k].chunk = after[q].migrants[j].chunk
        PROVE  (p = q /\ k = j) \/ IsNative(after, after[p].migrants[k].chunk)
    <3>1. p \in DOMAIN pages /\ q \in DOMAIN pages
      BY <1>8
    <3> QED
      BY <1>11, <2>1, <3>1
  <2> QED
    BY <2>1, Zenon DEF Owned
<1> QED
  BY <1>3, <1>8, <1>12, <1>13 DEF x, m

LEMMA MigratingFacts ==
    ASSUME IInv, Migrating, ~NoSuchPage
    PROVE  From \in DOMAIN cache /\ To \in DOMAIN cache
<1>1. list \in Seq(PageIds) /\ InCache(list) /\ block \in Blocks /\ pos \in Nat
  BY DEF IInv, Listed
<1>2. /\ Migration.fromIndex \in Int /\ Migration.toIndex \in Int /\ Migration.chunkIndex \in Int
  <2>1. block.migrations \in Seq([fromIndex : Int, chunkIndex : Int, toIndex : Int])
    BY <1>1, BlockType
  <2>2. pos + 1 \in 1 .. Len(block.migrations)
    BY <1>1, <2>1 DEF Migrating
  <2> DEFINE s == block.migrations
             R == [fromIndex : Int, chunkIndex : Int, toIndex : Int]
  <2>3. s[pos + 1] \in R
    <3>1. s \in Seq(R) /\ pos + 1 \in 1 .. Len(s)
      BY <2>1, <2>2
    <3> HIDE DEF s, R
    <3> QED
      BY <3>1
  <2> QED
    BY <2>3 DEF Migration
<1>3. From \in DOMAIN cache /\ To \in DOMAIN cache
  <2> DEFINE f == Migration.fromIndex
             g == Migration.toIndex
  <2>1. f \in 0 .. Len(list) - 1 /\ g \in 0 .. Len(list) - 1
    BY DEF NoSuchPage
  <2>2. f + 1 \in 1 .. Len(list) /\ g + 1 \in 1 .. Len(list)
    <3> HIDE DEF f, g
    <3> QED
      BY <1>1, <2>1
  <2> QED
    BY <1>1, <2>2 DEF From, To, InCache
<1> QED
  BY <1>3

LEMMA MigrateInv ==
    ASSUME IInv, Migrate
    PROVE  IInv'
<1> DEFINE n == Len(chunks)
           native == Migrant(From, cache[From].native)
           i == Migration.chunkIndex + 1
           x == cache[From].migrants[i]
           without == [cache EXCEPT ![From].migrants = RemoveAt(cache[From].migrants, i)]
<1>1. /\ list \in Seq(PageIds) /\ InCache(list) /\ block \in Blocks /\ pos \in Nat
      /\ AllWithin(cache, n) /\ chunks \in Seq(Sound) /\ n \in Nat
      /\ Owned(cache) /\ DOMAIN cache \subseteq PageIds
  BY DEF IInv, Listed, Cached
<1>2. /\ Migrating /\ ~NoSuchPage /\ ~NoSuchMigrant /\ pos' = pos + 1
      /\ UNCHANGED <<chain, cut, chunks, previous, block, stage, pending, list, index>>
  BY DEF Migrate
<1>3. From \in DOMAIN cache /\ To \in DOMAIN cache
  BY <1>2, MigratingFacts
<1>5. cache[From] \in CachedPage /\ Within(cache[From], n)
  BY <1>1, <1>3 DEF AllWithin
<1>6. AllWithin(cache', n) /\ Owned(cache') /\ DOMAIN cache' = DOMAIN cache
  <2>1. CASE MigratesNative
    <3>1. GivesMigrants(cache, To, Append(cache[To].migrants, native), cache')
      BY <2>1 DEF Migrate, GivesMigrants
    <3>2. native \in MigrantType /\ native.chunk = cache[From].native
      BY <1>1, <1>3, <1>5 DEF Migrant, MigrantType, CachedPage, Ids
    <3>3. native.chunk \in 1 .. n /\ IsNative(cache, native.chunk)
      BY <1>3, <1>5, <3>2 DEF Within, IsNative
    <3> HIDE DEF native, n
    <3> QED
      BY <1>1, <1>3, <3>1, <3>2, <3>3, AppendOwned
  <2>2. CASE ~MigratesNative
    <3>1. i \in Slots(cache, From)
      <4>1. i \in DOMAIN cache[From].migrants
        BY <1>2, <2>2 DEF NoSuchMigrant
      <4> QED
        BY <1>5, <4>1 DEF CachedPage, Slots
    <3>2. GivesMigrants(cache, From, RemoveAt(cache[From].migrants, i), without)
      BY DEF GivesMigrants
    <3>3. GivesMigrants(without, To, Append(without[To].migrants, x), cache')
      BY <2>2 DEF Migrate, Extracted, GivesMigrants
    <3> HIDE DEF without, i, n
    <3>4. /\ AllWithin(without, n) /\ Owned(without) /\ DOMAIN without = DOMAIN cache
          /\ x \in MigrantType /\ x.chunk \in 1 .. n
          /\ IsNative(without, x.chunk) \/ Absent(without, x.chunk)
      BY <1>1, <1>3, <3>1, <3>2, RemoveOwned
    <3> HIDE DEF x
    <3>5. AllWithin(cache', n) /\ Owned(cache') /\ DOMAIN cache' = DOMAIN without
      BY <1>1, <1>3, <3>3, <3>4, AppendOwned
    <3> QED
      BY <3>4, <3>5
  <2> QED
    BY <2>1, <2>2
<1>7. Cached' /\ Owned(cache)'
  <2>1. Owned(cache') <=> Owned(cache)'
    BY DEF Owned, Slots, IsNative
  <2>2. AllWithin(cache', n) <=> AllWithin(cache, Len(chunks))'
    BY <1>2 DEF AllWithin
  <2> QED
    BY <1>1, <1>2, <1>6, <2>1, <2>2 DEF Cached
<1>8. Listed' /\ WritableByList'
  BY <1>1, <1>2, <1>6 DEF IInv, Listed, InCache, Migrating, WritableByList
<1>9. Given' /\ Indices'
  BY <1>2 DEF IInv, Given, Indices
<1> QED
  BY <1>7, <1>8, <1>9 DEF IInv

-----------------------------------------------------------------------------
(* ChunkIndex *)

\* A page of a list has the chunk.
HasChunk(pages, c) ==
    \E i \in DOMAIN pages : \E k \in DOMAIN ChunksOf(cache[pages[i]]) :
        ChunksOf(cache[pages[i]])[k] = c

LEMMA EntriesFacts ==
    ASSUME NEW n \in Nat, AllWithin(cache, n), NEW pages \in Seq(PageIds), InCache(pages)
    PROVE  /\ Entries(pages) \in Seq(MigrantType)
           /\ \A c : (\E j \in DOMAIN Entries(pages) : Entries(pages)[j].chunk = c)
                        <=> HasChunk(pages, c)
           /\ \A j \in DOMAIN Entries(pages) : Entries(pages)[j].chunk \in 1 .. n
<1> DEFINE Own(id) == <<Migrant(id, cache[id].native)>>
           Part(id) == Own(id) \o cache[id].migrants
           seqs == [i \in DOMAIN pages |-> Part(pages[i])]
           E == MigrantType
<1>1. DOMAIN pages = 1 .. Len(pages) /\ Len(pages) \in Nat
  OBVIOUS
<1>2. ASSUME NEW i \in DOMAIN pages
      PROVE  pages[i] \in PageIds /\ cache[pages[i]] \in CachedPage /\ Within(cache[pages[i]], n)
  BY <1>1 DEF InCache, AllWithin
<1>3. ASSUME NEW id \in PageIds, NEW page \in CachedPage, page = cache[id], Within(page, n)
      PROVE  /\ Part(id) \in Seq(E) /\ DOMAIN Part(id) = DOMAIN ChunksOf(cache[id])
             /\ \A k \in DOMAIN Part(id) :
                   Part(id)[k].chunk = ChunksOf(cache[id])[k] /\ Part(id)[k].chunk \in 1 .. n
  <2> DEFINE m == page.migrants
             a == <<Migrant(id, page.native)>>
             all == ChunksOf(page)
  <2>1. m \in Seq(E) /\ page.native \in Nat /\ Len(m) \in Nat
    BY DEF CachedPage
  <2>2. Migrant(id, page.native) \in E /\ Migrant(id, page.native).chunk = page.native
    BY <2>1 DEF Migrant, MigrantType, Ids
  <2>3. a \in Seq(E) /\ Len(a) = 1 /\ a[1].chunk = page.native
    BY <2>2
  <2>4. Part(id) = a \o m
    BY <1>3
  <2> HIDE DEF Part, a, E
  <2>5. /\ a \o m \in Seq(E) /\ Len(a \o m) = Len(a) + Len(m)
        /\ \A k \in 1 .. Len(a) + Len(m) : (a \o m)[k] = IF k <= Len(a) THEN a[k] ELSE m[k - Len(a)]
    BY <2>1, <2>3, ConcatProperties
  <2>6. /\ DOMAIN all = 1 .. Len(m) + 1 /\ all[1] = page.native
        /\ \A k \in 2 .. Len(m) + 1 : all[k] = m[k - 1].chunk /\ k - 1 \in 1 .. Len(m)
        /\ all \in Seq(1 .. n)
    BY <1>3, PageChunks
  <2> HIDE DEF all, m
  <2>7. DOMAIN (a \o m) = 1 .. Len(m) + 1
    BY <2>1, <2>3, <2>5
  <2>8. ASSUME NEW k \in 1 .. Len(m) + 1 PROVE (a \o m)[k].chunk = all[k] /\ all[k] \in 1 .. n
    <3>1. all[k] \in 1 .. n
      BY <2>6, <2>8
    <3>2. CASE k = 1
      <4>1. (a \o m)[k] = a[k]
        BY <2>1, <2>3, <2>5, <3>2
      <4> QED
        BY <2>3, <2>6, <3>1, <3>2, <4>1
    <3>3. CASE k # 1
      <4>1. k \in 2 .. Len(m) + 1 /\ ~(k <= 1) /\ k \in 1 .. Len(a) + Len(m)
        BY <2>1, <2>3, <3>3
      <4>2. (a \o m)[k] = m[k - 1]
        BY <2>3, <2>5, <4>1
      <4> QED
        BY <2>6, <3>1, <4>1, <4>2
    <3> QED
      BY <3>2, <3>3
  <2> QED
    BY <1>3, <2>4, <2>5, <2>6, <2>7, <2>8 DEF all
<1> HIDE DEF Part, E
<1>4. ASSUME NEW i \in DOMAIN pages
      PROVE  /\ seqs[i] \in Seq(E) /\ DOMAIN seqs[i] = DOMAIN ChunksOf(cache[pages[i]])
             /\ \A k \in DOMAIN seqs[i] :
                   seqs[i][k].chunk = ChunksOf(cache[pages[i]])[k] /\ seqs[i][k].chunk \in 1 .. n
  BY <1>2, <1>3
<1>5. seqs \in Seq(Seq(E)) /\ Len(seqs) = Len(pages)
  <2>1. seqs \in [1 .. Len(pages) -> Seq(E)]
    BY <1>1, <1>4
  <2> QED
    BY <1>1, <2>1
<1>6. Entries(pages) = FlattenSeq(seqs)
  BY DEF Entries, Part
<1> HIDE DEF seqs
<1>7. Entries(pages) \in Parts(E, seqs, Len(pages))
  BY <1>5, <1>6, Flattened
<1>8. Entries(pages) \in Seq(E)
  BY <1>7 DEF Parts
<1>9. ASSUME NEW j \in DOMAIN Entries(pages)
      PROVE  \E i \in DOMAIN pages : \E k \in DOMAIN seqs[i] : seqs[i][k] = Entries(pages)[j]
  <2>1. Entries(pages)[j] \in E
    BY <1>8
  <2> QED
    BY <1>1, <1>7, <2>1 DEF Parts, InParts, Has
<1>10. ASSUME NEW i \in DOMAIN pages, NEW k \in DOMAIN seqs[i]
       PROVE  \E j \in DOMAIN Entries(pages) : Entries(pages)[j] = seqs[i][k]
  <2> DEFINE x == seqs[i][k]
  <2>1. x \in E
    BY <1>4
  <2>2. InParts(seqs, Len(pages), x)
    BY <1>1 DEF InParts, Has
  <2> HIDE DEF x
  <2>3. \E j \in DOMAIN Entries(pages) : Entries(pages)[j] = x
    <3>1. Has(Entries(pages), x)
      BY <1>7, <2>1, <2>2 DEF Parts
    <3> QED
      BY <3>1 DEF Has
  <2> QED
    BY <2>3 DEF x
<1>11. ASSUME NEW c
       PROVE  (\E j \in DOMAIN Entries(pages) : Entries(pages)[j].chunk = c) <=> HasChunk(pages, c)
  <2>1. ASSUME NEW j \in DOMAIN Entries(pages), Entries(pages)[j].chunk = c PROVE HasChunk(pages, c)
    <3>1. PICK i \in DOMAIN pages : \E k \in DOMAIN seqs[i] : seqs[i][k] = Entries(pages)[j]
      BY <1>9
    <3>2. PICK k \in DOMAIN seqs[i] : seqs[i][k] = Entries(pages)[j]
      BY <3>1
    <3>3. k \in DOMAIN ChunksOf(cache[pages[i]]) /\ ChunksOf(cache[pages[i]])[k] = c
      BY <1>4, <2>1, <3>2
    <3> QED
      BY <3>3 DEF HasChunk
  <2>2. ASSUME HasChunk(pages, c)
        PROVE  \E j \in DOMAIN Entries(pages) : Entries(pages)[j].chunk = c
    <3>1. PICK i \in DOMAIN pages : \E k \in DOMAIN ChunksOf(cache[pages[i]]) :
                                       ChunksOf(cache[pages[i]])[k] = c
      BY <2>2 DEF HasChunk
    <3>2. PICK k \in DOMAIN seqs[i] : seqs[i][k].chunk = c
      BY <1>4, <3>1
    <3> QED
      BY <1>10, <3>2
  <2> QED
    BY <2>1, <2>2
<1>12. ASSUME NEW j \in DOMAIN Entries(pages) PROVE Entries(pages)[j].chunk \in 1 .. n
  BY <1>4, <1>9
<1> QED
  BY <1>8, <1>11, <1>12 DEF E

LEMMA GreatestOf ==
    ASSUME NEW N \in Nat, NEW f \in [1 .. N -> Nat], NEW T \in SUBSET (1 .. N)
    PROVE  \E n \in {f[b] : b \in T} \cup {0} :
              n \in Nat /\ \A k \in {f[b] : b \in T} \cup {0} : k <= n
<1> DEFINE Some(n) == {f[b] : b \in {t \in T : t <= n}} \cup {0}
           Done == {n \in 0 .. N : \E m \in Some(n) : m \in Nat /\ \A k \in Some(n) : k <= m}
<1>1. 0 \in Done
  <2>1. Some(0) = {0}
    <3>1. \A t \in T : ~(t <= 0)
      OBVIOUS
    <3> QED
      BY <3>1
  <2> QED
    BY <2>1
<1>2. ASSUME NEW n \in 1 .. N, n - 1 \in Done PROVE n \in Done
  <2>1. PICK m \in Some(n - 1) : m \in Nat /\ \A k \in Some(n - 1) : k <= m
    BY <1>2
  <2>2. f[n] \in Nat
    OBVIOUS
  <2>3. \A t \in T : t <= n <=> t <= n - 1 \/ t = n
    OBVIOUS
  <2>4. CASE n \notin T
    <3>1. Some(n) = Some(n - 1)
      BY <2>3, <2>4
    <3> HIDE DEF Some
    <3> QED
      BY <2>1, <3>1
  <2>5. CASE n \in T
    <3>1. Some(n) = Some(n - 1) \cup {f[n]}
      <4>1. \A x \in Some(n) : x \in Some(n - 1) \/ x = f[n]
        BY <2>3
      <4>2. \A x \in Some(n - 1) : x \in Some(n)
        BY <2>3
      <4>3. f[n] \in Some(n)
        BY <2>5
      <4> QED
        BY <4>1, <4>2, <4>3
    <3> HIDE DEF Some
    <3>2. CASE f[n] <= m
      <4>1. m \in Some(n) /\ \A k \in Some(n) : k <= m
        BY <2>1, <3>1, <3>2
      <4> QED
        BY <2>1, <4>1
    <3>3. CASE ~(f[n] <= m)
      <4>1. \A k \in Some(n) : k <= f[n]
        <5>1. ASSUME NEW k \in Some(n - 1), k \in Int PROVE k <= f[n]
          BY <2>1, <2>2, <3>3, <5>1
        <5>2. \A k \in Some(n - 1) : k \in Int
          BY DEF Some
        <5> QED
          BY <2>2, <3>1, <5>1, <5>2
      <4> QED
        BY <2>2, <3>1, <4>1
    <3> QED
      BY <3>2, <3>3
  <2> QED
    BY <2>4, <2>5
<1> HIDE DEF Done
<1>3. \A n \in 0 .. N : n \in Done
  BY <1>1, <1>2, CountUp
<1>4. N \in Done
  BY <1>3
<1>5. {t \in T : t <= N} = T
  <2>1. \A t \in T : t <= N
    OBVIOUS
  <2> QED
    BY <2>1, Zenon
<1> QED
  BY <1>4, <1>5 DEF Done

LEMMA IndexedType ==
    ASSUME NEW n \in Nat, AllWithin(cache, n),
           block.readonly \in Seq(PageIds), block.writable \in Seq(PageIds),
           InCache(block.readonly), InCache(block.writable),
           NEW id \in DOMAIN Indexed
    PROVE  /\ Indexed[id] \in 1 .. n
           /\ HasChunk(block.readonly, Indexed[id]) \/ HasChunk(block.writable, Indexed[id])
<1> DEFINE s == Entries(block.readonly)
           t == Entries(block.writable)
           all == s \o t
           Of == {i \in DOMAIN all : all[i].id = id}
<1>1. /\ s \in Seq(MigrantType)
      /\ \A c : (\E j \in DOMAIN s : s[j].chunk = c) <=> HasChunk(block.readonly, c)
      /\ \A j \in DOMAIN s : s[j].chunk \in 1 .. n
  BY EntriesFacts
<1>2. /\ t \in Seq(MigrantType)
      /\ \A c : (\E j \in DOMAIN t : t[j].chunk = c) <=> HasChunk(block.writable, c)
      /\ \A j \in DOMAIN t : t[j].chunk \in 1 .. n
  BY EntriesFacts
<1>3. PagesFor(IndexOrder[1]) = block.readonly /\ PagesFor(IndexOrder[2]) = block.writable
  BY DEF IndexOrder, PagesFor
<1>4. Indexed = [x \in {all[i].id : i \in DOMAIN all} |->
                    all[Least({i \in DOMAIN all : all[i].id = x})].chunk]
  BY <1>3 DEF Indexed
<1> HIDE DEF s, t
<1>5. id \in {all[i].id : i \in DOMAIN all} /\ Indexed[id] = all[Least(Of)].chunk
  BY <1>4
<1>6. Least(Of) \in Of
  <2>1. Of # {}
    BY <1>5
  <2>2. all \in Seq(MigrantType)
    BY <1>1, <1>2, ConcatProperties
  <2>3. Of \subseteq Nat
    <3> HIDE DEF all
    <3>1. DOMAIN all \subseteq Nat
      BY <2>2
    <3> QED
      BY <3>1
  <2> HIDE DEF Of
  <2>4. \E m \in Of : \A k \in Of : m <= k
    BY <2>1, <2>3, LeastNat
  <2> QED
    BY <2>4 DEF Least
<1> DEFINE i == Least(Of)
           x == all[i]
<1>7. i \in DOMAIN all /\ Indexed[id] = x.chunk
  BY <1>5, <1>6
<1> HIDE DEF i, Of
<1>8. Has(all, x)
  BY <1>7 DEF Has
<1> HIDE DEF x
<1>9. Has(s, x) \/ Has(t, x)
  BY <1>1, <1>2, <1>8, InConcat
<1>10. CASE Has(s, x)
  BY <1>1, <1>7, <1>10 DEF Has, s
<1>11. CASE Has(t, x)
  BY <1>2, <1>7, <1>11 DEF Has, t
<1> QED
  BY <1>9, <1>10, <1>11

LEMMA FlagMeans ==
    ASSUME IInv, pending = {}, NEW c \in 1 .. Len(chunks)
    PROVE  /\ Flag(c) \in BOOLEAN
           /\ HasChunk(block.readonly, c) \/ HasChunk(block.writable, c) =>
                 (Flag(c) <=> HasChunk(block.writable, c))
<1>1. /\ Len(chunks) \in Nat /\ AllWithin(cache, Len(chunks)) /\ chunks[c] \in Sound
      /\ InCache(block.readonly) /\ InCache(block.writable) /\ block \in Blocks
  BY DEF IInv, Cached, Listed
<1>2. block.readonly \in Seq(PageIds) /\ block.writable \in Seq(PageIds)
  BY <1>1, BlockType
<1> DEFINE In(pages) == \E j \in DOMAIN Entries(pages) : Entries(pages)[j].chunk = c
<1>3. In(block.readonly) <=> HasChunk(block.readonly, c)
  BY <1>1, <1>2, EntriesFacts
<1>4. In(block.writable) <=> HasChunk(block.writable, c)
  BY <1>1, <1>2, EntriesFacts
<1>5. PagesFor(FALSE) = block.readonly /\ PagesFor(TRUE) = block.writable
  BY DEF PagesFor
<1>6. Flag(c) = IF In(block.writable) THEN TRUE
                ELSE IF In(block.readonly) THEN FALSE ELSE chunks[c].writable
  BY <1>5 DEF Flag, IndexOrder
<1> HIDE DEF In
<1>7. chunks[c].writable \in BOOLEAN
  BY <1>1, SoundFacts
<1> QED
  BY <1>3, <1>4, <1>6, <1>7

LEMMA FlaggedSound ==
    ASSUME NEW c \in Sound, NEW flag \in BOOLEAN
    PROVE  LET d == [c EXCEPT !.writable = flag]
           IN  d \in Sound /\ d.writable = flag /\ (Tidy(c) => Tidy(d))
               /\ ContentOf(d) = ContentOf(c)
<1> DEFINE d == [c EXCEPT !.writable = flag]
<1>1. c = [size |-> c.size, bytes |-> c.bytes, writable |-> c.writable]
      /\ c.size \in Nat /\ c.bytes \in Seq(Nat) /\ c.size <= Len(c.bytes)
  BY SoundFacts
<1>2. d = [size |-> c.size, bytes |-> c.bytes, writable |-> flag]
  BY <1>1
<1> HIDE DEF d
<1>3. d \in Sound /\ d.writable = flag
  BY <1>1, <1>2 DEF Sound
<1>4. d.size = c.size /\ d.bytes = c.bytes
  BY <1>2
<1> QED
  BY <1>3, <1>4 DEF Tidy, Capacity, ContentOf, d

LEMMA BuildIndexInv ==
    ASSUME IInv, BuildIndex
    PROVE  /\ IInv' /\ (TidyBut(chunks, torn) => TidyBut(chunks, torn)')
           /\ \A c \in 1 .. Len(chunks) :
                 /\ Tidy(chunks[c]) => Tidy(chunks'[c])
                 /\ ContentOf(chunks'[c]) = ContentOf(chunks[c])
<1> DEFINE n == Len(chunks)
           N == Len(block.bounds)
           missing == {b \in DOMAIN block.bounds : block.bounds[b].id \notin DOMAIN Indexed}
           reached == {b \in DOMAIN block.bounds : \A m \in missing : b < m}
           Reached(c) == {r \in reached : Indexed[block.bounds[r].id] = c}
           Upper(c) == {block.bounds[b].upper : b \in Reached(c)} \cup {0}
           Greatest(S) == CHOOSE m \in S : \A k \in S : k <= m
           Flagged(c) == [chunks[c] EXCEPT !.writable = Flag(c)]
<1>1. /\ stage = "indexing"
      /\ chunks' = [c \in DOMAIN chunks |-> ReserveSpace(Flagged(c), Greatest(Upper(c)))]
      /\ \/ /\ missing = {}
            /\ index' = Indexed
            /\ stage' = "executing"
            /\ UNCHANGED <<block, pending, list, pos>>
         \/ missing # {} /\ Left
      /\ UNCHANGED <<chain, cut, cache, previous, torn>>
  BY DEF BuildIndex
<1>2. /\ pending = {} /\ block \in Blocks /\ InCache(block.readonly) /\ InCache(block.writable)
      /\ chunks \in Seq(Sound) /\ n \in Nat /\ DOMAIN chunks = 1 .. n
      /\ AllWithin(cache, n) /\ DOMAIN cache \subseteq PageIds
  BY <1>1 DEF IInv, Listed, Cached
<1>3. /\ block.readonly \in Seq(PageIds) /\ block.writable \in Seq(PageIds)
      /\ block.bounds \in Seq([id : Seq(Nat), upper : Nat])
  BY <1>2, BlockType
<1>4. /\ N \in Nat /\ DOMAIN block.bounds = 1 .. N
      /\ \A b \in 1 .. N : block.bounds[b].upper \in Nat
  <2> DEFINE s == block.bounds
             R == [id : Seq(Nat), upper : Nat]
  <2>1. s \in Seq(R) /\ \A x \in R : x.upper \in Nat
    BY <1>3
  <2> HIDE DEF s, R
  <2>2. Len(s) \in Nat /\ DOMAIN s = 1 .. Len(s) /\ \A b \in 1 .. Len(s) : s[b].upper \in Nat
    BY <2>1
  <2> QED
    BY <2>2 DEF s
<1> HIDE DEF missing
<1>5. ASSUME NEW c PROVE Greatest(Upper(c)) \in Nat
  <2> DEFINE f == [b \in 1 .. N |-> block.bounds[b].upper]
             T == Reached(c)
  <2>1. f \in [1 .. N -> Nat]
    BY <1>4
  <2>2. T \in SUBSET (1 .. N)
    BY <1>4
  <2> HIDE DEF T, N
  <2>3. \E m \in {f[b] : b \in T} \cup {0} :
            m \in Nat /\ \A k \in {f[b] : b \in T} \cup {0} : k <= m
    <3> HIDE DEF f
    <3> QED
      BY <1>4, <2>1, <2>2, GreatestOf
  <2>4. {block.bounds[b].upper : b \in T} = {f[b] : b \in T}
    <3>1. \A b \in T : f[b] = block.bounds[b].upper
      BY <2>2
    <3> HIDE DEF f
    <3> QED
      BY <3>1
  <2> DEFINE S == {f[b] : b \in T} \cup {0}
  <2>5. Upper(c) = S
    BY <2>4 DEF T
  <2>6. \A k \in S : k \in Nat
    <3>1. \A b \in T : f[b] \in Nat
      BY <2>1, <2>2
    <3> HIDE DEF f
    <3> QED
      BY <3>1
  <2>7. \E m \in S : \A k \in S : k <= m
    BY <2>3
  <2> HIDE DEF S, Upper
  <2>8. Greatest(S) \in S
    BY <2>7
  <2> QED
    BY <2>5, <2>6, <2>8
<1> HIDE DEF Upper, Greatest
<1>6. ASSUME NEW c \in 1 .. n
      PROVE  /\ chunks'[c] \in Sound /\ chunks'[c].writable = Flag(c)
             /\ Tidy(chunks[c]) => Tidy(chunks'[c])
             /\ ContentOf(chunks'[c]) = ContentOf(chunks[c])
  <2>1. Flag(c) \in BOOLEAN /\ chunks[c] \in Sound
    BY <1>2, FlagMeans
  <2> DEFINE d == Flagged(c)
             u == Greatest(Upper(c))
  <2>2. d \in Sound /\ d.writable = Flag(c) /\ (Tidy(chunks[c]) => Tidy(d))
        /\ ContentOf(d) = ContentOf(chunks[c])
    BY <2>1, FlaggedSound
  <2>3. chunks'[c] = ReserveSpace(d, u)
    BY <1>1, <1>2
  <2>4. u \in Nat
    BY <1>5
  <2> HIDE DEF d, u
  <2> QED
    BY <2>2, <2>3, <2>4, ReserveSound, ReserveContent
<1>7. chunks' \in Seq(Sound) /\ Len(chunks') = n
  <2>1. DOMAIN chunks' = 1 .. n /\ chunks' = [c \in 1 .. n |-> chunks'[c]]
    BY <1>1, <1>2
  <2>2. chunks' \in [1 .. n -> Sound]
    BY <1>6, <2>1
  <2> QED
    BY <1>2, <2>2
<1> HIDE DEF n
<1>8. TidyBut(chunks, torn) => TidyBut(chunks, torn)'
  BY <1>1, <1>6, <1>7 DEF TidyBut, n
<1>9. Cached' /\ Owned(cache)'
  BY <1>1, <1>2, <1>7 DEF IInv, Cached, AllWithin, Owned, Slots, IsNative, n
<1>10. Given'
  BY <1>1 DEF IInv, Given
<1>11. CASE Left
  BY <1>6, <1>8, <1>9, <1>10, <1>11, LeftListed DEF IInv, n
<1>12. CASE index' = Indexed /\ stage' = "executing" /\ UNCHANGED <<block, pending, list, pos>>
  <2>1. Listed'
    BY <1>1, <1>2, <1>12 DEF IInv, Listed, InCache, Stages
  <2>2. ASSUME NEW id \in DOMAIN Indexed
        PROVE  /\ Indexed[id] \in 1 .. n
               /\ HasChunk(block.readonly, Indexed[id]) \/ HasChunk(block.writable, Indexed[id])
    BY <1>2, <1>3, IndexedType
  <2>3. Indices'
    BY <1>7, <1>12, <2>2 DEF Indices
  <2>4. ASSUME NEW id \in DOMAIN Indexed
        PROVE  chunks'[Indexed[id]].writable <=> HasChunk(block.writable, Indexed[id])
    <3> DEFINE c == Indexed[id]
    <3>1. c \in 1 .. n /\ (HasChunk(block.readonly, c) \/ HasChunk(block.writable, c))
      BY <2>2
    <3> HIDE DEF c
    <3>2. Flag(c) <=> HasChunk(block.writable, c)
      BY <1>2, <3>1, FlagMeans DEF n
    <3> QED
      BY <1>6, <3>1, <3>2 DEF c
  <2>5. WritableByList'
    <3>1. ASSUME NEW id \in DOMAIN index'
          PROVE  chunks'[index'[id]].writable <=>
                    \E i \in DOMAIN block'.writable :
                        \E k \in DOMAIN ChunksOf(cache'[block'.writable[i]]) :
                            ChunksOf(cache'[block'.writable[i]])[k] = index'[id]
      <4> DEFINE c == Indexed[id]
      <4>1. chunks'[c].writable <=> HasChunk(block.writable, c)
        BY <1>12, <2>4
      <4>2. cache' = cache /\ block' = block /\ index'[id] = c
        BY <1>1, <1>12
      <4> HIDE DEF c
      <4> QED
        BY <4>1, <4>2 DEF HasChunk
    <3> QED
      BY <3>1, Zenon DEF WritableByList
  <2> QED
    BY <1>6, <1>8, <1>9, <1>10, <2>1, <2>3, <2>5 DEF IInv, n
<1> QED
  BY <1>1, <1>11, <1>12

-----------------------------------------------------------------------------
(* Requests *)

Written(c, size, byte) ==
    [SetSize(c, size) EXCEPT !.bytes = [o \in DOMAIN @ |-> IF o = size THEN byte ELSE @[o]]]

LEMMA WriteSound ==
    ASSUME NEW c \in Sound, NEW size \in Nat, size <= Len(c.bytes), NEW byte \in Nat
    PROVE  Written(c, size, byte) \in Sound /\ (Tidy(c) => Tidy(Written(c, size, byte)))
<1> DEFINE n == Len(c.bytes)
           a == [o \in DOMAIN c.bytes |-> IF size < o /\ o <= c.size THEN 0 ELSE c.bytes[o]]
           b == [o \in DOMAIN a |-> IF o = size THEN byte ELSE a[o]]
           w == Written(c, size, byte)
<1>1. /\ c.size \in Nat /\ c.bytes \in Seq(Nat) /\ c.writable \in BOOLEAN
      /\ n \in Nat /\ DOMAIN c.bytes = 1 .. n /\ c.size <= n
      /\ \A o \in 1 .. n : c.bytes[o] \in Nat
      /\ c = [size |-> c.size, bytes |-> c.bytes, writable |-> c.writable]
  BY SoundFacts
<1>2. SetSize(c, size) = [size |-> size, bytes |-> a, writable |-> c.writable]
  <2>1. SetSize(c, size) = [c EXCEPT !.size = size, !.bytes = a]
    BY DEF SetSize
  <2> HIDE DEF a
  <2> QED
    BY <1>1, <2>1
<1>3. w = [size |-> size, bytes |-> b, writable |-> c.writable]
  <2>1. w = [SetSize(c, size) EXCEPT !.bytes =
                [o \in DOMAIN SetSize(c, size).bytes |->
                    IF o = size THEN byte ELSE SetSize(c, size).bytes[o]]]
    BY DEF Written
  <2> HIDE DEF a, w
  <2>2. SetSize(c, size).bytes = a
    BY <1>2
  <2>3. w = [SetSize(c, size) EXCEPT !.bytes = b]
    BY <2>1, <2>2
  <2> HIDE DEF b
  <2> QED
    BY <1>2, <2>3
<1>4. DOMAIN a = 1 .. n /\ DOMAIN b = 1 .. n
  BY <1>1
<1>5. \A o \in 1 .. n : b[o] = IF o = size THEN byte
                              ELSE IF size < o /\ o <= c.size THEN 0 ELSE c.bytes[o]
  BY <1>1, <1>4
<1>6. b \in Seq(Nat) /\ Len(b) = n
  <2>1. b = [o \in 1 .. n |-> b[o]]
    BY <1>4
  <2>2. \A o \in 1 .. n : b[o] \in Nat
    BY <1>1, <1>5
  <2> HIDE DEF b, n
  <2>3. b \in [1 .. n -> Nat]
    BY <2>1, <2>2
  <2>4. n \in Nat
    BY <1>1
  <2> QED
    BY <2>3, <2>4
<1> HIDE DEF a, b, w
<1>7. w \in Sound
  BY <1>1, <1>3, <1>6 DEF Sound
<1>8. ASSUME Tidy(c), NEW o \in size + 1 .. n PROVE b[o] = 0
  <2>1. o \in 1 .. n /\ o # size /\ size < o
    BY <1>1
  <2>2. CASE o <= c.size
    BY <1>5, <2>1, <2>2
  <2>3. CASE ~(o <= c.size)
    <3>1. o \in c.size + 1 .. n
      BY <1>1, <2>1, <2>3
    <3>2. c.bytes[o] = 0
      BY <1>8, <3>1 DEF Tidy, Capacity
    <3> QED
      BY <1>5, <2>1, <2>3, <3>2
  <2> QED
    BY <2>2, <2>3
<1>9. w.size = size /\ w.bytes = b
  BY <1>3
<1> QED
  BY <1>6, <1>7, <1>8, <1>9 DEF Tidy, Capacity, w

LEMMA ExecuteInv ==
    ASSUME IInv, NEW write \in block.writes, Execute(write)
    PROVE  IInv' /\ (TidyBut(chunks, torn) => TidyBut(chunks, torn)')
<1> DEFINE c == index[write.id]
           new == Written(chunks[c], write.size, write.byte)
           n == Len(chunks)
<1>1. /\ stage = "executing" /\ write.id \in DOMAIN index
      /\ write.size <= Len(chunks[c].bytes)
      /\ chunks' = [chunks EXCEPT ![c] = new]
      /\ stage' = "deciding"
      /\ UNCHANGED <<chain, cut, cache, previous, block, pending, list, pos, index, torn>>
  BY DEF Execute, Written, Capacity
<1>2. /\ block \in Blocks /\ chunks \in Seq(Sound) /\ n \in Nat /\ c \in 1 .. n
      /\ DOMAIN cache \subseteq PageIds /\ AllWithin(cache, n)
  BY <1>1 DEF IInv, Listed, Cached, Indices
<1>3. write.size \in Nat /\ write.byte \in Nat
  <2>1. write.size \in Nat /\ write.byte \in 0 .. Radix - 1
    BY <1>2, BlockType DEF Byte
  <2> QED
    BY <2>1, PrefixCodesAssumption
<1>4. chunks[c] \in Sound
  BY <1>2
<1>5. new \in Sound /\ (Tidy(chunks[c]) => Tidy(new))
  BY <1>1, <1>3, <1>4, WriteSound
<1> HIDE DEF new, c, n
<1>6. /\ chunks' \in Seq(Sound) /\ Len(chunks') = n
      /\ \A k \in 1 .. n : chunks'[k] = IF k = c THEN new ELSE chunks[k]
  BY <1>1, <1>2, <1>5, ExceptSeq DEF n
<1>7. TidyBut(chunks, torn) => TidyBut(chunks, torn)'
  BY <1>1, <1>5, <1>6 DEF TidyBut, n
<1>8. Cached' /\ Owned(cache)'
  BY <1>1, <1>2, <1>6 DEF IInv, Cached, AllWithin, Owned, Slots, IsNative, n
<1>9. Listed' /\ WritableByList'
  BY <1>1 DEF IInv, Listed, InCache, Stages, WritableByList
<1>10. Given' /\ Indices'
  BY <1>1, <1>6 DEF IInv, Given, Indices, n
<1> QED
  BY <1>7, <1>8, <1>9, <1>10 DEF IInv

-----------------------------------------------------------------------------
(* The theorems *)

LEMMA Unchanged == ASSUME IInv, UNCHANGED vars PROVE IInv'
<1>1. Given' /\ Listed' /\ Indices'
  BY DEF IInv, Given, Listed, InCache, Indices, vars
<1>2. Cached' /\ Owned(cache)'
  BY PagesKept DEF vars
<1>3. WritableByList'
  <2>1. /\ cache' = cache /\ chunks' = chunks /\ block' = block /\ stage' = stage /\ index' = index
        /\ WritableByList
    BY DEF IInv, vars
  <2>2. ASSUME stage' = "executing", NEW id \in DOMAIN index'
        PROVE  chunks'[index'[id]].writable <=>
                  \E i \in DOMAIN block'.writable :
                      \E k \in DOMAIN ChunksOf(cache'[block'.writable[i]]) :
                          ChunksOf(cache'[block'.writable[i]])[k] = index'[id]
    BY <2>1, <2>2 DEF WritableByList
  <2> QED
    BY <2>2, Zenon DEF WritableByList
<1> QED
  BY <1>1, <1>2, <1>3 DEF IInv

\* A step keeps the invariant, and the chunks tidy but for those that are torn.
LEMMA StepKeeps ==
    ASSUME IInv, [Next]_vars
    PROVE  IInv' /\ (TidyBut(chunks, torn) => TidyBut(chunks, torn)')
<1>1. CASE StartBlock
  BY <1>1, StartBlockInv DEF StartBlock, TidyBut
<1>2. CASE PreparePages
  BY <1>2, PreparePagesInv
<1>3. CASE SkipPage
  BY <1>3, SkipPageInv DEF SkipPage, TidyBut
<1>4. CASE UpdatePage
  BY <1>4, UpdatePageInv
<1>5. CASE RetryUpdate
  BY <1>5, RetryUpdateInv
<1>6. CASE UpdateFails
  BY <1>6, UpdateFailsInv
<1>7. CASE PagesUpdated
  BY <1>7, PagesUpdatedInv DEF PagesUpdated, TidyBut
<1>8. CASE Migrate
  BY <1>8, MigrateInv DEF Migrate, TidyBut
<1>9. CASE MigrationFails
  BY <1>9, LeavesInv DEF MigrationFails, TidyBut
<1>10. CASE PagesPrepared
  BY <1>10, PagesPreparedInv DEF PagesPrepared, TidyBut
<1>11. CASE BuildIndex
  BY <1>11, BuildIndexInv
<1>12. CASE \E write \in block.writes : Execute(write)
  BY <1>12, ExecuteInv
<1>13. CASE Decide
  BY <1>13, LeavesInv DEF Decide, TidyBut
<1>14. CASE UNCHANGED vars
  BY <1>14, Unchanged DEF vars, TidyBut
<1> QED
  BY <1>1, <1>2, <1>3, <1>4, <1>5, <1>6, <1>7, <1>8, <1>9, <1>10, <1>11, <1>12, <1>13, <1>14
     DEF Next

\* The invariant, which is inductive.
THEOREM CacheInvariant == Spec => []IInv
<1>1. IInv /\ [Next]_vars => IInv'
  BY StepKeeps
<1> QED
  BY <1>1, InitInv, PTL DEF Spec

LEMMA OwnersFollow == ASSUME IInv PROVE SingleOwner
<1>1. Owned(cache) /\ AllWithin(cache, Len(chunks))
  BY DEF IInv, Cached
<1>2. SUFFICES ASSUME NEW p \in DOMAIN cache, NEW q \in DOMAIN cache,
                      NEW i \in DOMAIN ChunksOf(cache[p]), NEW k \in DOMAIN ChunksOf(cache[q]),
                      ChunksOf(cache[p])[i] = ChunksOf(cache[q])[k]
               PROVE  \/ p = q /\ i = k
                      \/ \E id \in DOMAIN cache : cache[id].native = ChunksOf(cache[p])[i]
  BY DEF SingleOwner
<1> DEFINE c == ChunksOf(cache[p])[i]
<1>3. cache[p] \in CachedPage /\ cache[q] \in CachedPage
  BY <1>1 DEF AllWithin
<1> DEFINE m == Len(cache[p].migrants)
           n == Len(cache[q].migrants)
<1>4. /\ m \in Nat /\ DOMAIN ChunksOf(cache[p]) = 1 .. m + 1
      /\ ChunksOf(cache[p])[1] = cache[p].native
      /\ \A j \in 2 .. m + 1 :
            ChunksOf(cache[p])[j] = cache[p].migrants[j - 1].chunk /\ j - 1 \in 1 .. m
  BY <1>3, PageChunks
<1>5. /\ n \in Nat /\ DOMAIN ChunksOf(cache[q]) = 1 .. n + 1
      /\ ChunksOf(cache[q])[1] = cache[q].native
      /\ \A j \in 2 .. n + 1 :
            ChunksOf(cache[q])[j] = cache[q].migrants[j - 1].chunk /\ j - 1 \in 1 .. n
  BY <1>3, PageChunks
<1>6. CASE i = 1 \/ k = 1
  BY <1>2, <1>4, <1>5, <1>6
<1>7. CASE ~(i = 1 \/ k = 1)
  <2>1. i \in 2 .. m + 1 /\ k \in 2 .. n + 1
    BY <1>4, <1>5, <1>7
  <2>2. /\ i - 1 \in Slots(cache, p) /\ k - 1 \in Slots(cache, q)
        /\ cache[p].migrants[i - 1].chunk = c /\ cache[q].migrants[k - 1].chunk = c
    BY <1>2, <1>4, <1>5, <2>1 DEF Slots
  <2> HIDE DEF c
  <2>3. (p = q /\ i - 1 = k - 1) \/ IsNative(cache, c)
    BY <1>1, <2>2 DEF Owned
  <2>4. i - 1 = k - 1 => i = k
    BY <1>4, <1>5, <2>1
  <2> QED
    BY <2>3, <2>4 DEF IsNative, c
<1> QED
  BY <1>6, <1>7

\* "The page will take the ownership of the pointer" (Page.h:61): however many pages, blocks
\* and migrations there are and whatever the server answers, two places in the cache share a
\* chunk only if it is the native one of a page.
THEOREM OwnershipIsKept == Spec => []SingleOwner
<1>1. IInv => SingleOwner
  BY OwnersFollow
<1> QED
  BY <1>1, CacheInvariant, PTL

\* A chunk may be written in a block exactly if one of the block's writable pages has it
\* (Chunk.h:87), whatever was done with it in the blocks before.
THEOREM WritableIsByList == Spec => []WritableByList
<1>1. IInv => WritableByList
  BY DEF IInv
<1> QED
  BY <1>1, CacheInvariant, PTL

LEMMA TidyMeans == ASSUME IInv, TidyBut(chunks, torn) PROVE ZeroBehindSize
<1>1. chunks \in Seq(Sound)
  BY DEF IInv, Cached
<1>2. ASSUME NEW c \in DOMAIN chunks
      PROVE  /\ chunks[c].size <= Capacity(chunks[c])
             /\ c \notin torn => ZeroTail(chunks[c])
  <2>1. chunks[c] \in Sound /\ (c \notin torn => Tidy(chunks[c]))
    BY <1>1 DEF TidyBut
  <2> QED
    BY <2>1, SoundFacts DEF Tidy, Capacity, ZeroTail
<1> QED
  BY <1>2 DEF ZeroBehindSize

\* "offsets beyond chunkSize must be zero initialised at the start of every execution
\* session" (Chunk.cpp:55): whatever the deltas, the requests and the reservations of any
\* number of blocks were, for all chunks but those of pages on which a delta has thrown. One
\* that throws in the middle leaves the blocks it has read in the chunk, and the size as it
\* was (Chunk.cpp:108-118).
THEOREM TailsAreZero == Spec => []ZeroBehindSize
<1>1. Init => IInv /\ TidyBut(chunks, torn)
  <2>1. Init => TidyBut(chunks, torn)
    BY EmptySeq DEF Init, TidyBut
  <2> QED
    BY <2>1, InitInv
<1>2. (IInv /\ TidyBut(chunks, torn)) /\ [Next]_vars => (IInv /\ TidyBut(chunks, torn))'
  BY StepKeeps
<1>3. IInv /\ TidyBut(chunks, torn) => ZeroBehindSize
  BY TidyMeans
<1> QED
  BY <1>1, <1>2, <1>3, PTL DEF Spec

-----------------------------------------------------------------------------
(* Pages that follow the chain *)

\* What a page and its migrants say.
ContentIn(page, objects) ==
    [native |-> ContentOf(objects[page.native]),
     migrants |-> [i \in DOMAIN page.migrants |->
        [id |-> page.migrants[i].id, bytes |-> ContentOf(objects[page.migrants[i].chunk])]]]

Distinct(page) ==
    \A i, k \in DOMAIN ChunksOf(page) : ChunksOf(page)[i] = ChunksOf(page)[k] => i = k

Neat(page, objects) == \A c : Holds(page, c) => Tidy(objects[c])

\* Some bytes are a delta from one page of the chain to another: wherever the first is in a
\* cache, each chunk of its own and nothing behind the sizes, they make it the second.
IsDelta(s, old, new) ==
    \A objects \in Seq(Sound), page \in CachedPage :
        (/\ Within(page, Len(objects)) /\ Distinct(page) /\ Neat(page, objects)
         /\ ContentIn(page, objects) = old)
        => LET a == AppliedTo(page, objects, s)
           IN  ~a.threw /\ ContentIn(a.page, a.objects) = new

\* What the server answers is a delta, and it answers nothing only if nothing has changed.
ServerIsRight ==
    \A history \in Chains, id \in PageIds, n \in Versions, m \in Versions,
       style \in {"bytes", "span"} :
        LET s == Delta(history[n][id], history[m][id], style)
        IN  n <= m => /\ s = << >> => history[n][id] = history[m][id]
                      /\ s # << >> => IsDelta(s, history[n][id], history[m][id])

\* No other page has a chunk of this one.
Alone(pages, p) ==
    /\ Distinct(pages[p])
    /\ \A q \in DOMAIN pages : q # p => \A c : ~(Holds(pages[p], c) /\ Holds(pages[q], c))

Follows(pages, objects, p) ==
    /\ Alone(pages, p) /\ Neat(pages[p], objects)
    /\ ContentIn(pages[p], objects) = chain[pages[p].version][p]

CleanFollow == \A p \in DOMAIN cache : clean[p] => Follows(cache, chunks, p)

Dated == \A p \in DOMAIN cache : cache[p].version <= previous

\* The page did not change from its version to the previous block.
Fresh(p) == chain[cache[p].version][p] = chain[previous][p]

\* The pages that are read are fresh once it was their turn.
Refreshed ==
    stage # "idle" /\ "readonly" \notin pending =>
        \A i \in 1 .. Len(block.readonly) :
            \/ Fresh(block.readonly[i])
            \/ stage = "updating" /\ list = block.readonly /\ i > pos

FollowInv == clean \in [PageIds -> BOOLEAN] /\ Dated /\ Refreshed /\ CleanFollow

LEMMA HoldsMeans ==
    ASSUME NEW page \in CachedPage, NEW c
    PROVE  Holds(page, c) <=> \/ c = page.native
                              \/ \E k \in 1 .. Len(page.migrants) : page.migrants[k].chunk = c
<1> DEFINE all == ChunksOf(page)
           m == page.migrants
<1>1. /\ DOMAIN all = 1 .. Len(m) + 1 /\ Len(m) \in Nat /\ all[1] = page.native
      /\ \A k \in 1 .. Len(m) : all[k + 1] = m[k].chunk
      /\ \A k \in 2 .. Len(m) + 1 : all[k] = m[k - 1].chunk /\ k - 1 \in 1 .. Len(m)
  BY PageChunks
<1> HIDE DEF all, m
<1>2. ASSUME NEW k \in DOMAIN all, all[k] = c
      PROVE  c = page.native \/ \E j \in 1 .. Len(m) : m[j].chunk = c
  <2>1. CASE k = 1
    BY <1>1, <1>2, <2>1
  <2>2. CASE k # 1
    <3>1. k \in 2 .. Len(m) + 1
      BY <1>1, <1>2, <2>2
    <3> QED
      BY <1>1, <1>2, <3>1
  <2> QED
    BY <2>1, <2>2
<1>3. page.native = c => \E k \in DOMAIN all : all[k] = c
  <2>1. 1 \in DOMAIN all
    BY <1>1
  <2> QED
    BY <1>1, <2>1
<1>4. ASSUME NEW k \in 1 .. Len(m), m[k].chunk = c PROVE \E j \in DOMAIN all : all[j] = c
  <2>1. k + 1 \in DOMAIN all
    BY <1>1
  <2> QED
    BY <1>1, <1>4, <2>1
<1> QED
  BY <1>2, <1>3, <1>4 DEF Holds, all, m

LEMMA HoldsWithin ==
    ASSUME NEW page \in CachedPage, NEW n, Within(page, n), NEW c, Holds(page, c)
    PROVE  c \in 1 .. n
BY HoldsMeans DEF Within

\* A page is the same if its chunks are.
LEMMA SameContent ==
    ASSUME NEW page \in CachedPage, NEW objects, NEW next,
           \A c : Holds(page, c) => ContentOf(next[c]) = ContentOf(objects[c])
    PROVE  ContentIn(page, next) = ContentIn(page, objects)
<1>1. page.migrants \in Seq(MigrantType)
  BY DEF CachedPage
<1>2. ContentOf(next[page.native]) = ContentOf(objects[page.native])
  BY HoldsMeans
<1>3. ASSUME NEW i \in DOMAIN page.migrants
      PROVE  ContentOf(next[page.migrants[i].chunk]) = ContentOf(objects[page.migrants[i].chunk])
  <2>1. i \in 1 .. Len(page.migrants)
    BY <1>1
  <2> QED
    BY <2>1, HoldsMeans
<1> QED
  BY <1>2, <1>3, Zenon DEF ContentIn

\* What the other pages have that is not new, other pages had before.
LEMMA AloneKept ==
    ASSUME NEW pages, NEW n, AllWithin(pages, n), NEW p \in DOMAIN pages, Alone(pages, p),
           NEW after, after[p] = pages[p],
           \A q \in DOMAIN after : q # p => \A c : Holds(after[q], c) =>
               c \notin 1 .. n \/ \E o \in DOMAIN pages : o # p /\ Holds(pages[o], c)
    PROVE  Alone(after, p)
<1>1. ASSUME NEW q \in DOMAIN after, q # p, NEW c, Holds(after[p], c), Holds(after[q], c)
      PROVE  FALSE
  <2>1. Holds(pages[p], c)
    BY <1>1
  <2>2. c \in 1 .. n
    BY <2>1, HoldsWithin DEF AllWithin
  <2>3. PICK o \in DOMAIN pages : o # p /\ Holds(pages[o], c)
    BY <1>1, <2>2
  <2> QED
    BY <2>1, <2>3 DEF Alone
<1>2. Distinct(after[p])
  BY DEF Alone
<1> QED
  BY <1>1, <1>2 DEF Alone

LEMMA FollowsNow ==
    ASSUME UNCHANGED chain, NEW p, Alone(cache', p), Neat(cache'[p], chunks'),
           ContentIn(cache'[p], chunks') = chain[cache'[p].version][p]
    PROVE  Follows(cache, chunks, p)'
<1>1. Alone(cache, p)' /\ Neat(cache[p], chunks)'
  <2>1. Alone(cache', p) <=> Alone(cache, p)'
    BY DEF Alone, Distinct, Holds, ChunksOf
  <2>2. Neat(cache'[p], chunks') <=> Neat(cache[p], chunks)'
    BY DEF Neat, Holds, ChunksOf, Tidy, Capacity
  <2> QED
    BY <2>1, <2>2
<1>2. ContentIn(cache[p], chunks)' = ContentIn(cache'[p], chunks')
  BY DEF ContentIn, ContentOf
<1> QED
  BY <1>1, <1>2 DEF Follows

\* A page that is still alone, and whose chunks say what they said, follows the chain as before.
LEMMA FollowsKept ==
    ASSUME UNCHANGED chain, NEW p \in DOMAIN cache, cache[p] \in CachedPage,
           Follows(cache, chunks, p), cache'[p] = cache[p], Alone(cache', p),
           \A c : Holds(cache[p], c) =>
               /\ Tidy(chunks[c]) => Tidy(chunks'[c])
               /\ ContentOf(chunks'[c]) = ContentOf(chunks[c])
    PROVE  Follows(cache, chunks, p)'
<1>1. Neat(cache[p], chunks')
  BY DEF Follows, Neat
<1>2. ContentIn(cache[p], chunks') = ContentIn(cache[p], chunks)
  BY SameContent
<1> QED
  BY <1>1, <1>2, FollowsNow DEF Follows

\* Steps that leave the pages and the chunks alone.
LEMMA CleanKept ==
    ASSUME IInv, CleanFollow, UNCHANGED <<chain, cache, chunks, clean>> PROVE CleanFollow'
<1>1. ASSUME NEW p \in DOMAIN cache, Follows(cache, chunks, p) PROVE Follows(cache, chunks, p)'
  <2>1. cache[p] \in CachedPage /\ Alone(cache, p)
    BY <1>1 DEF IInv, Cached, AllWithin, Follows
  <2>2. chain' = chain /\ cache' = cache /\ chunks' = chunks
    OBVIOUS
  <2>3. Alone(cache', p)
    BY <2>1, <2>2
  <2> QED
    BY <1>1, <2>1, <2>2, <2>3, FollowsKept
<1> QED
  BY <1>1 DEF CleanFollow

LEMMA VersionsDated ==
    ASSUME IInv, Dated, NEW p \in DOMAIN cache
    PROVE  /\ p \in PageIds /\ cache[p] \in CachedPage /\ Within(cache[p], Len(chunks))
           /\ cache[p].version \in Versions /\ previous \in Versions
           /\ cache[p].version <= previous
BY DEF IInv, Cached, AllWithin, CachedPage, Given, Dated

-----------------------------------------------------------------------------
(* Steps and the pages that follow the chain *)

LEMMA InitFollows == ASSUME Init PROVE FollowInv
<1>1. DOMAIN cache = {}
  BY DEF Init
<1>2. clean \in [PageIds -> BOOLEAN]
  BY DEF Init
<1> QED
  BY <1>1, <1>2 DEF Init, FollowInv, Dated, Refreshed, CleanFollow

\* The lists and the index end, the pages stay.
LEMMA LeftFollows ==
    ASSUME IInv, FollowInv, Left, UNCHANGED <<chain, cache, chunks, previous, clean>>
    PROVE  FollowInv'
<1>1. Dated' /\ Refreshed'
  BY DEF FollowInv, Dated, Refreshed, Left
<1> QED
  BY <1>1, CleanKept DEF FollowInv

LEMMA StartBlockFollows == ASSUME IInv, FollowInv, StartBlock PROVE FollowInv'
<1>1. Dated'
  <2>1. ASSUME NEW p \in DOMAIN cache PROVE cache[p].version <= previous'
    <3>1. cache[p].version \in Versions /\ previous \in Versions /\ cache[p].version <= previous
      BY VersionsDated DEF FollowInv
    <3>2. previous' \in previous .. LastBlock
      BY DEF StartBlock
    <3> QED
      BY <3>1, <3>2, PageCacheAssumption DEF Versions
  <2> QED
    BY <2>1 DEF StartBlock, Dated
<1>2. Refreshed'
  BY DEF StartBlock, Refreshed
<1> QED
  BY <1>1, <1>2, CleanKept DEF FollowInv, StartBlock

\* Nothing is fresh no longer.
LEMMA FreshKept ==
    ASSUME NEW p, Fresh(p), UNCHANGED <<chain, previous>>,
           cache'[p].version = cache[p].version \/ cache'[p].version = previous
    PROVE  Fresh(p)'
BY DEF Fresh

LEMMA SkipPageFollows == ASSUME ServerIsRight, IInv, FollowInv, SkipPage PROVE FollowInv'
<1>1. /\ Updating /\ Answer = << >> /\ pos' = pos + 1
      /\ UNCHANGED <<chain, cache, chunks, previous, block, stage, pending, list, clean>>
  BY DEF SkipPage
<1>2. pos \in Nat /\ list \in Seq(PageIds)
  BY DEF IInv, Listed
<1>3. Fresh(Current)
  <2> DEFINE id == Current
             n == cache[id].version
  <2>1. id \in DOMAIN cache
    BY <1>1, UpdatingFacts
  <2>2. id \in PageIds /\ n \in Versions /\ previous \in Versions /\ n <= previous
    BY <2>1, VersionsDated DEF FollowInv
  <2>3. chain \in Chains /\ cut \in {"bytes", "span"}
    BY DEF IInv, Given
  <2>4. Delta(chain[n][id], chain[previous][id], cut) = << >>
    BY <1>1 DEF Answer, Target
  <2> HIDE DEF id, n
  <2>5. chain[n][id] = chain[previous][id]
    BY <2>2, <2>3, <2>4 DEF ServerIsRight
  <2> QED
    BY <2>5 DEF Fresh, id, n
<1>4. Refreshed'
  <2>1. ASSUME stage # "idle", "readonly" \notin pending, NEW i \in 1 .. Len(block.readonly)
        PROVE  Fresh(block.readonly[i]) \/ (stage = "updating" /\ list = block.readonly /\ i > pos + 1)
    <3>1. CASE Fresh(block.readonly[i])
      BY <3>1
    <3>2. CASE stage = "updating" /\ list = block.readonly /\ i > pos
      <4>1. CASE i = pos + 1
        BY <1>3, <3>2, <4>1 DEF Current
      <4>2. CASE i # pos + 1
        <5>1. i > pos + 1
          BY <1>2, <3>2, <4>2
        <5> QED
          BY <3>2, <5>1
      <4> QED
        BY <4>1, <4>2
    <3> QED
      BY <2>1, <3>1, <3>2 DEF FollowInv, Refreshed
  <2>2. \A p : Fresh(p)' <=> Fresh(p)
    BY <1>1 DEF Fresh
  <2> QED
    BY <1>1, <2>1, <2>2 DEF Refreshed
<1>5. Dated'
  BY <1>1 DEF FollowInv, Dated
<1> QED
  BY <1>1, <1>4, <1>5, CleanKept DEF FollowInv

LEMMA PagesUpdatedFollows == ASSUME IInv, FollowInv, PagesUpdated PROVE FollowInv'
<1>1. /\ stage = "updating" /\ pos = Len(list) /\ stage' = "migrating"
      /\ UNCHANGED <<chain, cache, chunks, previous, block, pending, list, clean>>
  BY DEF PagesUpdated
<1>2. list \in Seq(PageIds)
  BY DEF IInv, Listed
<1>3. Refreshed'
  <2>1. ASSUME "readonly" \notin pending, NEW i \in 1 .. Len(block.readonly)
        PROVE  Fresh(block.readonly[i])
    <3>1. ~(list = block.readonly /\ i > pos)
      BY <1>1, <1>2
    <3> QED
      BY <1>1, <2>1, <3>1 DEF FollowInv, Refreshed
  <2>2. \A p : Fresh(p)' <=> Fresh(p)
    BY <1>1 DEF Fresh
  <2> QED
    BY <1>1, <2>1, <2>2 DEF Refreshed
<1>4. Dated'
  BY <1>1 DEF FollowInv, Dated
<1> QED
  BY <1>1, <1>3, <1>4, CleanKept DEF FollowInv

\* The pages are prepared, or nothing happens.
LEMMA OtherFollows ==
    ASSUME IInv, FollowInv, UNCHANGED <<chain, cache, chunks, previous, block, pending, list, clean>>,
           \/ UNCHANGED <<stage, pos>>
           \/ stage \notin {"idle", "updating"}
    PROVE  FollowInv'
<1>1. Dated'
  BY DEF FollowInv, Dated
<1>2. \A p : Fresh(p)' <=> Fresh(p)
  BY DEF Fresh
<1>3. Refreshed'
  BY <1>2 DEF FollowInv, Refreshed
<1> QED
  BY <1>1, <1>3, CleanKept DEF FollowInv

\* A page that is new in the cache is empty.
LEMMA NewPageFollows ==
    ASSUME NEW page \in CachedPage, page.migrants = << >>, NEW objects,
           objects[page.native] = NewChunk
    PROVE  ContentIn(page, objects) = EmptyPage /\ Neat(page, objects) /\ Distinct(page)
<1>1. DOMAIN page.migrants = {} /\ Len(page.migrants) = 0
  OBVIOUS
<1>2. ContentOf(NewChunk) = << >>
  BY DEF ContentOf, NewChunk
<1>3. ContentIn(page, objects) = EmptyPage
  <2>1. [i \in DOMAIN page.migrants |->
            [id |-> page.migrants[i].id,
             bytes |-> ContentOf(objects[page.migrants[i].chunk])]] = << >>
    BY <1>1
  <2> QED
    BY <1>2, <2>1 DEF ContentIn, EmptyPage
<1>4. Neat(page, objects)
  <2>1. \A c : Holds(page, c) => c = page.native
    BY <1>1, HoldsMeans
  <2> QED
    BY <2>1, NewChunkSound DEF Neat
<1>5. Distinct(page)
  <2>1. DOMAIN ChunksOf(page) = 1 .. Len(page.migrants) + 1
    BY PageChunks
  <2>2. \A k \in DOMAIN ChunksOf(page) : k = 1
    BY <1>1, <2>1
  <2> QED
    BY <2>2 DEF Distinct
<1> QED
  BY <1>3, <1>4, <1>5

LEMMA PreparePagesFollows == ASSUME IInv, FollowInv, PreparePages PROVE FollowInv'
<1>1. PICK which \in pending :
        LET pages == IF which = "readonly" THEN block.readonly ELSE block.writable
            new == SetToSeq({pages[i] : i \in DOMAIN pages} \ DOMAIN cache)
            NewPage(k) == [version |-> previous, native |-> Len(chunks) + k, migrants |-> << >>]
            Place(id) == CHOOSE k \in DOMAIN new : new[k] = id
        IN  /\ stage = "preparing"
            /\ pending' = pending \ {which}
            /\ list' = pages
            /\ cache' = [id \in DOMAIN cache \cup {new[k] : k \in DOMAIN new} |->
                            IF id \in DOMAIN cache THEN cache[id] ELSE NewPage(Place(id))]
            /\ chunks' = chunks \o [k \in DOMAIN new |-> NewChunk]
            /\ clean' = [id \in PageIds |-> IF \E k \in DOMAIN new : new[k] = id
                                            THEN chain[previous][id] = EmptyPage ELSE clean[id]]
            /\ pos' = 0
            /\ stage' = "updating"
            /\ UNCHANGED <<chain, previous, block>>
  BY DEF PreparePages
<1> DEFINE pages == IF which = "readonly" THEN block.readonly ELSE block.writable
           S == {pages[i] : i \in DOMAIN pages} \ DOMAIN cache
           new == SetToSeq(S)
           n == Len(chunks)
           more == [k \in DOMAIN new |-> NewChunk]
           NewPage(k) == [version |-> previous, native |-> n + k, migrants |-> << >>]
           Place(id) == CHOOSE k \in DOMAIN new : new[k] = id
<1>2. /\ stage = "preparing" /\ pending' = pending \ {which} /\ list' = pages
      /\ cache' = [id \in DOMAIN cache \cup {new[k] : k \in DOMAIN new} |->
                      IF id \in DOMAIN cache THEN cache[id] ELSE NewPage(Place(id))]
      /\ chunks' = chunks \o more
      /\ clean' = [id \in PageIds |-> IF \E k \in DOMAIN new : new[k] = id
                                      THEN chain[previous][id] = EmptyPage ELSE clean[id]]
      /\ pos' = 0 /\ stage' = "updating"
      /\ UNCHANGED <<chain, previous, block>>
  BY <1>1
<1>3. /\ chunks \in Seq(Sound) /\ n \in Nat /\ DOMAIN cache \subseteq PageIds
      /\ AllWithin(cache, n) /\ previous \in Versions /\ block \in Blocks
      /\ clean \in [PageIds -> BOOLEAN]
  BY DEF IInv, Cached, Given, Listed, FollowInv
<1>4. IInv'
  BY PreparePagesInv
<1>5. IsFiniteSet(S)
  <2>1. pages \in Seq(PageIds)
    BY <1>3, BlockType
  <2> HIDE DEF pages
  <2>2. S \subseteq PageIds
    BY <2>1
  <2> QED
    BY <2>2, PageCacheAssumption, FS_Subset
<1>6. \A id \in S : id \notin DOMAIN cache
  OBVIOUS
<1> HIDE DEF S, pages
<1>7. new \in Seq(S) /\ \A x \in S : \E k \in DOMAIN new : new[k] = x
  BY <1>5, SetInSequence
<1> HIDE DEF new
<1>8. DOMAIN new = 1 .. Len(new) /\ Len(new) \in Nat /\ \A k \in DOMAIN new : new[k] \in S
  BY <1>7
<1>9. /\ DOMAIN cache' = DOMAIN cache \cup S
      /\ \A id \in DOMAIN cache : cache'[id] = cache[id]
  <2>1. {new[k] : k \in DOMAIN new} = S
    BY <1>7, <1>8
  <2> QED
    BY <1>2, <2>1
<1>10. ASSUME NEW id \in S
       PROVE  /\ Place(id) \in 1 .. Len(new) /\ new[Place(id)] = id
              /\ cache'[id] = NewPage(Place(id))
  <2>1. Place(id) \in DOMAIN new /\ new[Place(id)] = id
    BY <1>7
  <2> QED
    BY <1>2, <1>6, <1>8, <1>9, <2>1
<1> HIDE DEF Place, n
<1>11. /\ \A c \in 1 .. n : chunks'[c] = chunks[c]
       /\ \A k \in 1 .. Len(new) : chunks'[n + k] = NewChunk
  <2>1. more \in [1 .. Len(new) -> Sound]
    BY <1>8, NewChunkSound
  <2>2. more \in Seq(Sound) /\ Len(more) = Len(new) /\ \A k \in 1 .. Len(new) : more[k] = NewChunk
    BY <1>8, <2>1
  <2> HIDE DEF more, n
  <2>3. \A c \in 1 .. Len(chunks) + Len(more) :
            (chunks \o more)[c] = IF c <= Len(chunks) THEN chunks[c] ELSE more[c - Len(chunks)]
    BY <1>3, <2>2, ConcatProperties
  <2>4. ASSUME NEW c \in 1 .. n PROVE chunks'[c] = chunks[c]
    <3>1. c \in 1 .. Len(chunks) + Len(more) /\ c <= Len(chunks)
      BY <1>3, <1>8, <2>2 DEF n
    <3> QED
      BY <1>2, <2>3, <3>1
  <2>5. ASSUME NEW k \in 1 .. Len(new) PROVE chunks'[n + k] = NewChunk
    <3>1. /\ n + k \in 1 .. Len(chunks) + Len(more) /\ ~(n + k <= Len(chunks))
          /\ (n + k) - Len(chunks) = k
      BY <1>3, <1>8, <2>2 DEF n
    <3> QED
      BY <1>2, <2>2, <2>3, <3>1
  <2> QED
    BY <2>4, <2>5
<1> HIDE DEF more
\* The chunk of a new page is behind those that were there, and no other page has it.
<1>12. ASSUME NEW id \in S
       PROVE  /\ cache'[id] \in CachedPage /\ cache'[id].migrants = << >>
              /\ cache'[id].native = n + Place(id) /\ cache'[id].version = previous
              /\ \A c : Holds(cache'[id], c) => c = n + Place(id)
  <2>1. cache'[id] \in CachedPage
    BY <1>4, <1>9 DEF IInv, Cached, AllWithin
  <2>2. /\ cache'[id].migrants = << >> /\ cache'[id].native = n + Place(id)
        /\ cache'[id].version = previous
    <3> DEFINE k == Place(id)
    <3>1. cache'[id] = [version |-> previous, native |-> n + k, migrants |-> << >>]
      BY <1>10
    <3> HIDE DEF k
    <3>2. cache'[id].native = n + k /\ cache'[id].version = previous
      BY <3>1
    <3>3. cache'[id].migrants = << >>
      BY <3>1
    <3> QED
      BY <3>2, <3>3 DEF k
  <2>3. Len(cache'[id].migrants) = 0
    BY <2>2
  <2>4. \A c : Holds(cache'[id], c) => c = cache'[id].native
    BY <2>1, <2>3, HoldsMeans
  <2> QED
    BY <2>1, <2>2, <2>4
<1>13. ASSUME NEW id \in S, NEW c, Holds(cache'[id], c) PROVE c \notin 1 .. n
  <2> DEFINE k == Place(id)
  <2>1. k \in 1 .. Len(new) /\ c = n + k
    BY <1>10, <1>12, <1>13
  <2> HIDE DEF k
  <2> QED
    BY <1>3, <1>8, <2>1
<1>14. ASSUME NEW p \in DOMAIN cache, clean[p] PROVE Follows(cache, chunks, p)'
  <2>1. Follows(cache, chunks, p) /\ cache[p] \in CachedPage
    BY <1>3, <1>14 DEF FollowInv, CleanFollow, AllWithin
  <2>2. \A q \in DOMAIN cache' : q # p => \A c : Holds(cache'[q], c) =>
            c \notin 1 .. n \/ \E o \in DOMAIN cache : o # p /\ Holds(cache[o], c)
    BY <1>9, <1>13
  <2>3. Alone(cache', p)
    BY <1>3, <1>9, <2>1, <2>2, AloneKept DEF Follows
  <2>4. \A c : Holds(cache[p], c) => chunks'[c] = chunks[c]
    BY <1>3, <1>11, HoldsWithin DEF AllWithin
  <2> QED
    BY <1>2, <1>9, <2>1, <2>3, <2>4, FollowsKept
<1>15. ASSUME NEW id \in S, chain[previous][id] = EmptyPage PROVE Follows(cache, chunks, id)'
  <2> DEFINE page == cache'[id]
  <2>1. chunks'[page.native] = NewChunk
    <3> DEFINE k == Place(id)
    <3>1. k \in 1 .. Len(new) /\ page.native = n + k
      BY <1>10, <1>12
    <3> HIDE DEF k, page
    <3> QED
      BY <1>11, <3>1
  <2>2. ContentIn(page, chunks') = EmptyPage /\ Neat(page, chunks') /\ Distinct(page)
    BY <1>12, <2>1, NewPageFollows
  <2>3. ASSUME NEW q \in DOMAIN cache', q # id, NEW c, Holds(page, c), Holds(cache'[q], c)
        PROVE  FALSE
    <3>1. c = n + Place(id) /\ c \notin 1 .. n
      BY <1>12, <1>13, <2>3
    <3>2. CASE q \in DOMAIN cache
      BY <1>3, <1>9, <2>3, <3>1, <3>2, HoldsWithin DEF AllWithin
    <3>3. CASE q \in S
      <4>1. c = n + Place(q)
        BY <1>12, <2>3, <3>3
      <4>2. Place(q) = Place(id)
        <5> DEFINE j == Place(q)
                   k == Place(id)
        <5>1. j \in 1 .. Len(new) /\ k \in 1 .. Len(new) /\ n + j = n + k
          BY <1>10, <3>1, <3>3, <4>1
        <5> HIDE DEF j, k
        <5>2. j = k
          BY <1>3, <1>8, <5>1
        <5> QED
          BY <5>2 DEF j, k
      <4> QED
        BY <1>10, <2>3, <3>3, <4>2
    <3> QED
      BY <1>9, <3>2, <3>3
  <2>4. Alone(cache', id)
    BY <2>2, <2>3 DEF Alone
  <2>5. ContentIn(page, chunks') = chain[cache'[id].version][id]
    BY <1>12, <1>15, <2>2
  <2> QED
    BY <1>2, <2>2, <2>4, <2>5, FollowsNow
<1>16. CleanFollow'
  <2>1. ASSUME NEW p \in DOMAIN cache', clean'[p] PROVE Follows(cache, chunks, p)'
    <3>1. CASE p \in DOMAIN cache
      <4>1. clean[p] /\ p \in PageIds
        BY <1>2, <1>3, <1>6, <1>8, <2>1, <3>1
      <4> QED
        BY <1>14, <3>1, <4>1
    <3>2. CASE p \in S
      <4>1. p \in PageIds
        BY <1>4, <2>1 DEF IInv, Cached
      <4>2. chain[previous][p] = EmptyPage
        BY <1>2, <1>7, <2>1, <3>2, <4>1
      <4> QED
        BY <1>15, <3>2, <4>2
    <3> QED
      BY <1>9, <3>1, <3>2
  <2> QED
    BY <2>1 DEF CleanFollow
<1>17. clean' \in [PageIds -> BOOLEAN]
  <2>1. \A id \in PageIds : clean[id] \in BOOLEAN
    BY <1>3
  <2> QED
    BY <1>2, <2>1
<1>18. Dated'
  <2>1. ASSUME NEW p \in DOMAIN cache' PROVE cache'[p].version <= previous
    <3>1. CASE p \in DOMAIN cache
      BY <1>9, <3>1 DEF FollowInv, Dated
    <3>2. CASE p \in S
      BY <1>3, <1>12, <3>2, PageCacheAssumption DEF Versions
    <3> QED
      BY <1>9, <3>1, <3>2
  <2> QED
    BY <1>2, <2>1 DEF Dated
<1>19. Refreshed'
  <2>1. ASSUME "readonly" \notin pending', NEW i \in 1 .. Len(block.readonly)
        PROVE  Fresh(block.readonly[i])' \/ (list' = block.readonly /\ i > 0)
    <3>1. CASE which = "readonly"
      <4>1. list' = block.readonly
        BY <1>2, <3>1 DEF pages
      <4>2. i > 0
        <5>1. block.readonly \in Seq(PageIds)
          BY <1>3, BlockType
        <5> QED
          BY <5>1
      <4> QED
        BY <4>1, <4>2
    <3>2. CASE which # "readonly"
      <4>1. "readonly" \notin pending
        BY <1>2, <2>1, <3>2
      <4>2. Fresh(block.readonly[i])
        BY <1>2, <4>1 DEF FollowInv, Refreshed
      <4>3. block.readonly[i] \in DOMAIN cache
        BY <4>1 DEF IInv, Listed, InCache
      <4> QED
        BY <1>2, <1>9, <4>2, <4>3, FreshKept
    <3> QED
      BY <3>1, <3>2
  <2> QED
    BY <1>2, <2>1 DEF Refreshed
<1> QED
  BY <1>16, <1>17, <1>18, <1>19 DEF FollowInv

\* The chunks a page gets are not its own, nor twice the same.
LEMMA DistinctKept ==
    ASSUME NEW page \in CachedPage, NEW o \in Seq(Sound), Within(page, Len(o)), Distinct(page),
           NEW next, NEW nextObjects, Updated(page, o, next, nextObjects)
    PROVE  Distinct(next)
<1> DEFINE m == Len(page.migrants)
           mm == Len(next.migrants)
           n == Len(o)
           was == ChunksOf(page)
           all == ChunksOf(next)
<1>1. /\ next \in CachedPage /\ next.native = page.native /\ m <= mm
      /\ \A k \in 1 .. m : next.migrants[k].chunk = page.migrants[k].chunk
      /\ \A k \in m + 1 .. mm : next.migrants[k].chunk = n + (k - m)
  BY DEF Updated
<1>2. /\ DOMAIN was = 1 .. m + 1 /\ m \in Nat /\ was[1] = page.native
      /\ \A k \in 2 .. m + 1 : was[k] = page.migrants[k - 1].chunk /\ k - 1 \in 1 .. m
  BY PageChunks
<1>3. /\ DOMAIN all = 1 .. mm + 1 /\ mm \in Nat /\ all[1] = next.native
      /\ \A k \in 2 .. mm + 1 : all[k] = next.migrants[k - 1].chunk /\ k - 1 \in 1 .. mm
  BY <1>1, PageChunks
<1>4. n \in Nat /\ was \in Seq(1 .. n)
  BY PageChunks
<1>5. \A i, k \in DOMAIN was : was[i] = was[k] => i = k
  BY DEF Distinct
<1>6. \A k \in DOMAIN was : was[k] \in 1 .. n
  BY <1>4
<1> HIDE DEF m, mm, n, was, all
<1>7. ASSUME NEW k \in 1 .. m + 1 PROVE all[k] = was[k]
  <2>1. CASE k = 1
    BY <1>1, <1>2, <1>3, <2>1
  <2>2. CASE k # 1
    <3>1. k \in 2 .. m + 1 /\ k \in 2 .. mm + 1
      BY <1>1, <1>2, <1>3, <2>2
    <3>2. k - 1 \in 1 .. m
      BY <1>2, <3>1
    <3> QED
      BY <1>1, <1>2, <1>3, <3>1, <3>2
  <2> QED
    BY <2>1, <2>2
<1>8. ASSUME NEW k \in m + 2 .. mm + 1 PROVE all[k] = n + (k - 1 - m)
  <2>1. k \in 2 .. mm + 1 /\ k - 1 \in m + 1 .. mm
    BY <1>2, <1>3
  <2> QED
    BY <1>1, <1>3, <2>1
<1>9. ASSUME NEW i \in 1 .. mm + 1, NEW k \in 1 .. mm + 1, all[i] = all[k] PROVE i = k
  <2>1. i \in 1 .. m + 1 \/ i \in m + 2 .. mm + 1
    BY <1>2, <1>3
  <2>2. k \in 1 .. m + 1 \/ k \in m + 2 .. mm + 1
    BY <1>2, <1>3
  <2>3. CASE i \in 1 .. m + 1 /\ k \in 1 .. m + 1
    BY <1>2, <1>5, <1>7, <1>9, <2>3
  <2>4. CASE i \in 1 .. m + 1 /\ k \in m + 2 .. mm + 1
    <3>1. all[i] \in 1 .. n /\ all[k] = n + (k - 1 - m)
      BY <1>2, <1>6, <1>7, <1>8, <2>4
    <3> QED
      BY <1>2, <1>3, <1>4, <1>9, <2>4, <3>1
  <2>5. CASE i \in m + 2 .. mm + 1 /\ k \in 1 .. m + 1
    <3>1. all[k] \in 1 .. n /\ all[i] = n + (i - 1 - m)
      BY <1>2, <1>6, <1>7, <1>8, <2>5
    <3> QED
      BY <1>2, <1>3, <1>4, <1>9, <2>5, <3>1
  <2>6. CASE i \in m + 2 .. mm + 1 /\ k \in m + 2 .. mm + 1
    <3>1. n + (i - 1 - m) = n + (k - 1 - m)
      BY <1>8, <1>9, <2>6
    <3> QED
      BY <1>2, <1>3, <1>4, <2>6, <3>1
  <2> QED
    BY <2>1, <2>2, <2>3, <2>4, <2>5, <2>6
<1> QED
  BY <1>3, <1>9 DEF Distinct, all

\* A page that is not updated follows the chain as before.
LEMMA OthersFollow ==
    ASSUME IInv, Updating, UNCHANGED chain, NEW page,
           Updated(cache[Current], chunks, page, chunks'),
           NEW next \in CachedPage, next.native = page.native, next.migrants = page.migrants,
           cache' = [cache EXCEPT ![Current] = next],
           NEW p \in DOMAIN cache, p # Current, Follows(cache, chunks, p)
    PROVE  Follows(cache, chunks, p)'
<1> DEFINE id == Current
           n == Len(chunks)
           after == cache'
<1>1. /\ id \in DOMAIN cache /\ cache[id] \in CachedPage /\ AllWithin(cache, n) /\ n \in Nat
      /\ cache[p] \in CachedPage
  BY UpdatingFacts DEF IInv, Cached, AllWithin
<1>2. /\ DOMAIN cache' = DOMAIN cache /\ cache'[id] = next
      /\ \A q \in DOMAIN cache : q # id => cache'[q] = cache[q]
  BY <1>1
<1>3. \A c : Holds(next, c) <=> Holds(page, c)
  BY DEF Holds, ChunksOf
<1>4. \A c \in 1 .. n : /\ ~Holds(cache[id], c) => chunks'[c] = chunks[c]
                        /\ Holds(page, c) => Holds(cache[id], c)
  BY DEF Updated
<1> HIDE DEF id, n
<1>5. \A q \in DOMAIN after : q # p => \A c : Holds(after[q], c) =>
          c \notin 1 .. n \/ \E o \in DOMAIN cache : o # p /\ Holds(cache[o], c)
  <2>1. ASSUME NEW q \in DOMAIN cache', q # p, NEW c \in 1 .. n, Holds(cache'[q], c)
        PROVE  \E o \in DOMAIN cache : o # p /\ Holds(cache[o], c)
    <3>1. CASE q = id
      BY <1>1, <1>2, <1>3, <1>4, <2>1, <3>1
    <3>2. CASE q # id
      BY <1>2, <2>1, <3>2
    <3> QED
      BY <3>1, <3>2
  <2> QED
    BY <2>1
<1>6. p # id /\ after[p] = cache[p]
  BY <1>2 DEF id
<1>7. Alone(after, p)
  <2>1. Alone(cache, p)
    BY DEF Follows
  <2> HIDE DEF after
  <2> QED
    BY <1>1, <1>5, <1>6, <2>1, AloneKept
<1>8. ASSUME NEW c, Holds(cache[p], c) PROVE chunks'[c] = chunks[c]
  <2>1. c \in 1 .. n
    BY <1>1, <1>8, HoldsWithin DEF AllWithin
  <2>2. ~Holds(cache[id], c)
    BY <1>1, <1>6, <1>8 DEF Follows, Alone
  <2> QED
    BY <1>4, <2>1, <2>2
<1> QED
  BY <1>1, <1>6, <1>7, <1>8, FollowsKept

\* A delta of the server makes a page that follows the chain the page of the previous block,
\* and does not throw.
LEMMA TargetFollows ==
    ASSUME ServerIsRight, IInv, FollowInv, Updating, Answer # << >>, clean[Current]
    PROVE  LET a == AppliedTo(cache[Current], chunks, Answer)
           IN  /\ ~a.threw
               /\ ContentIn(a.page, a.objects) = chain[previous][Current]
               /\ Neat(a.page, a.objects) /\ Distinct(a.page)
               /\ \A q \in DOMAIN cache : q # Current =>
                     \A c : ~(Holds(a.page, c) /\ Holds(cache[q], c))
<1> DEFINE id == Current
           old == cache[id]
           n == old.version
           s == Answer
           a == AppliedTo(old, chunks, s)
<1>1. /\ id \in DOMAIN cache /\ old \in CachedPage /\ Within(old, Len(chunks))
      /\ chunks \in Seq(Sound) /\ s \in Seq(Byte)
  BY UpdatingFacts
<1>2. id \in PageIds /\ n \in Versions /\ previous \in Versions /\ n <= previous
  BY <1>1, VersionsDated DEF FollowInv
<1>3. chain \in Chains /\ cut \in {"bytes", "span"} /\ AllWithin(cache, Len(chunks))
  BY DEF IInv, Given, Cached
<1>4. /\ Alone(cache, id) /\ Neat(old, chunks) /\ ContentIn(old, chunks) = chain[n][id]
  BY <1>1 DEF FollowInv, CleanFollow, Follows
<1>5. s = Delta(chain[n][id], chain[previous][id], cut) /\ s # << >>
  BY DEF Answer, Target
<1>6. /\ Updated(old, chunks, a.page, a.objects)
      /\ \A c \in 1 .. Len(a.objects) :
            ~a.threw /\ (c <= Len(chunks) => Tidy(chunks[c])) => Tidy(a.objects[c])
  BY <1>1, DeltaOnPage
<1>7. Distinct(old)
  BY <1>4 DEF Alone
<1> HIDE DEF id, n, s
<1>8. IsDelta(s, chain[n][id], chain[previous][id])
  BY <1>2, <1>3, <1>5 DEF ServerIsRight
<1> HIDE DEF old
<1>9. ~a.threw /\ ContentIn(a.page, a.objects) = chain[previous][id]
  BY <1>1, <1>4, <1>7, <1>8 DEF IsDelta
<1> HIDE DEF a
<1>10. Distinct(a.page)
  BY <1>1, <1>6, <1>7, DistinctKept
<1>11. /\ a.page \in CachedPage /\ Within(a.page, Len(a.objects)) /\ a.objects \in Seq(Sound)
       /\ \A c \in 1 .. Len(chunks) : Holds(a.page, c) => Holds(old, c)
  BY <1>6 DEF Updated
<1>12. Neat(a.page, a.objects)
  <2>1. ASSUME NEW c, Holds(a.page, c) PROVE Tidy(a.objects[c])
    <3>1. c \in 1 .. Len(a.objects)
      BY <1>11, <2>1, HoldsWithin
    <3>2. c <= Len(chunks) => Tidy(chunks[c])
      <4>1. Len(a.objects) \in Nat /\ Len(chunks) \in Nat
        BY <1>1, <1>11
      <4>2. c <= Len(chunks) => c \in 1 .. Len(chunks)
        BY <3>1, <4>1
      <4> QED
        BY <1>4, <1>11, <2>1, <4>2 DEF Neat
    <3> QED
      BY <1>6, <1>9, <3>1, <3>2
  <2> QED
    BY <2>1 DEF Neat
<1>13. ASSUME NEW q \in DOMAIN cache, q # id, NEW c, Holds(a.page, c), Holds(cache[q], c)
       PROVE  FALSE
  <2>1. c \in 1 .. Len(chunks)
    BY <1>3, <1>13, HoldsWithin DEF AllWithin
  <2>2. Holds(cache[id], c)
    BY <1>11, <1>13, <2>1 DEF old
  <2> QED
    BY <1>1, <1>4, <1>13, <2>2 DEF Alone
<1> QED
  BY <1>9, <1>10, <1>12, <1>13 DEF a, old, id, s

\* The versions and the turns of the pages, when one of them was updated.
LEMMA UpdateRefreshes ==
    ASSUME IInv, FollowInv, Updating, UNCHANGED <<chain, previous, block, stage, pending, list>>,
           NEW next \in CachedPage, cache' = [cache EXCEPT ![Current] = next],
           \/ next.version = previous /\ pos' = pos + 1
           \/ next.version = cache[Current].version /\ UNCHANGED pos
    PROVE  Dated' /\ Refreshed'
<1>1. PICK id \in DOMAIN cache : id = Current
  BY UpdatingFacts
<1>2. pos \in Nat
  BY DEF IInv, Listed
<1>3. /\ DOMAIN cache' = DOMAIN cache /\ cache'[id] = next
      /\ \A p \in DOMAIN cache : p # id => cache'[p] = cache[p]
  BY <1>1
<1>4. \A p \in DOMAIN cache : cache[p].version <= previous /\ previous <= previous
  <2>1. previous \in Nat
    BY PageCacheAssumption DEF IInv, Given, Versions
  <2> QED
    BY <2>1 DEF FollowInv, Dated
<1>5. Dated'
  <2>1. \A p \in DOMAIN cache : cache'[p].version <= previous
    BY <1>1, <1>3, <1>4
  <2> QED
    BY <1>3, <2>1 DEF Dated
<1>6. \A p \in DOMAIN cache : Fresh(p) => Fresh(p)'
  <2>1. ASSUME NEW p \in DOMAIN cache, Fresh(p) PROVE Fresh(p)'
    <3>1. cache'[p].version = cache[p].version \/ cache'[p].version = previous
      BY <1>3
    <3> QED
      BY <2>1, <3>1, FreshKept
  <2> QED
    BY <2>1
<1>7. pos' = pos + 1 => Fresh(id)'
  <2>1. pos' = pos + 1 => cache'[id].version = previous
    BY <1>1, <1>2, <1>3
  <2> QED
    BY <2>1 DEF Fresh
<1>8. Refreshed'
  <2>1. ASSUME stage # "idle", "readonly" \notin pending, NEW i \in 1 .. Len(block.readonly)
        PROVE  Fresh(block.readonly[i])' \/ (stage = "updating" /\ list = block.readonly /\ i > pos')
    <3>1. block.readonly[i] \in DOMAIN cache
      BY <2>1 DEF IInv, Listed, InCache
    <3>2. CASE Fresh(block.readonly[i])
      BY <1>6, <3>1, <3>2
    <3>3. CASE stage = "updating" /\ list = block.readonly /\ i > pos
      <4>1. CASE pos' = pos
        BY <3>3, <4>1
      <4>2. CASE pos' = pos + 1 /\ i = pos + 1
        BY <1>1, <1>7, <3>3, <4>2 DEF Current
      <4>3. CASE pos' = pos + 1 /\ i # pos + 1
        <5>1. i > pos + 1
          BY <1>2, <3>3, <4>3
        <5> QED
          BY <3>3, <4>3, <5>1
      <4> QED
        BY <4>1, <4>2, <4>3
    <3> QED
      BY <2>1, <3>2, <3>3 DEF FollowInv, Refreshed
  <2> QED
    BY <2>1 DEF Refreshed
<1> QED
  BY <1>5, <1>8

LEMMA UpdatePageFollows == ASSUME ServerIsRight, IInv, FollowInv, UpdatePage PROVE FollowInv'
<1> DEFINE a == AppliedTo(cache[Current], chunks, Answer)
           page == a.page
           next == [page EXCEPT !.version = previous]
<1>1. PICK id \in DOMAIN cache : id = Current
  BY UpdatingFacts DEF UpdatePage
<1>2. /\ Updating /\ Answer # << >> /\ cache' = [cache EXCEPT ![Current] = next]
      /\ chunks' = a.objects /\ pos' = pos + 1
      /\ UNCHANGED <<chain, previous, block, stage, pending, list, clean>>
  BY DEF UpdatePage, VersionSet
<1>3. /\ Updated(cache[Current], chunks, page, chunks')
      /\ page \in CachedPage /\ previous \in Versions
  BY <1>2, UpdatingFacts, DeltaOnPage DEF Updated, IInv, Given
<1>4. clean[id] => /\ ContentIn(page, chunks') = chain[previous][id]
                   /\ Neat(page, chunks') /\ Distinct(page)
                   /\ \A q \in DOMAIN cache : q # id => \A c : ~(Holds(page, c) /\ Holds(cache[q], c))
  BY <1>1, <1>2, TargetFollows
<1> HIDE DEF a, page
<1>5. /\ next \in CachedPage /\ next.native = page.native /\ next.migrants = page.migrants
      /\ next.version = previous
  BY <1>3 DEF CachedPage
<1> HIDE DEF next
<1>6. /\ DOMAIN cache' = DOMAIN cache /\ cache'[id] = next
      /\ \A q \in DOMAIN cache : q # id => cache'[q] = cache[q]
  BY <1>1, <1>2
<1>7. Dated' /\ Refreshed'
  BY <1>2, <1>5, UpdateRefreshes
<1>8. ASSUME clean[id] PROVE Follows(cache, chunks, id)'
  <2>1. ChunksOf(next) = ChunksOf(page) /\ ContentIn(next, chunks') = ContentIn(page, chunks')
    BY <1>5 DEF ChunksOf, ContentIn
  <2>2. Distinct(next) /\ Neat(next, chunks') /\ \A c : Holds(next, c) <=> Holds(page, c)
    BY <1>4, <1>8, <2>1 DEF Distinct, Neat, Holds
  <2>3. Alone(cache', id)
    BY <1>4, <1>6, <1>8, <2>2 DEF Alone
  <2>4. ContentIn(cache'[id], chunks') = chain[cache'[id].version][id]
    BY <1>4, <1>5, <1>6, <1>8, <2>1
  <2> QED
    BY <1>2, <1>6, <2>2, <2>3, <2>4, FollowsNow
<1>9. ASSUME NEW p \in DOMAIN cache, p # id, clean[p] PROVE Follows(cache, chunks, p)'
  <2>1. Follows(cache, chunks, p)
    BY <1>9 DEF FollowInv, CleanFollow
  <2> QED
    BY <1>1, <1>2, <1>3, <1>5, <1>9, <2>1, OthersFollow
<1>10. CleanFollow'
  <2>1. \A p \in DOMAIN cache : clean[p] => Follows(cache, chunks, p)'
    BY <1>8, <1>9
  <2> QED
    BY <1>2, <1>6, <2>1 DEF CleanFollow
<1> QED
  BY <1>2, <1>7, <1>10 DEF FollowInv

\* The page itself is not clean any more, or it was not before.
LEMMA OtherPages ==
    ASSUME IInv, FollowInv, Updating, UNCHANGED chain, NEW next \in CachedPage,
           Updated(cache[Current], chunks, next, chunks'),
           cache' = [cache EXCEPT ![Current] = next],
           \A p \in DOMAIN cache : clean'[p] => clean[p] /\ p # Current
    PROVE  CleanFollow'
<1>1. DOMAIN cache' = DOMAIN cache
  OBVIOUS
<1>2. ASSUME NEW p \in DOMAIN cache, clean'[p] PROVE Follows(cache, chunks, p)'
  <2>1. Follows(cache, chunks, p) /\ p # Current
    BY <1>2 DEF FollowInv, CleanFollow
  <2> QED
    BY <2>1, OthersFollow
<1> QED
  BY <1>1, <1>2 DEF CleanFollow

LEMMA RetryUpdateFollows == ASSUME IInv, FollowInv, RetryUpdate PROVE FollowInv'
<1> DEFINE page == AppliedTo(cache[Current], chunks, Answer).page
<1>1. /\ Updating /\ cache' = [cache EXCEPT ![Current] = page]
      /\ chunks' = AppliedTo(cache[Current], chunks, Answer).objects
      /\ clean' = [clean EXCEPT ![Current] = FALSE]
      /\ UNCHANGED <<chain, previous, block, stage, pending, list, pos>>
  BY DEF RetryUpdate
<1>2. Updated(cache[Current], chunks, page, chunks')
  BY <1>1, UpdatingFacts, DeltaOnPage
<1> HIDE DEF page
<1>3. page \in CachedPage /\ page.version = cache[Current].version
  BY <1>2 DEF Updated
<1>4. clean \in [PageIds -> BOOLEAN] /\ DOMAIN cache \subseteq PageIds
  BY DEF FollowInv, IInv, Cached
<1>5. /\ clean' \in [PageIds -> BOOLEAN]
      /\ \A p \in DOMAIN cache : clean'[p] => clean[p] /\ p # Current
  BY <1>1, <1>4
<1>6. CleanFollow'
  BY <1>1, <1>2, <1>3, <1>5, OtherPages
<1>7. Dated' /\ Refreshed'
  BY <1>1, <1>3, UpdateRefreshes
<1> QED
  BY <1>5, <1>6, <1>7 DEF FollowInv

LEMMA UpdateFailsFollows == ASSUME ServerIsRight, IInv, FollowInv, UpdateFails PROVE FollowInv'
<1>1. PICK answer \in {Answer, Broken(Answer)} :
        LET applied == AppliedTo(cache[Current], chunks, answer)
        IN  /\ Updating /\ answer # << >> /\ applied.threw
            /\ cache' = [cache EXCEPT ![Current] = applied.page]
            /\ chunks' = applied.objects /\ Left
            /\ clean' = [clean EXCEPT ![Current] = @ /\ answer = Answer]
            /\ UNCHANGED <<chain, previous>>
  BY DEF UpdateFails
<1> DEFINE a == AppliedTo(cache[Current], chunks, answer)
           page == a.page
<1>2. /\ Updating /\ answer # << >> /\ a.threw /\ cache' = [cache EXCEPT ![Current] = page]
      /\ chunks' = a.objects /\ Left
      /\ clean' = [clean EXCEPT ![Current] = @ /\ answer = Answer]
      /\ UNCHANGED <<chain, previous>>
  BY <1>1
<1>3. Updated(cache[Current], chunks, page, chunks')
  <2>1. answer \in Seq(Byte)
    BY <1>2, UpdatingFacts
  <2> QED
    BY <1>2, <2>1, UpdatingFacts, DeltaOnPage
<1>4. answer = Answer => ~clean[Current]
  BY <1>2, TargetFollows
<1> HIDE DEF a, page
<1>5. /\ clean \in [PageIds -> BOOLEAN] /\ DOMAIN cache \subseteq PageIds
      /\ Current \in PageIds
  BY <1>2, UpdatingFacts DEF FollowInv, IInv, Cached
<1>6. /\ clean' \in [PageIds -> BOOLEAN]
      /\ \A p \in DOMAIN cache : clean'[p] => clean[p] /\ p # Current
  BY <1>2, <1>4, <1>5
<1>7. page \in CachedPage /\ page.version = cache[Current].version
  BY <1>3 DEF Updated
<1>8. CleanFollow'
  BY <1>2, <1>3, <1>6, <1>7, OtherPages
<1>9. PICK id \in DOMAIN cache : id = Current
  BY <1>2, UpdatingFacts
<1>10. Dated'
  <2>1. /\ DOMAIN cache' = DOMAIN cache
        /\ \A p \in DOMAIN cache : cache'[p].version = cache[p].version
    BY <1>2, <1>7
  <2> QED
    BY <1>2, <2>1 DEF FollowInv, Dated
<1>11. Refreshed'
  BY <1>2 DEF Refreshed, Left
<1> QED
  BY <1>6, <1>8, <1>10, <1>11 DEF FollowInv

-----------------------------------------------------------------------------
(* Migrations, the index and the requests *)

LEMMA HoldsAppended ==
    ASSUME NEW page \in CachedPage, NEW x \in MigrantType, NEW c,
           NEW next \in CachedPage, next.native = page.native,
           next.migrants = Append(page.migrants, x), Holds(next, c)
    PROVE  Holds(page, c) \/ c = x.chunk
<1> DEFINE m == page.migrants
<1>1. m \in Seq(MigrantType)
  BY DEF CachedPage
<1>2. c = page.native \/ \E k \in 1 .. Len(Append(m, x)) : Append(m, x)[k].chunk = c
  BY HoldsMeans
<1>3. ASSUME NEW k \in 1 .. Len(Append(m, x)), Append(m, x)[k].chunk = c
      PROVE  c = x.chunk \/ \E j \in 1 .. Len(m) : m[j].chunk = c
  <2> HIDE DEF m
  <2>1. k \in 1 .. Len(m) \/ k = Len(m) + 1
    BY <1>1
  <2>2. CASE k \in 1 .. Len(m)
    BY <1>1, <1>3, <2>2
  <2>3. CASE k = Len(m) + 1
    BY <1>1, <1>3, <2>3
  <2> QED
    BY <2>1, <2>2, <2>3
<1> QED
  BY <1>2, <1>3, HoldsMeans

LEMMA HoldsRemoved ==
    ASSUME NEW page \in CachedPage, NEW i \in 1 .. Len(page.migrants), NEW c,
           NEW next \in CachedPage, next.native = page.native,
           next.migrants = RemoveAt(page.migrants, i), Holds(next, c)
    PROVE  Holds(page, c)
<1> DEFINE m == page.migrants
           s == RemoveAt(m, i)
<1>1. m \in Seq(MigrantType) /\ Len(m) \in Nat
  BY DEF CachedPage
<1>2. Len(s) = Len(m) - 1 /\ \A k \in 1 .. Len(m) - 1 : s[k] = IF k < i THEN m[k] ELSE m[k + 1]
  BY <1>1, Removed
<1>3. c = page.native \/ \E k \in 1 .. Len(s) : s[k].chunk = c
  BY HoldsMeans
<1> HIDE DEF s
<1>4. ASSUME NEW k \in 1 .. Len(s), s[k].chunk = c PROVE \E j \in 1 .. Len(m) : m[j].chunk = c
  <2>1. k \in 1 .. Len(m) - 1 /\ k \in 1 .. Len(m) /\ k + 1 \in 1 .. Len(m)
    BY <1>1, <1>2
  <2>2. m[k].chunk = c \/ m[k + 1].chunk = c
    BY <1>2, <1>4, <2>1
  <2> QED
    BY <2>1, <2>2
<1> QED
  BY <1>3, <1>4, HoldsMeans

\* The versions and the turns of the pages, when no page is updated.
LEMMA StaysRefreshed ==
    ASSUME IInv, FollowInv, UNCHANGED <<chain, previous>>,
           stage \notin {"idle", "updating"},
           UNCHANGED <<block, pending>> \/ stage' = "idle",
           DOMAIN cache' = DOMAIN cache,
           \A p \in DOMAIN cache : cache'[p].version = cache[p].version
    PROVE  Dated' /\ Refreshed'
<1>1. Dated'
  BY DEF FollowInv, Dated
<1>2. \A p \in DOMAIN cache : Fresh(p)' <=> Fresh(p)
  BY DEF Fresh
<1>3. ASSUME UNCHANGED <<block, pending>>, "readonly" \notin pending, NEW i \in 1 .. Len(block.readonly)
      PROVE  Fresh(block.readonly[i])'
  <2>1. block.readonly[i] \in DOMAIN cache
    BY <1>3 DEF IInv, Listed, InCache
  <2>2. Fresh(block.readonly[i])
    BY <1>3 DEF FollowInv, Refreshed
  <2>3. Fresh(block.readonly[i])' <=> chain'[cache'[block.readonly[i]].version][block.readonly[i]]
                                        = chain'[previous'][block.readonly[i]]
    BY <1>3 DEF Fresh
  <2> QED
    BY <2>1, <2>2, <2>3 DEF Fresh
<1>4. Refreshed'
  BY <1>3 DEF Refreshed
<1> QED
  BY <1>1, <1>4

LEMMA MigrateFollows == ASSUME IInv, FollowInv, Migrate PROVE FollowInv'
<1> DEFINE x == Migrant(From, cache[From].native)
           i == Migration.chunkIndex + 1
           y == cache[From].migrants[i]
           without == [cache EXCEPT ![From].migrants = RemoveAt(cache[From].migrants, i)]
           after == cache'
           n == Len(chunks)
<1>1. /\ From \in DOMAIN cache /\ To \in DOMAIN cache /\ AllWithin(cache, n)
      /\ DOMAIN cache \subseteq PageIds
  BY MigratingFacts DEF IInv, Cached, Migrate
<1>2. PICK f \in DOMAIN cache, t \in DOMAIN cache : f = From /\ t = To
  BY <1>1
<1>3. /\ Migrating /\ ~NoSuchPage /\ ~NoSuchMigrant
      /\ clean' = [clean EXCEPT ![f] = FALSE, ![t] = FALSE]
      /\ UNCHANGED <<chain, chunks, previous, block, stage, pending>>
  BY <1>2 DEF Migrate
<1>4. AllWithin(after, n)
  BY <1>3, MigrateInv DEF IInv, Cached, AllWithin
<1>5. cache[f] \in CachedPage /\ cache[t] \in CachedPage
  BY <1>1 DEF AllWithin
\* What a page has afterwards, it or the one the migrant comes from had before.
<1>6. /\ DOMAIN after = DOMAIN cache
      /\ \A q \in DOMAIN cache : after[q].version = cache[q].version
      /\ \A q \in DOMAIN cache : q # f /\ q # t => after[q] = cache[q]
      /\ \A q \in DOMAIN cache : \A c :
            Holds(after[q], c) => Holds(cache[q], c) \/ (q = t /\ Holds(cache[f], c))
  <2>1. CASE MigratesNative
    <3> DEFINE m == Append(cache[t].migrants, x)
    <3>1. after = [cache EXCEPT ![t].migrants = m]
      BY <1>2, <2>1 DEF Migrate
    <3>2. /\ x \in MigrantType /\ x.chunk = cache[f].native
      BY <1>1, <1>2, <1>5 DEF Migrant, MigrantType, CachedPage, Ids
    <3>3. m \in Seq(MigrantType)
      BY <1>5, <3>2 DEF CachedPage
    <3> HIDE DEF x, m, after
    <3>4. /\ DOMAIN after = DOMAIN cache /\ after[t] = [cache[t] EXCEPT !.migrants = m]
          /\ \A q \in DOMAIN cache : q # t => after[q] = cache[q]
      BY <3>1
    <3>5. /\ after[t] \in CachedPage /\ after[t].migrants = m
          /\ after[t].native = cache[t].native /\ after[t].version = cache[t].version
      BY <1>5, <3>3, <3>4 DEF CachedPage
    <3>6. ASSUME NEW c, Holds(after[t], c) PROVE Holds(cache[t], c) \/ Holds(cache[f], c)
      <4>1. Holds(cache[t], c) \/ c = x.chunk
        BY <1>5, <3>2, <3>5, <3>6, HoldsAppended DEF m
      <4>2. Holds(cache[f], cache[f].native)
        BY <1>5, HoldsMeans
      <4> QED
        BY <3>2, <4>1, <4>2
    <3> QED
      BY <3>4, <3>5, <3>6
  <2>2. CASE ~MigratesNative
    <3>1. i \in 1 .. Len(cache[f].migrants)
      <4>1. i \in DOMAIN cache[f].migrants
        BY <1>2, <1>3, <2>2 DEF NoSuchMigrant
      <4> QED
        BY <1>5, <4>1 DEF CachedPage
    <3> DEFINE r == RemoveAt(cache[f].migrants, i)
               m == Append(without[t].migrants, y)
    <3>2. without = [cache EXCEPT ![f].migrants = r] /\ after = [without EXCEPT ![t].migrants = m]
      BY <1>2, <2>2 DEF Migrate, Extracted
    <3>3. r \in Seq(MigrantType)
      BY <1>5, <3>1, Removed DEF CachedPage
    <3>4. y \in MigrantType /\ Holds(cache[f], y.chunk)
      <4>1. y = cache[f].migrants[i]
        BY <1>2
      <4> QED
        BY <1>5, <3>1, <4>1, HoldsMeans DEF CachedPage
    <3> HIDE DEF i, y, without, after
    <3>5. /\ DOMAIN without = DOMAIN cache /\ without[f] = [cache[f] EXCEPT !.migrants = r]
          /\ \A q \in DOMAIN cache : q # f => without[q] = cache[q]
      <4> HIDE DEF r
      <4> QED
        BY <3>2
    <3>6. /\ without[f] \in CachedPage /\ without[f].migrants = r
          /\ without[f].native = cache[f].native /\ without[f].version = cache[f].version
      <4> HIDE DEF r
      <4> QED
        BY <1>5, <3>3, <3>5 DEF CachedPage
    <3>7. \A c : Holds(without[f], c) => Holds(cache[f], c)
      BY <1>5, <3>1, <3>6, HoldsRemoved
    <3>8. /\ without[t] \in CachedPage /\ without[t].version = cache[t].version
          /\ \A c : Holds(without[t], c) => Holds(cache[t], c)
      BY <1>5, <3>5, <3>6, <3>7
    <3>9. m \in Seq(MigrantType)
      BY <3>4, <3>8 DEF CachedPage
    <3>10. /\ DOMAIN after = DOMAIN cache /\ after[t] = [without[t] EXCEPT !.migrants = m]
           /\ \A q \in DOMAIN cache : q # t => after[q] = without[q]
      <4> HIDE DEF m, r
      <4> QED
        BY <3>2, <3>5
    <3>11. /\ after[t] \in CachedPage /\ after[t].migrants = m
           /\ after[t].native = without[t].native /\ after[t].version = without[t].version
      <4> HIDE DEF m
      <4> QED
        BY <3>8, <3>9, <3>10 DEF CachedPage
    <3>12. ASSUME NEW c, Holds(after[t], c) PROVE Holds(cache[t], c) \/ Holds(cache[f], c)
      <4>1. Holds(without[t], c) \/ c = y.chunk
        BY <3>4, <3>8, <3>11, <3>12, HoldsAppended
      <4> QED
        BY <3>4, <3>8, <4>1
    <3> HIDE DEF m, r
    <3>13. \A q \in DOMAIN cache : after[q].version = cache[q].version
      BY <3>5, <3>6, <3>8, <3>10, <3>11
    <3>14. \A q \in DOMAIN cache : q # f /\ q # t => after[q] = cache[q]
      BY <3>5, <3>10
    <3>15. ASSUME NEW q \in DOMAIN cache, NEW c, Holds(after[q], c)
           PROVE  Holds(cache[q], c) \/ (q = t /\ Holds(cache[f], c))
      BY <3>5, <3>7, <3>10, <3>12, <3>15
    <3> QED
      BY <3>10, <3>13, <3>14, <3>15
  <2> QED
    BY <2>1, <2>2
<1>7. Dated' /\ Refreshed'
  <2>1. stage \notin {"idle", "updating"}
    BY <1>3 DEF Migrating
  <2> QED
    BY <1>3, <1>6, <2>1, StaysRefreshed
<1>8. clean' \in [PageIds -> BOOLEAN] /\ \A p \in DOMAIN cache : clean'[p] => clean[p] /\ p # f /\ p # t
  <2>1. clean \in [PageIds -> BOOLEAN] /\ f \in PageIds /\ t \in PageIds
    BY <1>1 DEF FollowInv
  <2> QED
    BY <1>1, <1>3, <2>1
<1>9. ASSUME NEW p \in DOMAIN cache, clean'[p] PROVE Follows(cache, chunks, p)'
  <2>1. Follows(cache, chunks, p) /\ p # f /\ p # t /\ cache[p] \in CachedPage
    BY <1>1, <1>8, <1>9 DEF FollowInv, CleanFollow, AllWithin
  <2>2. \A q \in DOMAIN after : q # p => \A c : Holds(after[q], c) =>
            c \notin 1 .. n \/ \E o \in DOMAIN cache : o # p /\ Holds(cache[o], c)
    BY <1>6, <2>1
  <2>3. after[p] = cache[p]
    BY <1>6, <2>1
  <2>4. Alone(after, p)
    <3>1. Alone(cache, p)
      BY <2>1 DEF Follows
    <3> HIDE DEF after, n
    <3> QED
      BY <1>1, <2>2, <2>3, <3>1, AloneKept
  <2> QED
    BY <1>3, <2>1, <2>3, <2>4, FollowsKept
<1>10. CleanFollow'
  BY <1>6, <1>9 DEF CleanFollow
<1> QED
  BY <1>7, <1>8, <1>10 DEF FollowInv

LEMMA BuildIndexFollows == ASSUME IInv, FollowInv, BuildIndex PROVE FollowInv'
<1>1. /\ stage = "indexing" /\ UNCHANGED <<chain, cache, previous, clean>>
      /\ UNCHANGED <<block, pending>> \/ stage' = "idle"
  BY DEF BuildIndex, Left
<1>2. \A c \in 1 .. Len(chunks) : /\ Tidy(chunks[c]) => Tidy(chunks'[c])
                                  /\ ContentOf(chunks'[c]) = ContentOf(chunks[c])
  BY BuildIndexInv
<1>3. Dated' /\ Refreshed'
  BY <1>1, StaysRefreshed
<1>4. ASSUME NEW p \in DOMAIN cache, clean[p] PROVE Follows(cache, chunks, p)'
  <2>1. /\ Follows(cache, chunks, p) /\ cache[p] \in CachedPage /\ Within(cache[p], Len(chunks))
        /\ cache' = cache
    BY <1>1, <1>4 DEF FollowInv, CleanFollow, IInv, Cached, AllWithin
  <2>2. Alone(cache', p)
    BY <2>1 DEF Follows
  <2> QED
    BY <1>1, <1>2, <2>1, <2>2, HoldsWithin, FollowsKept
<1>5. CleanFollow'
  BY <1>1, <1>4 DEF CleanFollow
<1> QED
  BY <1>1, <1>3, <1>5 DEF FollowInv

LEMMA ExecuteFollows ==
    ASSUME IInv, FollowInv, NEW write \in block.writes, Execute(write) PROVE FollowInv'
<1> DEFINE c == index[write.id]
<1>1. /\ stage = "executing" /\ UNCHANGED <<chain, cache, previous, block, pending>>
      /\ \E new : chunks' = [chunks EXCEPT ![c] = new]
      /\ clean' = [id \in PageIds |->
                      clean[id] /\ \A k \in DOMAIN ChunksOf(cache[id]) : ChunksOf(cache[id])[k] # c]
  BY DEF Execute
<1>2. /\ clean \in [PageIds -> BOOLEAN] /\ DOMAIN cache \subseteq PageIds
      /\ AllWithin(cache, Len(chunks)) /\ chunks \in Seq(Sound)
  BY DEF FollowInv, IInv, Cached
<1>3. Dated' /\ Refreshed'
  BY <1>1, StaysRefreshed
<1> HIDE DEF c
<1>4. ASSUME NEW p \in DOMAIN cache, clean'[p] PROVE Follows(cache, chunks, p)'
  <2>1. clean[p] /\ ~Holds(cache[p], c)
    BY <1>1, <1>2, <1>4 DEF Holds
  <2>2. /\ Follows(cache, chunks, p) /\ cache[p] \in CachedPage /\ Within(cache[p], Len(chunks))
        /\ cache' = cache
    BY <1>1, <1>2, <2>1 DEF FollowInv, CleanFollow, AllWithin
  <2>3. Alone(cache', p)
    BY <2>2 DEF Follows
  <2>4. ASSUME NEW d, Holds(cache[p], d) PROVE chunks'[d] = chunks[d]
    <3>1. d \in 1 .. Len(chunks) /\ d # c
      BY <2>1, <2>2, <2>4, HoldsWithin
    <3>2. d \in DOMAIN chunks
      BY <1>2, <3>1
    <3> QED
      BY <1>1, <3>1, <3>2
  <2>5. chain' = chain /\ cache'[p] = cache[p]
    BY <1>1
  <2> QED
    BY <2>2, <2>3, <2>4, <2>5, FollowsKept
<1>5. CleanFollow'
  BY <1>1, <1>4 DEF CleanFollow
<1>6. clean' \in [PageIds -> BOOLEAN]
  <2>1. \A id \in PageIds : clean[id] \in BOOLEAN
    BY <1>2
  <2> QED
    BY <1>1, <2>1
<1> QED
  BY <1>3, <1>5, <1>6 DEF FollowInv

\* A step of the validator keeps the invariant, when the server is right.
LEMMA StepFollows == ASSUME ServerIsRight, IInv, FollowInv, [Next]_vars PROVE FollowInv'
<1>1. CASE StartBlock
  BY <1>1, StartBlockFollows
<1>2. CASE PreparePages
  BY <1>2, PreparePagesFollows
<1>3. CASE SkipPage
  BY <1>3, SkipPageFollows
<1>4. CASE UpdatePage
  BY <1>4, UpdatePageFollows
<1>5. CASE RetryUpdate
  BY <1>5, RetryUpdateFollows
<1>6. CASE UpdateFails
  BY <1>6, UpdateFailsFollows
<1>7. CASE PagesUpdated
  BY <1>7, PagesUpdatedFollows
<1>8. CASE Migrate
  BY <1>8, MigrateFollows
<1>9. CASE MigrationFails
  BY <1>9, LeftFollows DEF MigrationFails
<1>10. CASE PagesPrepared
  BY <1>10, OtherFollows DEF PagesPrepared
<1>11. CASE BuildIndex
  BY <1>11, BuildIndexFollows
<1>12. CASE \E write \in block.writes : Execute(write)
  BY <1>12, ExecuteFollows
<1>13. CASE Decide
  BY <1>13, LeftFollows DEF Decide
<1>14. CASE UNCHANGED vars
  BY <1>14, OtherFollows DEF vars
<1> QED
  BY <1>1, <1>2, <1>3, <1>4, <1>5, <1>6, <1>7, <1>8, <1>9, <1>10, <1>11, <1>12, <1>13, <1>14
     DEF Next

LEMMA CleanPagesFollow == ASSUME IInv, FollowInv PROVE CleanPagesFollowChain
<1>1. ASSUME NEW id \in DOMAIN cache, clean[id]
      PROVE  PageContent(id) = chain[cache[id].version][id]
  <2>1. ContentIn(cache[id], chunks) = chain[cache[id].version][id]
    BY <1>1 DEF FollowInv, CleanFollow, Follows
  <2> QED
    BY <2>1 DEF PageContent, ContentIn, Content, ContentOf
<1>2. ASSUME NEW id \in DOMAIN cache, stage = "executing",
             \E i \in DOMAIN block.readonly : block.readonly[i] = id
      PROVE  chain[cache[id].version][id] = chain[previous][id]
  <2>1. pending = {} /\ block \in Blocks
    BY <1>2 DEF IInv, Listed
  <2>2. PICK i \in DOMAIN block.readonly : block.readonly[i] = id
    BY <1>2
  <2>3. i \in 1 .. Len(block.readonly)
    <3>1. block.readonly \in Seq(PageIds)
      BY <2>1, BlockType
    <3> QED
      BY <2>2, <3>1
  <2>4. Fresh(block.readonly[i])
    BY <1>2, <2>1, <2>3 DEF FollowInv, Refreshed
  <2> QED
    BY <2>2, <2>4 DEF Fresh
<1> QED
  BY <1>1, <1>2 DEF CleanPagesFollowChain

\* A page that blocks have only read is the chain's page of its version, and that of the
\* previous block when requests read it: for any blocks, skipped or validated twice or
\* rejected, any migrations and requests of other pages, as long as the server is right.
THEOREM CleanPagesFollowTheChain ==
    ASSUME ServerIsRight
    PROVE  Spec => []CleanPagesFollowChain
<1>1. Init => IInv /\ FollowInv
  BY InitInv, InitFollows
<1>2. (IInv /\ FollowInv) /\ [Next]_vars => (IInv /\ FollowInv)'
  BY StepKeeps, StepFollows
<1>3. IInv /\ FollowInv => CleanPagesFollowChain
  BY CleanPagesFollow
<1> QED
  BY <1>1, <1>2, <1>3, PTL DEF Spec

=============================================================================
